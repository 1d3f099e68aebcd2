------------------------------ MODULE E1000_proofs ------------------------------
(***************************************************************************)
(* The Ethernet driver loses, repeats and reorders no frame and leaves no  *)
(* read beside a frame, for rings of any size.                             *)
(*                                                                         *)
(* Positions in a ring are compared by the distance one is ahead of the    *)
(* other.  The frames the driver has yet to read lie in the descriptors    *)
(* from rx_ring_index on, as many as the controller is ahead (RxInv); the  *)
(* tail stands just behind the index, or one further back between the two  *)
(* halves of mark_current_rx_read, so that the controller never laps the   *)
(* driver.  The frames that have yet to leave lie between the registers of *)
(* the transmit ring (TxInv).  A cause is cleared only on the way to       *)
(* looking at the ring (ServeInv).                                         *)
(***************************************************************************)
EXTENDS E1000, TLAPS

\* How far j is ahead of i in a ring of N.
Dist(i, j, N) == IF i <= j THEN j - i ELSE j - i + N

Places(N) == 0..N - 1

\* Between the two halves of mark_current_rx_read.
Giving == ethPc \in {"give", "giveread"}

RxInv ==
    /\ rxIndex \in Places(RxDescs) /\ rdh \in Places(RxDescs)
    /\ rdt \in Places(RxDescs) /\ freed \in Places(RxDescs)
    /\ DOMAIN rxRing = Places(RxDescs)
    /\ got \in Seq(Nat)
    /\ rxCount = Len(got) + Dist(rxIndex, rdh, RxDescs)
    /\ \A i \in Places(RxDescs) :
          rxRing[i] = IF Dist(rxIndex, i, RxDescs) < Dist(rxIndex, rdh, RxDescs)
                      THEN Len(got) + 1 + Dist(rxIndex, i, RxDescs) ELSE 0
    /\ ~Giving => Dist(rxIndex, rdt, RxDescs) = RxDescs - 1
    /\ Giving => /\ Dist(rxIndex, freed, RxDescs) = RxDescs - 1
                 /\ Dist(rxIndex, rdt, RxDescs) = RxDescs - 2
                 /\ Dist(rxIndex, rdh, RxDescs) <= RxDescs - 2
    /\ \A i \in 1..Len(got) : got[i] = i

\* Nothing is in a sequence twice.
Unique(box) == \A i, j \in 1..Len(box) : box[i] = box[j] => i = j

\* One request of a kind waits in the mailbox, and a write found room.
MailInv ==
    /\ mailbox \in Seq({"read", "write"})
    /\ Unique(mailbox)
    /\ "write" \in Range(mailbox) => Dist(tdh, tdt, TxDescs) < TxDescs - 1

TxInv ==
    /\ tdh \in Places(TxDescs) /\ tdt \in Places(TxDescs) /\ txIndex = tdt
    /\ DOMAIN txRing = Places(TxDescs)
    /\ left \in Seq(Nat)
    /\ txCount = Len(left) + Dist(tdh, tdt, TxDescs)
    /\ \A i \in Places(TxDescs) : Dist(tdh, i, TxDescs) < Dist(tdh, tdt, TxDescs)
          => txRing[i] = Len(left) + 1 + Dist(tdh, i, TxDescs)
    /\ \A i \in 1..Len(left) : left[i] = i

\* The interrupt is answered with the cause still set, and a read is put off
\* only if no frame came without a cause.
ServeInv ==
    /\ intDone /\ ethPc \in {"loop", "pend", "giveread"} => icr
    /\ "read" \in Range(mailbox) => ~pendRead
    /\ ethPc \in {"pend", "give", "giveread"} => ~pendRead
    /\ ethPc \in {"pend", "giveread"} => "read" \notin Range(mailbox)
    /\ ethPc = "pend" /\ rxRing[rxIndex] # 0 => icr
    /\ ReadIsServed

EthInv == RxInv /\ MailInv /\ TxInv /\ ServeInv

-----------------------------------------------------------------------------
(* Distances in a ring *)

\* The next place, without a division.
LEMMA NextPlace ==
    ASSUME NEW N \in Nat \ {0, 1}, NEW i \in Places(N)
    PROVE  (i + 1) % N = IF i = N - 1 THEN 0 ELSE i + 1
  BY DEF Places

\* A distance is less than the ring is long, and zero only from a place to itself.
LEMMA DistType ==
    ASSUME NEW N \in Nat \ {0, 1}, NEW i \in Places(N), NEW j \in Places(N)
    PROVE  /\ Dist(i, j, N) \in Places(N)
           /\ Dist(i, j, N) = 0 <=> i = j
  BY DEF Dist, Places

\* Two places at the same distance are the same.
LEMMA DistInjective ==
    ASSUME NEW N \in Nat \ {0, 1}, NEW i \in Places(N), NEW j \in Places(N), NEW k \in Places(N),
           Dist(i, j, N) = Dist(i, k, N)
    PROVE  j = k
  BY DEF Dist, Places

\* The end that is ahead moves on.
LEMMA DistAhead ==
    ASSUME NEW N \in Nat \ {0, 1}, NEW i \in Places(N), NEW j \in Places(N)
    PROVE  /\ (j + 1) % N \in Places(N)
           /\ Dist(i, j, N) # N - 1 => Dist(i, (j + 1) % N, N) = Dist(i, j, N) + 1
  <1>1. CASE j = N - 1
    <2>1. (j + 1) % N = 0
      BY <1>1, NextPlace, Zenon
    <2> QED  BY <1>1, <2>1 DEF Dist, Places
  <1>2. CASE j # N - 1
    <2>1. (j + 1) % N = j + 1
      BY <1>2, NextPlace, Zenon
    <2> QED  BY <1>2, <2>1 DEF Dist, Places
  <1> QED  BY <1>1, <1>2, Zenon

\* The end that is behind moves on.
LEMMA DistBehind ==
    ASSUME NEW N \in Nat \ {0, 1}, NEW i \in Places(N), NEW j \in Places(N)
    PROVE  Dist((i + 1) % N, j, N) = IF i = j THEN N - 1 ELSE Dist(i, j, N) - 1
  <1>1. CASE i = N - 1
    <2>1. (i + 1) % N = 0
      BY <1>1, NextPlace, Zenon
    <2> QED  BY <1>1, <2>1 DEF Dist, Places
  <1>2. CASE i # N - 1
    <2>1. (i + 1) % N = i + 1
      BY <1>2, NextPlace, Zenon
    <2> QED  BY <1>2, <2>1 DEF Dist, Places
  <1> QED  BY <1>1, <1>2, Zenon

\* InFlight is a distance.
LEMMA InFlightIsDist ==
    ASSUME NEW N \in Nat \ {0, 1}, NEW i \in Places(N), NEW j \in Places(N)
    PROVE  (j - i) % N = Dist(i, j, N)
  BY DEF Dist, Places

-----------------------------------------------------------------------------
(* The receive ring *)

\* What the controller stores comes after the frames that wait.
LEMMA ArrivalKeepsRx ==
    ASSUME RxInv, FrameArrives
    PROVE  RxInv'
  <1> DEFINE N == RxDescs
  <1>0. /\ N \in Nat \ {0, 1}
        /\ rxRing' = [rxRing EXCEPT ![rdh] = rxCount + 1]
        /\ rdh' = (rdh + 1) % N /\ rdh # rdt
        /\ rxCount' = rxCount + 1
        /\ UNCHANGED <<rdt, rxIndex, freed, got, ethPc>>
    BY E1000Assumption, Zenon DEF FrameArrives, NextRx
  <1>1. /\ rxIndex \in Places(N) /\ rdh \in Places(N) /\ rdt \in Places(N)
        /\ Len(got) \in Nat
    BY DEF RxInv
  <1>2. Dist(rxIndex, rdh, N) # N - 1
    <2>1. CASE Giving
      BY <2>1, <1>0, <1>1, DistType DEF RxInv, Places
    <2>2. CASE ~Giving
      BY <2>2, <1>0, <1>1, DistInjective, Zenon DEF RxInv
    <2> QED  BY <2>1, <2>2, Zenon
  <1>3. /\ rdh' \in Places(N)
        /\ Dist(rxIndex, rdh', N) = Dist(rxIndex, rdh, N) + 1
    BY <1>0, <1>1, <1>2, DistAhead, Zenon
  <1>4. Giving => Dist(rxIndex, rdh, N) # N - 2
    BY <1>0, <1>1, DistInjective, Zenon DEF RxInv
  <1>5. /\ Dist(rxIndex, rdh, N) \in Places(N)
        /\ \A i \in Places(N) : Dist(rxIndex, i, N) \in Places(N)
        /\ \A i \in Places(N) : Dist(rxIndex, i, N) = Dist(rxIndex, rdh, N) => i = rdh
    <2>1. \A i \in Places(N) : Dist(rxIndex, i, N) \in Places(N)
      BY <1>0, <1>1, DistType, Zenon
    <2>2. \A i \in Places(N) : Dist(rxIndex, i, N) = Dist(rxIndex, rdh, N) => i = rdh
      BY <1>0, <1>1, DistInjective, Zenon
    <2> QED  BY <1>1, <2>1, <2>2, Zenon
  <1> HIDE DEF N
  <1>6. \A i \in Places(N) :
          rxRing'[i] = IF Dist(rxIndex, i, N) < Dist(rxIndex, rdh', N)
                       THEN Len(got) + 1 + Dist(rxIndex, i, N) ELSE 0
    <2> SUFFICES ASSUME NEW i \in Places(N)
                 PROVE  rxRing'[i] = IF Dist(rxIndex, i, N) < Dist(rxIndex, rdh', N)
                                     THEN Len(got) + 1 + Dist(rxIndex, i, N) ELSE 0
      BY Zenon
    <2>0. Dist(rxIndex, i, N) \in Int /\ Dist(rxIndex, rdh, N) \in Int
      BY <1>5 DEF Places
    <2>1. CASE i = rdh
      <3>1. rxRing'[i] = rxCount + 1
        BY <2>1, <1>0, <1>1, Zenon DEF RxInv, N
      <3>2. rxCount = Len(got) + Dist(rxIndex, rdh, N)
        BY Zenon DEF RxInv, N
      <3> QED  BY <2>0, <2>1, <3>1, <3>2, <1>1, <1>3
    <2>2. CASE i # rdh
      <3>1. rxRing'[i] = rxRing[i]
        BY <2>2, <1>0, <1>1, Zenon DEF RxInv, N
      <3>2. Dist(rxIndex, i, N) < Dist(rxIndex, rdh', N) <=> Dist(rxIndex, i, N) < Dist(rxIndex, rdh, N)
        BY <2>0, <2>2, <1>3, <1>5
      <3>3. rxRing[i] = IF Dist(rxIndex, i, N) < Dist(rxIndex, rdh, N)
                        THEN Len(got) + 1 + Dist(rxIndex, i, N) ELSE 0
        BY Zenon DEF RxInv, N
      <3> QED  BY <3>1, <3>2, <3>3, Zenon
    <2> QED  BY <2>1, <2>2, Zenon
  <1>7. /\ rxCount' = Len(got) + Dist(rxIndex, rdh', N)
        /\ Giving => Dist(rxIndex, rdh', N) <= N - 2
    <2>1. /\ Dist(rxIndex, rdh, N) \in Int /\ N \in Int
          /\ rxCount = Len(got) + Dist(rxIndex, rdh, N)
          /\ Giving => Dist(rxIndex, rdh, N) <= N - 2
      BY <1>0, <1>5 DEF RxInv, N, Places
    <2> QED  BY <2>1, <1>0, <1>1, <1>3, <1>4, SMTT(60)
  <1> QED  BY <1>0, <1>3, <1>6, <1>7, Zenon DEF RxInv, N, Giving

\* The frame taken is the next one, and its descriptor is the last of the ring.
LEMMA TakingKeepsRx ==
    ASSUME RxInv, ~Giving, rxRing[rxIndex] # 0, TakeFrame, Giving'
    PROVE  RxInv'
  <1> DEFINE N == RxDescs
  <1>0. /\ N \in Nat \ {0, 1}
        /\ got' = Append(got, rxRing[rxIndex])
        /\ rxRing' = [rxRing EXCEPT ![rxIndex] = 0]
        /\ freed' = rxIndex /\ rxIndex' = (rxIndex + 1) % N
        /\ UNCHANGED <<rdh, rdt, rxCount>>
    BY E1000Assumption, Zenon DEF TakeFrame, NextRx
  <1>1. /\ rxIndex \in Places(N) /\ rdh \in Places(N) /\ rdt \in Places(N)
        /\ Len(got) \in Nat /\ got \in Seq(Nat)
    BY DEF RxInv
  <1>2. /\ Dist(rxIndex, rxIndex, N) = 0
        /\ \A i \in Places(N) : Dist(rxIndex, i, N) \in Places(N)
                                /\ (Dist(rxIndex, i, N) = 0 <=> rxIndex = i)
    BY <1>0, <1>1, DistType, Zenon
  <1>3. rxRing[rxIndex] = Len(got) + 1 /\ Dist(rxIndex, rdh, N) > 0
    BY <1>1, <1>2 DEF RxInv
  <1>4. /\ rxIndex' \in Places(N)
        /\ \A i \in Places(N) : Dist(rxIndex', i, N) = IF i = rxIndex THEN N - 1
                                                       ELSE Dist(rxIndex, i, N) - 1
    BY <1>0, <1>1, DistBehind, DistAhead, ZenonT(60)
  <1>5. /\ got' \in Seq(Nat) /\ Len(got') = Len(got) + 1
        /\ \A i \in 1..Len(got') : got'[i] = i
    BY <1>0, <1>1, <1>3, SMTT(30) DEF RxInv
  <1>6. Dist(rxIndex, rdt, N) = N - 1
    BY Zenon DEF RxInv
  <1>7. rdh # rxIndex /\ rdt # rxIndex
    BY <1>0, <1>1, <1>2, <1>3, <1>6
  <1> HIDE DEF N
  <1>8. \A i \in Places(N) :
          rxRing'[i] = IF Dist(rxIndex', i, N) < Dist(rxIndex', rdh, N)
                       THEN Len(got') + 1 + Dist(rxIndex', i, N) ELSE 0
    <2> SUFFICES ASSUME NEW i \in Places(N)
                 PROVE  rxRing'[i] = IF Dist(rxIndex', i, N) < Dist(rxIndex', rdh, N)
                                     THEN Len(got') + 1 + Dist(rxIndex', i, N) ELSE 0
      BY Zenon
    <2>0. Dist(rxIndex', rdh, N) = Dist(rxIndex, rdh, N) - 1 /\ Dist(rxIndex, rdh, N) \in 0..N - 1
      BY <1>1, <1>2, <1>4, <1>7, Zenon DEF Places
    <2>1. CASE i = rxIndex
      BY <2>0, <2>1, <1>0, <1>1, <1>4, SMTT(30) DEF RxInv, N
    <2>2. CASE i # rxIndex
      <3>1. Dist(rxIndex', i, N) = Dist(rxIndex, i, N) - 1 /\ Dist(rxIndex, i, N) \in 0..N - 1
        BY <2>2, <1>2, <1>4, Zenon DEF Places
      <3>2. rxRing'[i] = rxRing[i]
        BY <2>2, <1>0, <1>1, Zenon DEF RxInv, N
      <3>3. rxRing[i] = IF Dist(rxIndex, i, N) < Dist(rxIndex, rdh, N)
                        THEN Len(got) + 1 + Dist(rxIndex, i, N) ELSE 0
        BY Zenon DEF RxInv, N
      <3>4. Dist(rxIndex', i, N) < Dist(rxIndex', rdh, N) <=> Dist(rxIndex, i, N) < Dist(rxIndex, rdh, N)
        BY <2>0, <3>1
      <3>5. Len(got') + 1 + Dist(rxIndex', i, N) = Len(got) + 1 + Dist(rxIndex, i, N)
        BY <3>1, <1>1, <1>5
      <3> QED  BY <3>2, <3>3, <3>4, <3>5, Zenon
    <2> QED  BY <2>1, <2>2, Zenon
  <1>9. /\ rxCount' = Len(got') + Dist(rxIndex', rdh, N)
        /\ Dist(rxIndex', rxIndex, N) = N - 1
        /\ Dist(rxIndex', rdt, N) = N - 2
        /\ Dist(rxIndex', rdh, N) <= N - 2
    <2>1. /\ Dist(rxIndex', rdh, N) = Dist(rxIndex, rdh, N) - 1
          /\ Dist(rxIndex', rdt, N) = N - 2
          /\ Dist(rxIndex', rxIndex, N) = N - 1
          /\ Dist(rxIndex, rdh, N) \in 0..N - 1 /\ N \in Nat
      BY <1>0, <1>1, <1>2, <1>4, <1>6, <1>7, SMTT(60) DEF Places
    <2>2. rxCount = Len(got) + Dist(rxIndex, rdh, N)
      BY Zenon DEF RxInv, N
    <2> QED  BY <2>1, <2>2, <1>0, <1>1, <1>5, SMTT(30)
  <1> QED  BY <1>0, <1>1, <1>4, <1>5, <1>8, <1>9, Zenon DEF RxInv, N

\* Giving the descriptor back puts the tail behind the index again.
LEMMA GivingKeepsRx ==
    ASSUME RxInv, Giving, ~Giving', rdt' = freed,
           UNCHANGED <<rxRing, rdh, rxIndex, freed, rxCount, got>>
    PROVE  RxInv'
  BY Zenon DEF RxInv

\* Every other step leaves the receive ring alone.
LEMMA RestKeepsRx ==
    ASSUME RxInv, UNCHANGED rxState, Giving' <=> Giving
    PROVE  RxInv'
  BY Zenon DEF RxInv, rxState

-----------------------------------------------------------------------------
(* The mailbox *)

\* A request that is not in the mailbox may be added.
LEMMA MailAdded ==
    ASSUME NEW box \in Seq({"read", "write"}), Unique(box),
           NEW x \in {"read", "write"}, x \notin Range(box)
    PROVE  /\ Append(box, x) \in Seq({"read", "write"})
           /\ Unique(Append(box, x))
           /\ Range(Append(box, x)) = Range(box) \cup {x}
  <1>1. /\ DOMAIN box = 1..Len(box) /\ DOMAIN Append(box, x) = 1..Len(box) + 1
        /\ Append(box, x) \in Seq({"read", "write"}) /\ Len(Append(box, x)) = Len(box) + 1
        /\ \A i \in 1..Len(box) : Append(box, x)[i] = box[i]
        /\ Append(box, x)[Len(box) + 1] = x
        /\ Len(box) \in Nat
    OBVIOUS
  <1>2. \A i \in 1..Len(box) : box[i] # x
    BY <1>1, Zenon DEF Range
  <1>3. Unique(Append(box, x))
    BY <1>1, <1>2 DEF Unique
  <1>4. Range(Append(box, x)) = Range(box) \cup {x}
    BY <1>1 DEF Range
  <1> QED  BY <1>1, <1>3, <1>4, Zenon

\* The request that is taken out was there once.
LEMMA MailTaken ==
    ASSUME NEW box \in Seq({"read", "write"}), Unique(box), box # <<>>
    PROVE  /\ Tail(box) \in Seq({"read", "write"})
           /\ Unique(Tail(box))
           /\ Head(box) \in Range(box)
           /\ Range(Tail(box)) = Range(box) \ {Head(box)}
  <1>1. /\ DOMAIN box = 1..Len(box) /\ DOMAIN Tail(box) = 1..Len(box) - 1
        /\ Tail(box) \in Seq({"read", "write"}) /\ Len(Tail(box)) = Len(box) - 1
        /\ \A i \in 1..Len(box) - 1 : Tail(box)[i] = box[i + 1]
        /\ Head(box) = box[1]
        /\ Len(box) \in Nat /\ Len(box) # 0
    OBVIOUS
  <1>2. Unique(Tail(box))
    BY <1>1 DEF Unique
  <1>3. Head(box) \in Range(box)
    BY <1>1 DEF Range
  <1>4. Range(Tail(box)) \subseteq Range(box) \ {Head(box)}
    <2> SUFFICES ASSUME NEW i \in 1..Len(box) - 1
                 PROVE  box[i + 1] \in Range(box) /\ box[i + 1] # box[1]
      BY <1>1 DEF Range
    <2> QED  BY <1>1 DEF Unique, Range
  <1>5. Range(box) \ {Head(box)} \subseteq Range(Tail(box))
    <2> SUFFICES ASSUME NEW i \in 1..Len(box), box[i] # box[1]
                 PROVE  box[i] \in Range(Tail(box))
      BY <1>1, ZenonT(60) DEF Range
    <2>1. i - 1 \in 1..Len(box) - 1 /\ Tail(box)[i - 1] = box[i]
      BY <1>1
    <2> QED  BY <2>1, <1>1, Zenon DEF Range
  <1> QED  BY <1>1, <1>2, <1>3, <1>4, <1>5, Zenon

-----------------------------------------------------------------------------
(* The transmit ring *)

\* The frame that leaves is the next one.
LEMMA LeavingKeepsTx ==
    ASSUME TxInv, MailInv, FrameLeaves
    PROVE  TxInv' /\ MailInv'
  <1> DEFINE N == TxDescs
  <1>0. /\ N \in Nat \ {0, 1}
        /\ tdh # tdt /\ tdh' = (tdh + 1) % N
        /\ left' = Append(left, txRing[tdh])
        /\ UNCHANGED <<txRing, tdt, txIndex, txCount, mailbox>>
    BY E1000Assumption, Zenon DEF FrameLeaves, NextTx
  <1>1. /\ tdh \in Places(N) /\ tdt \in Places(N) /\ left \in Seq(Nat) /\ Len(left) \in Nat
        /\ txCount = Len(left) + Dist(tdh, tdt, N)
    BY DEF TxInv
  <1>2. /\ Dist(tdh, tdh, N) = 0
        /\ \A i \in Places(N) : Dist(tdh, i, N) \in Places(N)
                                /\ (Dist(tdh, i, N) = 0 <=> tdh = i)
    BY <1>0, <1>1, DistType, Zenon
  <1>3. /\ tdh' \in Places(N)
        /\ \A i \in Places(N) : Dist(tdh', i, N) = IF i = tdh THEN N - 1 ELSE Dist(tdh, i, N) - 1
    BY <1>0, <1>1, DistBehind, DistAhead, Zenon
  <1>4. Dist(tdh, tdt, N) \in 1..N - 1 /\ Dist(tdh', tdt, N) = Dist(tdh, tdt, N) - 1
    BY <1>0, <1>1, <1>2, <1>3, SMTT(60) DEF Places
  <1>5. txRing[tdh] = Len(left) + 1
    BY <1>1, <1>2, <1>4, SMTT(30) DEF TxInv
  <1>6. /\ left' \in Seq(Nat) /\ Len(left') = Len(left) + 1
        /\ \A i \in 1..Len(left') : left'[i] = i
    BY <1>0, <1>1, <1>5 DEF TxInv
  <1> HIDE DEF N
  <1>7. ASSUME NEW i \in Places(N), Dist(tdh', i, N) < Dist(tdh', tdt, N)
        PROVE  txRing[i] = Len(left') + 1 + Dist(tdh', i, N)
    <2>1. Dist(tdh, i, N) \in 0..N - 1 /\ N \in Nat
      BY <1>0, <1>2, Zenon DEF Places
    <2>2. Dist(tdh', i, N) = Dist(tdh, i, N) - 1
      BY <1>3, <1>4, <1>7, <2>1
    <2>3. txRing[i] = Len(left) + 1 + Dist(tdh, i, N)
      BY <1>4, <1>7, <2>1, <2>2 DEF TxInv, N
    <2> QED  BY <2>1, <2>2, <2>3, <1>1, <1>6
  <1>8. txCount = Len(left') + Dist(tdh', tdt, N)
    BY <1>1, <1>4, <1>6
  <1>9. TxInv'
    BY <1>0, <1>3, <1>6, <1>7, <1>8, Zenon DEF TxInv, N
  <1>10. "write" \in Range(mailbox) => Dist(tdh', tdt, N) < N - 1
    BY <1>0, <1>4
  <1>11. MailInv'
    BY <1>0, <1>10, Zenon DEF MailInv, N
  <1> QED  BY <1>9, <1>11, Zenon

\* The frame written goes behind those that have yet to leave, and finds room.
LEMMA WritingKeepsTx ==
    ASSUME TxInv, MailInv, HandleWrite
    PROVE  TxInv' /\ MailInv'
  <1> DEFINE N == TxDescs
  <1>0. /\ N \in Nat \ {0, 1}
        /\ mailbox # <<>> /\ Head(mailbox) = "write" /\ mailbox' = Tail(mailbox)
        /\ txCount' = txCount + 1
        /\ txRing' = [txRing EXCEPT ![txIndex] = txCount + 1]
        /\ txIndex' = (txIndex + 1) % N /\ tdt' = (txIndex + 1) % N
        /\ UNCHANGED <<tdh, left>>
    BY E1000Assumption, Zenon DEF HandleWrite, NextTx
  <1>1. /\ tdh \in Places(N) /\ tdt \in Places(N) /\ txIndex = tdt /\ Len(left) \in Nat
        /\ txCount = Len(left) + Dist(tdh, tdt, N)
        /\ DOMAIN txRing = Places(N)
    BY DEF TxInv
  <1>2. /\ mailbox' \in Seq({"read", "write"}) /\ Unique(mailbox')
        /\ "write" \in Range(mailbox) /\ "write" \notin Range(mailbox')
    BY <1>0, MailTaken, Zenon DEF MailInv
  <1>3. Dist(tdh, tdt, N) < N - 1
    BY <1>2, Zenon DEF MailInv
  <1>4. tdt' \in Places(N) /\ Dist(tdh, tdt', N) = Dist(tdh, tdt, N) + 1
    BY <1>0, <1>1, <1>3, DistAhead, DistType DEF Places
  <1>5. /\ \A i \in Places(N) : Dist(tdh, i, N) \in Int
        /\ \A i \in Places(N) : Dist(tdh, i, N) = Dist(tdh, tdt, N) => i = tdt
    <2>1. \A i \in Places(N) : Dist(tdh, i, N) \in Int
      BY <1>0, <1>1, DistType, SMTT(30) DEF Places
    <2>2. \A i \in Places(N) : Dist(tdh, i, N) = Dist(tdh, tdt, N) => i = tdt
      BY <1>0, <1>1, DistInjective, Zenon
    <2> QED  BY <2>1, <2>2, Zenon
  <1> HIDE DEF N
  <1>6. ASSUME NEW i \in Places(N), Dist(tdh, i, N) < Dist(tdh, tdt', N)
        PROVE  txRing'[i] = Len(left) + 1 + Dist(tdh, i, N)
    <2>1. CASE i = tdt
      <3>1. txRing'[i] = txCount + 1
        BY <2>1, <1>0, <1>1, Zenon
      <3> QED  BY <2>1, <3>1, <1>1, <1>5
    <2>2. CASE i # tdt
      <3>1. txRing'[i] = txRing[i]
        BY <2>2, <1>0, <1>1, Zenon
      <3>2. Dist(tdh, i, N) < Dist(tdh, tdt, N)
        BY <2>2, <1>1, <1>4, <1>5, <1>6
      <3> QED  BY <3>1, <3>2, Zenon DEF TxInv, N
    <2> QED  BY <2>1, <2>2, Zenon
  <1>7. txCount' = Len(left) + Dist(tdh, tdt', N)
    BY <1>0, <1>1, <1>4, <1>5, SMTT(30)
  <1>8. TxInv'
    BY <1>0, <1>1, <1>4, <1>6, <1>7, Zenon DEF TxInv, N
  <1>9. MailInv'
    BY <1>2, Zenon DEF MailInv
  <1> QED  BY <1>8, <1>9, Zenon

\* Every other step leaves the transmit ring alone.
LEMMA RestKeepsTx ==
    ASSUME TxInv, UNCHANGED txState
    PROVE  TxInv'
  BY Zenon DEF TxInv, txState

-----------------------------------------------------------------------------
(* The steps, the whole invariant at a time *)

\* The driver starts with empty rings.
LEMMA EthStarts ==
    ASSUME E1000Init
    PROVE  EthInv
  <1> USE E1000Assumption DEF E1000Init
  <1>1. RxInv
    BY DEF RxInv, Dist, Places, Giving
  <1>2. TxInv
    BY DEF TxInv, Dist, Places
  <1>3. MailInv
    <2>1. Range(mailbox) = {}
      BY DEF Range
    <2> QED  BY <2>1 DEF MailInv, Unique
  <1>4. ServeInv
    BY Zenon DEF ServeInv, ReadIsServed, Range
  <1> QED  BY <1>1, <1>2, <1>3, <1>4, Zenon DEF EthInv

\* The controller stores a frame and sets the cause.
LEMMA ArrivalKeeps ==
    ASSUME EthInv, FrameArrives
    PROVE  EthInv'
  <1>1. RxInv'
    BY ArrivalKeepsRx, Zenon DEF EthInv
  <1>2. TxInv' /\ MailInv'
    BY RestKeepsTx, Zenon DEF EthInv, FrameArrives, txState, MailInv
  <1>3. ServeInv'
    BY Zenon DEF EthInv, FrameArrives, ServeInv, ReadIsServed
  <1> QED  BY <1>1, <1>2, <1>3, Zenon DEF EthInv

\* A frame leaves.
LEMMA LeavingKeeps ==
    ASSUME EthInv, FrameLeaves
    PROVE  EthInv'
  <1>1. RxInv'
    BY RestKeepsRx, Zenon DEF EthInv, FrameLeaves, Giving
  <1>2. TxInv' /\ MailInv'
    BY LeavingKeepsTx, Zenon DEF EthInv
  <1>3. ServeInv'
    BY Zenon DEF EthInv, FrameLeaves, ServeInv, ReadIsServed, rxState
  <1> QED  BY <1>1, <1>2, <1>3, Zenon DEF EthInv

\* The interrupt, its acknowledgement and what lies between touch neither the
\* mailbox nor the transmit ring.
LEMMA InterruptKeeps ==
    ASSUME EthInv, InterruptFires \/ HandleInterrupt \/ Acknowledge
    PROVE  EthInv'
  <1> USE DEF InterruptFires, HandleInterrupt, Acknowledge
  <1>1. RxInv'
    <2>1. UNCHANGED rxState /\ (Giving' <=> Giving)
      BY Zenon DEF Giving
    <2> QED  BY <2>1, RestKeepsRx, Zenon DEF EthInv
  <1>2. TxInv' /\ MailInv'
    BY RestKeepsTx, Zenon DEF EthInv, txState, MailInv
  <1>3. ServeInv'
    <2>1. CASE InterruptFires
      BY <2>1, Zenon DEF EthInv, ServeInv, ReadIsServed, rxState
    <2>2. CASE HandleInterrupt
      BY <2>2, Zenon DEF EthInv, ServeInv, ReadIsServed, rxState
    <2>3. CASE Acknowledge
      BY <2>3, Zenon DEF EthInv, ServeInv, ReadIsServed, rxState
    <2> QED  BY <2>1, <2>2, <2>3, Zenon
  <1> QED  BY <1>1, <1>2, <1>3, Zenon DEF EthInv

\* The stack asks for a frame while no read waits.
LEMMA StackReadsKeeps ==
    ASSUME EthInv, StackReads
    PROVE  EthInv'
  <1>1. /\ mailbox' \in Seq({"read", "write"}) /\ Unique(mailbox')
        /\ Range(mailbox') = Range(mailbox) \cup {"read"}
    BY MailAdded, Zenon DEF EthInv, MailInv, StackReads
  <1>2. RxInv' /\ TxInv'
    BY RestKeepsRx, RestKeepsTx, Zenon DEF EthInv, StackReads, Giving
  <1>3. MailInv'
    BY <1>1, Zenon DEF EthInv, MailInv, StackReads, txState
  <1>4. ServeInv'
    BY <1>1, Zenon DEF EthInv, ServeInv, ReadIsServed, StackReads, rxState
  <1> QED  BY <1>2, <1>3, <1>4, Zenon DEF EthInv

\* The stack writes while the ring has room.
LEMMA StackWritesKeeps ==
    ASSUME EthInv, StackWrites, "full" \notin EthFlaws
    PROVE  EthInv'
  <1>1. /\ mailbox' \in Seq({"read", "write"}) /\ Unique(mailbox')
        /\ Range(mailbox') = Range(mailbox) \cup {"write"}
    BY MailAdded, Zenon DEF EthInv, MailInv, StackWrites
  <1>2. Dist(tdh, tdt, TxDescs) < TxDescs - 1
    BY InFlightIsDist, E1000Assumption, Zenon DEF EthInv, TxInv, StackWrites, InFlight
  <1>3. RxInv' /\ TxInv'
    BY RestKeepsRx, RestKeepsTx, Zenon DEF EthInv, StackWrites, Giving
  <1>4. MailInv'
    BY <1>1, <1>2, Zenon DEF MailInv, StackWrites, txState
  <1>5. ServeInv'
    BY <1>1, Zenon DEF EthInv, ServeInv, ReadIsServed, StackWrites, rxState
  <1> QED  BY <1>3, <1>4, <1>5, Zenon DEF EthInv

\* The read that waits is served, or there is nothing to serve it with.
LEMMA ServingKeeps ==
    ASSUME EthInv, ServePending
    PROVE  EthInv'
  <1>1. TxInv' /\ MailInv'
    BY RestKeepsTx, Zenon DEF EthInv, ServePending, txState, MailInv
  <1>2. CASE rxRing[rxIndex] # 0 /\ pendRead
    <2>1. ~Giving /\ Giving' /\ TakeFrame /\ ~pendRead' /\ ethPc' = "give"
      BY <1>2, Zenon DEF ServePending, Giving
    <2>2. RxInv'
      BY <1>2, <2>1, TakingKeepsRx, Zenon DEF EthInv
    <2>3. ServeInv'
      BY <2>1, Zenon DEF ServeInv, ReadIsServed
    <2> QED  BY <1>1, <2>2, <2>3, Zenon DEF EthInv
  <1>3. CASE ~(rxRing[rxIndex] # 0 /\ pendRead)
    <2>1. /\ ~Giving /\ ~Giving' /\ UNCHANGED <<rxState, pendRead, mailbox>>
          /\ ethPc = "serve" /\ ethPc' = "ack"
      BY <1>3, Zenon DEF ServePending, Giving
    <2>2. RxInv'
      BY <2>1, RestKeepsRx, Zenon DEF EthInv
    <2>3. ServeInv'
      BY <1>3, <2>1, Zenon DEF EthInv, ServeInv, ReadIsServed, rxState
    <2> QED  BY <1>1, <2>2, <2>3, Zenon DEF EthInv
  <1> QED  BY <1>2, <1>3, Zenon

\* The descriptor goes back to the controller.
LEMMA GivingKeeps ==
    ASSUME EthInv, GiveBackServed \/ GiveBackRead
    PROVE  EthInv'
  <1> USE DEF GiveBackServed, GiveBackRead, GiveBack
  <1>1. RxInv'
    BY GivingKeepsRx, Zenon DEF EthInv, Giving
  <1>2. TxInv' /\ MailInv'
    BY RestKeepsTx, Zenon DEF EthInv, txState, MailInv
  <1>3. ServeInv'
    BY DEF EthInv, ServeInv, ReadIsServed
  <1> QED  BY <1>1, <1>2, <1>3, Zenon DEF EthInv

\* A read is answered with the frame that is there, or is about to be put off.
LEMMA HandleReadKeeps ==
    ASSUME EthInv, HandleRead
    PROVE  EthInv'
  <1>1. /\ mailbox' \in Seq({"read", "write"}) /\ Unique(mailbox')
        /\ "read" \in Range(mailbox)
        /\ Range(mailbox') = Range(mailbox) \ {"read"}
    BY MailTaken, Zenon DEF EthInv, MailInv, HandleRead
  <1>2. TxInv' /\ MailInv'
    BY <1>1, RestKeepsTx, Zenon DEF EthInv, HandleRead, txState, MailInv
  <1>3. ~pendRead /\ ~intDone'
    BY <1>1, Zenon DEF EthInv, ServeInv, HandleRead
  <1>4. CASE rxRing[rxIndex] # 0
    <2>1. ~Giving /\ Giving' /\ TakeFrame /\ pendRead' = pendRead /\ ethPc' = "giveread"
      BY <1>4, Zenon DEF HandleRead, Giving
    <2>2. RxInv'
      BY <1>4, <2>1, TakingKeepsRx, Zenon DEF EthInv
    <2>3. ServeInv'
      BY <1>1, <1>3, <2>1, Zenon DEF ServeInv, ReadIsServed
    <2> QED  BY <1>2, <2>2, <2>3, Zenon DEF EthInv
  <1>5. CASE rxRing[rxIndex] = 0
    <2>1. /\ ~Giving /\ ~Giving' /\ UNCHANGED <<rxState, pendRead>>
          /\ ethPc' = "pend"
      BY <1>5, Zenon DEF HandleRead, Giving
    <2>2. RxInv'
      BY <2>1, RestKeepsRx, Zenon DEF EthInv
    <2>3. ServeInv'
      BY <1>1, <1>3, <1>5, <2>1, Zenon DEF ServeInv, ReadIsServed, rxState
    <2> QED  BY <1>2, <2>2, <2>3, Zenon DEF EthInv
  <1> QED  BY <1>4, <1>5, Zenon

\* A read put off finds the cause set if a frame came meanwhile.
LEMMA PendKeeps ==
    ASSUME EthInv, Pend
    PROVE  EthInv'
  <1>1. RxInv' /\ TxInv'
    BY RestKeepsRx, RestKeepsTx, Zenon DEF EthInv, Pend, Giving
  <1>2. MailInv'
    BY Zenon DEF EthInv, Pend, txState, MailInv
  <1>3. ServeInv'
    BY Zenon DEF EthInv, Pend, ServeInv, ReadIsServed, rxState
  <1> QED  BY <1>1, <1>2, <1>3, Zenon DEF EthInv

\* A frame is written.
LEMMA WritingKeeps ==
    ASSUME EthInv, HandleWrite
    PROVE  EthInv'
  <1>1. RxInv'
    BY RestKeepsRx, Zenon DEF EthInv, HandleWrite, Giving
  <1>2. TxInv' /\ MailInv'
    BY WritingKeepsTx, Zenon DEF EthInv
  <1>3. "read" \in Range(mailbox') => "read" \in Range(mailbox)
    BY MailTaken, Zenon DEF EthInv, MailInv, HandleWrite
  <1>4. ServeInv'
    BY <1>3, Zenon DEF EthInv, HandleWrite, ServeInv, ReadIsServed, rxState
  <1> QED  BY <1>1, <1>2, <1>4, Zenon DEF EthInv

-----------------------------------------------------------------------------

\* The driver of components/drivers/e1000, with rings of any size, hands every
\* frame over once and in order in both directions and never leaves a read
\* waiting beside a frame with no interrupt to come, as long as no more frames
\* are written than the transmit ring has room for.
THEOREM FramesPass ==
    ASSUME "full" \notin EthFlaws
    PROVE  E1000Spec => []FramesArrive
  <1>1. E1000Init => EthInv
    BY EthStarts, Zenon
  <1>2. EthInv /\ [E1000Next]_ethVars => EthInv'
    <2> SUFFICES ASSUME EthInv, [E1000Next]_ethVars
                 PROVE  EthInv'
      BY Zenon
    <2>1. CASE UNCHANGED ethVars
      BY <2>1, Zenon DEF ethVars, EthInv, RxInv, TxInv, MailInv, ServeInv, ReadIsServed, Giving
    <2>2. CASE E1000Next
      BY <2>2, ArrivalKeeps, LeavingKeeps, InterruptKeeps, StackReadsKeeps, StackWritesKeeps,
         ServingKeeps, GivingKeeps, HandleReadKeeps, PendKeeps, WritingKeeps, Zenon DEF E1000Next
    <2> QED  BY <2>1, <2>2, Zenon
  <1>3. EthInv => FramesArrive
    <2> SUFFICES ASSUME EthInv
                 PROVE  FramesArrive
      BY Zenon
    <2>1. got \in Seq(Nat) /\ \A i \in 1..Len(got) : got[i] = i
      BY Zenon DEF EthInv, RxInv
    <2>2. left \in Seq(Nat) /\ \A i \in 1..Len(left) : left[i] = i
      BY Zenon DEF EthInv, TxInv
    <2>3. FramesInOrder
      BY <2>1, <2>2 DEF FramesInOrder
    <2>4. ReadIsServed
      BY Zenon DEF EthInv, ServeInv
    <2> QED  BY <2>3, <2>4, Zenon DEF FramesArrive
  <1> QED  BY <1>1, <1>2, <1>3, PTL DEF E1000Spec

=============================================================================
