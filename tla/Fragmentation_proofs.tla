------------------------ MODULE Fragmentation_proofs ------------------------
(***************************************************************************)
(* Proofs about module Fragmentation, for every number and size of         *)
(* datagrams and every slot size, with and without losses: what holds at   *)
(* both ends and between them (BaseInv), that bytes keep their place, come *)
(* once and in order (LossyInv), and that without losses everything does.  *)
(***************************************************************************)
EXTENDS Fragmentation, TLAPS

LEMMA Constants ==
    /\ MaxDatagrams \in Nat
    /\ \A n \in Sizes : n \in 1..MaxDatagramBytes
    /\ \A n \in SlotBytes : n \in 7..MaxSlotBytes
    /\ MaxDatagramBytes \in Nat /\ MaxSlotBytes \in Nat
    /\ MaxSlotBytes <= MaxDatagramBytes
    /\ PacketHeader = 2 /\ FragmentationHeader = 4 /\ MaxTouched = 5
  BY FragmentationAssumption 
  DEF FragmentationAssumption, PacketHeader, FragmentationHeader, MaxTouched,
      MaxDatagramBytes, MaxSlotBytes

\* What the loop body packs: an SDU with a truthful header and at least one
\* byte, no longer than the free space and the rest of the datagram.
LEMMA PackedSdu ==
    ASSUME TypeOK, SenderInv, CanPack
    PROVE  /\ SduSize \in 1..MaxSlotBytes - 2
           /\ SduSize <= txRemaining
           /\ Overhead \in {2, 6}
           /\ SduSize + Overhead <= room
           /\ NextSdu \in Sdu
           /\ Truthful(NextSdu)
           /\ Taken \in 1..Len(sent)
           /\ txDatagram.id = Taken
           /\ txDatagram.size = sent[Taken]
           /\ txDatagram.size \in Sizes
           /\ NextSdu.id = Taken /\ NextSdu.from = txOffset /\ NextSdu.len = SduSize
  <1>1. /\ room \in 0..MaxSlotBytes /\ txOffset \in 0..MaxDatagramBytes /\ txRemaining \in 0..MaxDatagramBytes
        /\ txDatagram \in Datagram /\ room > 2
        /\ sent \in Seq(Sizes) /\ ethRxQueue \in Seq(Datagram) /\ Len(sent) <= MaxDatagrams
    BY Constants DEF TypeOK, CanPack
  <1>2. /\ Taken > 0
        /\ txDatagram = [id |-> Taken, size |-> sent[Taken]]
        /\ txOffset + txRemaining = txDatagram.size
        /\ txRemaining > 0
        /\ Len(ethRxQueue) <= Len(sent)
    BY DEF SenderInv, CanPack
  <1>3. /\ Taken \in 1..Len(sent)
        /\ txDatagram.id = Taken /\ txDatagram.size = sent[Taken]
        /\ txDatagram.size \in Sizes /\ txDatagram.size \in 1..MaxDatagramBytes
        /\ Taken \in 1..MaxDatagrams
    <2>1. Len(sent) \in Nat /\ Len(ethRxQueue) \in Nat
      BY <1>1
    <2>2. Taken \in 1..Len(sent) /\ Taken \in 1..MaxDatagrams
      BY <1>1, <1>2, <2>1, Constants DEF Taken
    <2>3. txDatagram.id = Taken /\ txDatagram.size = sent[Taken]
      BY <1>2
    <2> QED
      BY <1>1, <2>2, <2>3, Constants
  <1>4. Overhead \in {2, 6} /\ room > Overhead
    BY Constants DEF Overhead, CanPack
  <1>5. /\ SduSize \in 1..MaxSlotBytes - 2 /\ SduSize <= txRemaining
        /\ SduSize + Overhead <= room
    BY Constants, <1>1, <1>2, <1>4 DEF SduSize
  <1>6. NextSdu \in Sdu
    BY Constants, <1>1, <1>2, <1>3, <1>5 DEF NextSdu, Sdu, NeedsFragmenting
  <1>7. ~NeedsFragmenting => txOffset = 0 /\ SduSize = txRemaining
    BY <1>1, <1>2, Constants DEF NeedsFragmenting, SduSize, Overhead
  <1>8. Truthful(NextSdu)
    BY <1>1, <1>2, <1>3, <1>5, <1>7 DEF NextSdu, Truthful
  <1> QED
    BY <1>3, <1>4, <1>5, <1>6, <1>8 DEF NextSdu

LEMMA AppendFacts ==
    ASSUME NEW S, NEW q \in Seq(S), NEW x \in S
    PROVE  /\ Append(q, x) \in Seq(S)
           /\ Len(q) \in Nat
           /\ Len(Append(q, x)) = Len(q) + 1
           /\ \A i \in 1..Len(q) : Append(q, x)[i] = q[i]
           /\ Append(q, x)[Len(q) + 1] = x
  OBVIOUS

LEMMA TailFacts ==
    ASSUME NEW S, NEW q \in Seq(S), q # <<>>
    PROVE  /\ Head(q) \in S /\ Head(q) = q[1]
           /\ Tail(q) \in Seq(S)
           /\ Len(q) \in Nat /\ Len(q) > 0
           /\ Len(Tail(q)) = Len(q) - 1
           /\ \A i \in 1..Len(q) - 1 : Tail(q)[i] = q[i + 1]
  OBVIOUS

\* An SDU that told the truth still does when another datagram comes in.
LEMMA TruthfulStays ==
    ASSUME TypeOK, NEW size \in Sizes, sent' = Append(sent, size),
           NEW f \in Seq(Sdu), AllTruthful(f), f' = f
    PROVE  AllTruthful(f)'
  <1> SUFFICES ASSUME NEW i \in 1..Len(f)
               PROVE  Truthful(f[i])'
    BY DEF AllTruthful
  <1>1. Truthful(f[i]) /\ f[i] \in Sdu
    BY DEF AllTruthful
  <1>2. f[i].id \in 1..Len(sent)
    BY <1>1 DEF Truthful, Sdu
  <1>3. sent'[f[i].id] = sent[f[i].id] /\ Len(sent') = Len(sent) + 1 /\ Len(sent) \in Nat
    BY <1>2, AppendFacts DEF TypeOK
  <1> QED
    BY <1>1, <1>2, <1>3 DEF Truthful

LEMMA TruthfulAppend ==
    ASSUME NEW f \in Seq(Sdu), AllTruthful(f), NEW s \in Sdu, Truthful(s)
    PROVE  AllTruthful(Append(f, s))
  <1> SUFFICES ASSUME NEW i \in 1..Len(Append(f, s))
               PROVE  Truthful(Append(f, s)[i])
    BY DEF AllTruthful
  <1>1. CASE i \in 1..Len(f)
    BY <1>1, AppendFacts DEF AllTruthful
  <1>2. CASE i = Len(f) + 1
    BY <1>2, AppendFacts
  <1> QED
    BY <1>1, <1>2, AppendFacts

LEMMA EnqueueStep ==
    ASSUME BaseInv, NEW size \in Sizes, EnqueueEthRx(size)
    PROVE  BaseInv'
  <1> DEFINE d == [id |-> Len(sent) + 1, size |-> size]
  <1>1. /\ sent' = Append(sent, size) /\ ethRxQueue' = Append(ethRxQueue, d)
        /\ Len(sent) < MaxDatagrams /\ sent \in Seq(Sizes) /\ ethRxQueue \in Seq(Datagram)
        /\ UNCHANGED <<loadVars, packVars, air, inbox, rxVars>>
    BY DEF EnqueueEthRx, BaseInv, TypeOK
  <1>2. Len(sent) \in Nat /\ d \in Datagram
    BY <1>1, Constants DEF Datagram
  <1>3. /\ sent' \in Seq(Sizes) /\ Len(sent') = Len(sent) + 1
        /\ \A i \in 1..Len(sent) : sent'[i] = sent[i]
        /\ sent'[Len(sent) + 1] = size
    BY <1>1, AppendFacts
  <1>4. /\ ethRxQueue' \in Seq(Datagram) /\ Len(ethRxQueue) \in Nat
        /\ Len(ethRxQueue') = Len(ethRxQueue) + 1
        /\ \A i \in 1..Len(ethRxQueue) : ethRxQueue'[i] = ethRxQueue[i]
        /\ ethRxQueue'[Len(ethRxQueue) + 1] = d
    BY <1>1, <1>2, AppendFacts
  <1>5. TypeOK'
    BY <1>1, <1>2, <1>3, <1>4, Constants
    DEF BaseInv, TypeOK, loadVars, packVars, rxVars
  <1>6. SenderInv'
    <2>1. Taken' = Taken /\ Len(ethRxQueue) <= Len(sent)
      BY <1>2, <1>3, <1>4 DEF Taken, BaseInv, SenderInv
    <2>2. \A i \in 1..Len(ethRxQueue') :
             ethRxQueue'[i] = [id |-> Taken' + i, size |-> sent'[Taken' + i]]
      <3> TAKE i \in 1..Len(ethRxQueue')
      <3>1. CASE i \in 1..Len(ethRxQueue)
        <4>1. Taken + i \in 1..Len(sent)
          BY <1>2, <1>4, <2>1, <3>1 DEF Taken
        <4> QED
          BY <1>3, <1>4, <2>1, <3>1, <4>1 DEF BaseInv, SenderInv
      <3>2. CASE i = Len(ethRxQueue) + 1
        <4>1. Taken + i = Len(sent) + 1
          BY <1>2, <1>4, <3>2 DEF Taken
        <4> QED
          BY <1>3, <1>4, <2>1, <3>2, <4>1
      <3> QED
        BY <1>4, <3>1, <3>2
    <2>3. ASSUME txDatagram # NoDatagram
          PROVE  sent'[Taken] = sent[Taken]
      <3>1. Taken > 0 /\ Taken <= Len(sent)
        BY <1>2, <1>4, <2>3 DEF BaseInv, SenderInv, Taken
      <3> QED
        BY <1>2, <1>3, <1>4, <3>1 DEF Taken
    <2>4. UNCHANGED <<txDatagram, txOffset, txRemaining, packing, frame>>
      BY <1>1 DEF loadVars, packVars
    <2>5. Len(ethRxQueue') <= Len(sent')
      BY <1>2, <1>3, <1>4, <2>1
    <2> QED
      BY <2>1, <2>2, <2>3, <2>4, <2>5 DEF BaseInv, SenderInv
  <1>7. WireInv'
    BY <1>1, TruthfulStays DEF BaseInv, TypeOK, WireInv, packVars
  <1>8. ReassemblyInv'
    BY <1>1 DEF BaseInv, ReassemblyInv, rxVars
  <1> QED
    BY <1>5, <1>6, <1>7, <1>8 DEF BaseInv

LEMMA LoadStep ==
    ASSUME BaseInv, LoadDatagram
    PROVE  BaseInv'
  <1>1. /\ ethRxQueue \in Seq(Datagram) /\ ethRxQueue # <<>> /\ sent \in Seq(Sizes)
        /\ ethRxQueue' = Tail(ethRxQueue) /\ sent' = sent
        /\ txDatagram' = Head(ethRxQueue) /\ txOffset' = 0
        /\ txRemaining' = Head(ethRxQueue).size
        /\ UNCHANGED <<packVars, air, inbox, rxVars>>
    BY DEF LoadDatagram, BaseInv, TypeOK
  <1>2. /\ Head(ethRxQueue) \in Datagram /\ Head(ethRxQueue) = ethRxQueue[1]
        /\ Tail(ethRxQueue) \in Seq(Datagram)
        /\ Len(ethRxQueue) \in Nat /\ Len(ethRxQueue) > 0
        /\ Len(Tail(ethRxQueue)) = Len(ethRxQueue) - 1
        /\ \A i \in 1..Len(ethRxQueue) - 1 : Tail(ethRxQueue)[i] = ethRxQueue[i + 1]
    BY <1>1, TailFacts
  <1>3. TypeOK'
    <2>1. Head(ethRxQueue).size \in 0..MaxDatagramBytes
      BY <1>2, Constants DEF Datagram
    <2> QED
      BY Constants, <1>1, <1>2, <2>1 DEF BaseInv, TypeOK, packVars, rxVars
  <1>4. SenderInv'
    <2>1. Len(sent) \in Nat /\ Len(ethRxQueue) <= Len(sent) /\ Taken' = Taken + 1 /\ Taken \in Nat
      BY <1>1, <1>2 DEF Taken, BaseInv, SenderInv
    <2>2. \A i \in 1..Len(ethRxQueue) :
             ethRxQueue[i] = [id |-> Taken + i, size |-> sent[Taken + i]]
      BY DEF BaseInv, SenderInv
    <2>3. \A i \in 1..Len(ethRxQueue') :
             ethRxQueue'[i] = [id |-> Taken' + i, size |-> sent'[Taken' + i]]
      <3> TAKE i \in 1..Len(ethRxQueue')
      <3>1. i + 1 \in 1..Len(ethRxQueue) /\ ethRxQueue'[i] = ethRxQueue[i + 1]
        BY <1>1, <1>2
      <3>2. Taken + (i + 1) = Taken' + i
        BY <2>1, <1>1, <1>2
      <3> QED
        BY <1>1, <2>2, <3>1, <3>2
    <2>4. txDatagram' = [id |-> Taken', size |-> sent'[Taken']]
      BY <1>1, <1>2, <2>1, <2>2
    <2>5. txDatagram'.size \in 1..MaxDatagramBytes
      BY <1>1, <1>2, Constants DEF Datagram
    <2>6. txDatagram' # NoDatagram
      BY <2>5 DEF NoDatagram
    <2>7. Len(ethRxQueue') <= Len(sent') /\ Taken' > 0
      BY <1>1, <1>2, <2>1
    <2>8. txOffset' + txRemaining' = txDatagram'.size /\ txRemaining' > 0
      <3>1. txOffset' = 0 /\ txRemaining' = txDatagram'.size
        BY <1>1
      <3> QED
        BY <2>5, <3>1
    <2>9. packing' /\ packing' \in BOOLEAN
      BY <1>1 DEF LoadDatagram, packVars, BaseInv, TypeOK
    <2> QED
      BY <2>3, <2>4, <2>6, <2>7, <2>8, <2>9 DEF SenderInv
  <1>5. WireInv'
    BY <1>1 DEF BaseInv, WireInv, AllTruthful, Truthful, packVars
  <1>6. ReassemblyInv'
    BY <1>1 DEF BaseInv, ReassemblyInv, rxVars
  <1> QED
    BY <1>3, <1>4, <1>5, <1>6 DEF BaseInv

LEMMA PackStep ==
    ASSUME BaseInv, PackSdu
    PROVE  BaseInv'
  <1>1. /\ SduSize \in 1..MaxSlotBytes - 2 /\ SduSize <= txRemaining
        /\ Overhead \in {2, 6} /\ SduSize + Overhead <= room
        /\ NextSdu \in Sdu /\ Truthful(NextSdu)
    BY PackedSdu DEF BaseInv, PackSdu
  <1>2. /\ frame' = Append(frame, NextSdu)
        /\ room' = room - (SduSize + Overhead)
        /\ touched' = touched + 1 /\ touched + 1 < MaxTouched
        /\ txRemaining' = txRemaining - SduSize
        /\ txDatagram # NoDatagram
        /\ packing
        /\ UNCHANGED <<sent, ethRxQueue, packing, air, inbox, rxVars>>
    BY DEF PackSdu, CanPack, ethVars
  <1>3. IF txRemaining = SduSize
        THEN txDatagram' = NoDatagram /\ txOffset' = 0
        ELSE txOffset' = txOffset + SduSize /\ txDatagram' = txDatagram
    BY DEF PackSdu
  <1>4. /\ txDatagram \in Datagram /\ txDatagram.size \in 1..MaxDatagramBytes
        /\ txOffset + txRemaining = txDatagram.size
        /\ txOffset \in 0..MaxDatagramBytes /\ txRemaining \in 0..MaxDatagramBytes /\ room \in 0..MaxSlotBytes
        /\ touched \in 0..4
    <2>1. /\ txDatagram \in Datagram \cup {NoDatagram}
          /\ txOffset \in 0..MaxDatagramBytes /\ txRemaining \in 0..MaxDatagramBytes /\ room \in 0..MaxSlotBytes
          /\ touched \in 0..4
      BY Constants DEF BaseInv, TypeOK
    <2>2. txDatagram \in Datagram /\ txDatagram.size \in 1..MaxDatagramBytes
      BY <1>2, <2>1, Constants DEF Datagram
    <2>3. txOffset + txRemaining = txDatagram.size
      BY <1>2 DEF BaseInv, SenderInv
    <2> QED
      BY <2>1, <2>2, <2>3
  <1>5. TypeOK'
    <2>1. frame' \in Seq(Sdu)
      BY <1>1, <1>2, AppendFacts DEF BaseInv, TypeOK
    <2>2. room' \in 0..MaxSlotBytes /\ touched' \in 0..MaxTouched - 1
      BY <1>1, <1>2, <1>4, Constants
    <2>3. txOffset' \in 0..MaxDatagramBytes /\ txRemaining' \in 0..MaxDatagramBytes
      <3>1. txRemaining' = txRemaining - SduSize
        BY <1>2
      <3>2. txOffset' = 0 \/ txOffset' = txOffset + SduSize
        BY <1>3
      <3>3. txRemaining - SduSize \in 0..MaxDatagramBytes
        BY Constants, <1>1, <1>4
      <3>4. txOffset + SduSize \in 0..MaxDatagramBytes
        <4>1. SduSize \in 1..MaxSlotBytes - 2 /\ SduSize <= txRemaining
          BY <1>1
        <4>2. txOffset \in 0..MaxDatagramBytes /\ txRemaining \in 0..MaxDatagramBytes
          BY <1>4
        <4>3. txOffset + txRemaining <= MaxDatagramBytes
          BY <1>4
        <4> QED
          BY Constants, <4>1, <4>2, <4>3
      <3> QED
        BY Constants, <3>1, <3>2, <3>3, <3>4
    <2>4. txDatagram' \in Datagram \cup {NoDatagram}
      BY <1>3, <1>4
    <2> QED
      BY <1>2, <2>1, <2>2, <2>3, <2>4 DEF BaseInv, TypeOK, rxVars
  <1>6. SenderInv'
    <2>1. CASE txRemaining = SduSize
      BY <1>2, <1>3, <2>1 DEF BaseInv, SenderInv, Taken
    <2>2. CASE txRemaining # SduSize
      <3>1. txOffset' + txRemaining' = txDatagram'.size /\ txRemaining' > 0
        BY <1>1, <1>2, <1>3, <1>4, <2>2
      <3>2. txDatagram' = txDatagram /\ Taken' = Taken
        BY <1>2, <1>3, <2>2 DEF Taken
      <3> QED
        BY <1>2, <3>1, <3>2 DEF BaseInv, SenderInv
    <2> QED
      BY <2>1, <2>2
  <1>7. WireInv'
    <2>1. AllTruthful(Append(frame, NextSdu))
      BY <1>1, TruthfulAppend DEF BaseInv, TypeOK, WireInv
    <2> QED
      BY <1>2, <2>1 DEF BaseInv, WireInv, AllTruthful, Truthful
  <1>8. ReassemblyInv'
    BY <1>2 DEF BaseInv, ReassemblyInv, rxVars
  <1> QED
    BY <1>5, <1>6, <1>7, <1>8 DEF BaseInv

\* The steps that move whole frames, or lose them.
FrameStep ==
    \/ \E bytes \in SlotBytes : OpenFrame(bytes)
    \/ TransmitFrame \/ TransmitFails \/ LoseFrame \/ ReceiveFrame

LEMMA FrameMoves ==
    ASSUME FrameStep
    PROVE  /\ UNCHANGED <<sent, ethRxQueue, txDatagram, txOffset, txRemaining,
                          rxActive, rxBytes, rxSize, rxOffset, ethTxQueue>>
           /\ frame' \in {frame, <<>>}
           /\ frame' = <<>> \/ (packing' = packing /\ frame' = frame)
           /\ air' \in {air, frame, <<>>}
           /\ inbox' \in {inbox, air}
           /\ packing' \in {packing, TRUE, FALSE}
           /\ room' \in {room, 0} \cup SlotBytes
           /\ touched' \in {touched, 0}
  <1>1. ASSUME NEW bytes \in SlotBytes, OpenFrame(bytes)
        PROVE  /\ UNCHANGED <<ethVars, loadVars, air, inbox, rxVars>>
               /\ packing' = TRUE /\ frame' = <<>> /\ room' = bytes /\ touched' = 0
    BY <1>1 DEF OpenFrame
  <1>2. ASSUME TransmitFrame \/ TransmitFails
        PROVE  /\ UNCHANGED <<ethVars, loadVars, inbox, rxVars>>
               /\ packing' = FALSE /\ frame' = <<>> /\ room' = 0 /\ touched' = 0
               /\ air' \in {air, frame}
    BY <1>2 DEF TransmitFrame, TransmitFails, CloseFrame
  <1>3. ASSUME LoseFrame \/ ReceiveFrame
        PROVE  /\ UNCHANGED <<ethVars, loadVars, packVars, rxVars>>
               /\ air' = <<>> /\ inbox' \in {inbox, air}
    BY <1>3 DEF LoseFrame, ReceiveFrame
  <1>4. CASE \E bytes \in SlotBytes : OpenFrame(bytes)
    BY <1>1, <1>4 DEF ethVars, loadVars, rxVars
  <1>5. CASE TransmitFrame \/ TransmitFails
    BY <1>2, <1>5 DEF ethVars, loadVars, rxVars
  <1>6. CASE LoseFrame \/ ReceiveFrame
    BY <1>3, <1>6 DEF ethVars, loadVars, packVars, rxVars
  <1> QED
    BY <1>4, <1>5, <1>6 DEF FrameStep

LEMMA FrameStepKeeps ==
    ASSUME BaseInv, FrameStep
    PROVE  BaseInv'
  <1>1. TypeOK'
    <2>1. /\ frame \in Seq(Sdu) /\ air \in Seq(Sdu) /\ inbox \in Seq(Sdu)
          /\ <<>> \in Seq(Sdu)
          /\ packing \in BOOLEAN /\ room \in 0..MaxSlotBytes /\ touched \in 0..MaxTouched - 1
      BY DEF BaseInv, TypeOK
    <2>2. /\ frame' \in Seq(Sdu) /\ air' \in Seq(Sdu) /\ inbox' \in Seq(Sdu)
          /\ packing' \in BOOLEAN
      BY <2>1, FrameMoves
    <2>3. room' \in 0..MaxSlotBytes
      <3>1. room' = room \/ room' = 0 \/ room' \in SlotBytes
        BY FrameMoves
      <3>2. room' \in SlotBytes => room' \in 7..MaxSlotBytes
        BY Constants
      <3>3. room \in 0..MaxSlotBytes
        BY <2>1
      <3> QED
        BY Constants, <3>1, <3>2, <3>3
    <2>4. touched' \in 0..MaxTouched - 1
      BY <2>1, FrameMoves, Constants
    <2> QED
      BY <2>2, <2>3, <2>4, FrameMoves DEF BaseInv, TypeOK
  <1>2. SenderInv'
    BY FrameMoves DEF BaseInv, SenderInv, Taken
  <1>3. WireInv'
    <2>1. AllTruthful(<<>>)
      BY DEF AllTruthful
    <2>2. AllTruthful(frame') /\ AllTruthful(air') /\ AllTruthful(inbox')
      BY <2>1, FrameMoves DEF BaseInv, WireInv
    <2> QED
      BY <2>2, FrameMoves DEF WireInv, AllTruthful, Truthful
  <1>4. ReassemblyInv'
    BY FrameMoves DEF BaseInv, ReassemblyInv
  <1> QED
    BY <1>1, <1>2, <1>3, <1>4 DEF BaseInv

-----------------------------------------------------------------------------
(* The receiver.                                                           *)

\* What DectPhy_HandleSDUFragment knows about the SDU it is called with.
LEMMA HeadSdu ==
    ASSUME BaseInv, inbox # <<>>
    PROVE  LET s == Head(inbox) IN
           /\ s \in Sdu /\ Truthful(s) /\ s = inbox[1]
           /\ s.id \in 1..Len(sent) /\ s.id \in 1..MaxDatagrams
           /\ sent[s.id] \in Sizes
           /\ s.len \in 1..MaxDatagramBytes /\ s.from \in 0..MaxDatagramBytes /\ s.offset \in 0..MaxDatagramBytes
           /\ s.frag \in BOOLEAN
           /\ s.from + s.len <= MaxDatagramBytes
           /\ Tail(inbox) \in Seq(Sdu) /\ AllTruthful(Tail(inbox))
           /\ SizeFor(s) \in Sizes \cup {0}
           /\ SizeFor(s) \in 1..MaxDatagramBytes
           /\ OffsetFor(s) \in 0..MaxDatagramBytes
           /\ OffsetFor(s) < SizeFor(s)
  <1> DEFINE s == Head(inbox)
  <1>1. /\ inbox \in Seq(Sdu) /\ AllTruthful(inbox) /\ sent \in Seq(Sizes)
        /\ Len(sent) <= MaxDatagrams
    BY DEF BaseInv, TypeOK, WireInv
  <1>2. /\ s \in Sdu /\ s = inbox[1] /\ Tail(inbox) \in Seq(Sdu)
        /\ Len(inbox) \in Nat /\ Len(inbox) > 0
        /\ Len(Tail(inbox)) = Len(inbox) - 1
        /\ \A i \in 1..Len(inbox) - 1 : Tail(inbox)[i] = inbox[i + 1]
    BY <1>1, TailFacts
  <1>3. Truthful(s)
    BY <1>1, <1>2 DEF AllTruthful
  <1>4. AllTruthful(Tail(inbox))
    <2> SUFFICES ASSUME NEW i \in 1..Len(Tail(inbox))
                 PROVE  Truthful(Tail(inbox)[i])
      BY DEF AllTruthful
    <2>1. i + 1 \in 1..Len(inbox) /\ Tail(inbox)[i] = inbox[i + 1]
      BY <1>2
    <2> QED
      BY <1>1, <2>1 DEF AllTruthful
  <1>5. /\ s.frag \in BOOLEAN /\ s.id \in 1..MaxDatagrams /\ s.len \in 0..MaxSlotBytes - 2
        /\ s.from \in 0..MaxDatagramBytes /\ s.offset \in 0..MaxDatagramBytes /\ s.size \in 0..MaxDatagramBytes
    BY Constants, <1>2 DEF Sdu
  <1>6. s.id \in 1..Len(sent) /\ sent[s.id] \in Sizes /\ sent[s.id] \in 1..MaxDatagramBytes
    <2>1. s.id <= Len(sent) /\ Len(sent) \in Nat
      BY <1>1, <1>3 DEF Truthful
    <2>2. s.id \in 1..Len(sent)
      BY <1>5, <2>1
    <2> QED
      BY <1>1, <2>2, Constants
  <1>7. s.len > 0 /\ s.from + s.len <= sent[s.id]
    BY <1>3 DEF Truthful
  <1>8. s.len \in 1..MaxDatagramBytes /\ s.from + s.len <= MaxDatagramBytes
    BY Constants, <1>5, <1>6, <1>7
  <1>9. rxActive => rxSize \in Sizes /\ rxSize \in 1..MaxDatagramBytes
                    /\ rxOffset \in 0..MaxDatagramBytes /\ rxOffset < rxSize
    <2>1. /\ rxSize \in Sizes \cup {0} /\ rxOffset \in 0..MaxDatagramBytes
          /\ rxActive => 0 < rxOffset /\ rxOffset < rxSize
      BY DEF BaseInv, TypeOK, ReassemblyInv
    <2> QED
      BY <2>1, Constants
  <1>10. (IF s.frag THEN s.size ELSE s.len) = sent[s.id]
    BY <1>3 DEF Truthful
  <1>11. /\ SizeFor(s) \in Sizes \cup {0} /\ SizeFor(s) \in 1..MaxDatagramBytes
         /\ OffsetFor(s) \in 0..MaxDatagramBytes /\ OffsetFor(s) < SizeFor(s)
    <2>1. CASE rxActive
      BY <1>9, <2>1 DEF SizeFor, OffsetFor
    <2>2. CASE ~rxActive
      BY Constants, <1>6, <1>10, <2>2 DEF SizeFor, OffsetFor
    <2> QED
      BY <2>1, <2>2
  <1> QED
    BY <1>2, <1>3, <1>4, <1>5, <1>6, <1>8, <1>11

\* A copy keeps the length of the buffer, and its bytes are bytes.
LEMMA CopyFacts ==
    ASSUME NEW b \in Seq(Byte), NEW s \in Sdu, NEW at \in 0..MaxDatagramBytes,
           s.from + s.len <= MaxDatagramBytes
    PROVE  /\ Copy(b, s, at) \in Seq(Byte)
           /\ Len(Copy(b, s, at)) = Len(b)
           /\ \A p \in 1..Len(b) :
                 Copy(b, s, at)[p] = IF p \in at + 1..at + s.len
                                     THEN <<s.id, s.from + p - at>> ELSE b[p]
  <1> DEFINE c(p) == IF p \in at + 1..at + s.len THEN <<s.id, s.from + p - at>> ELSE b[p]
  <1>1. Len(b) \in Nat /\ Copy(b, s, at) = [p \in 1..Len(b) |-> c(p)]
    BY DEF Copy
  <1>2. ASSUME NEW p \in 1..Len(b)
        PROVE  c(p) \in Byte
    <2>1. s.id \in 0..MaxDatagrams /\ s.from \in Nat /\ s.len \in Nat
      BY Constants DEF Sdu
    <2>2. CASE p \in at + 1..at + s.len
      <3>1. s.from + p - at \in 0..MaxDatagramBytes
        BY <2>1, <2>2, Constants
      <3> QED
        BY <2>1, <2>2, <3>1 DEF Byte
    <2>3. CASE p \notin at + 1..at + s.len
      BY <2>3
    <2> QED
      BY <2>2, <2>3
  <1>3. Copy(b, s, at) \in [1..Len(b) -> Byte]
    BY <1>1, <1>2
  <1> HIDE DEF c
  <1>4. Copy(b, s, at) \in Seq(Byte) /\ Len(Copy(b, s, at)) = Len(b)
    BY <1>1, <1>3
  <1> QED
    BY <1>1, <1>4 DEF c

LEMMA BytesForFacts ==
    ASSUME TypeOK, NEW s, SizeFor(s) \in Nat
    PROVE  BytesFor(s) \in Seq(Byte) /\ Len(BytesFor(s)) = SizeFor(s)
  <1>1. CASE rxActive
    BY <1>1 DEF TypeOK, BytesFor, SizeFor
  <1>2. CASE ~rxActive
    <2>1. Uninitialised \in Byte
      BY Constants DEF Uninitialised, Byte
    <2>2. BytesFor(s) = [p \in 1..SizeFor(s) |-> Uninitialised]
      BY <1>2 DEF BytesFor
    <2> QED
      BY <2>1, <2>2
  <1> QED
    BY <1>1, <1>2

\* The three ways DectPhy_HandleSDUFragment leaves the reassembly state.
LEMMA HandleOutcomes ==
    ASSUME BaseInv, NEW s, s = Head(inbox), inbox # <<>>,
           HandleFragment(s) \/ HandleWhole(s)
    PROVE  LET at == IF s.frag THEN s.offset ELSE 0
               bytes == Copy(BytesFor(s), s, at)
           IN \/ /\ s.frag /\ s.offset + s.len > SizeFor(s)
                 /\ Release(SizeFor(s), OffsetFor(s))
                 /\ ethTxQueue' = ethTxQueue
              \/ /\ s.frag /\ s.offset + s.len <= SizeFor(s)
                 /\ OffsetFor(s) + s.len < SizeFor(s)
                 /\ rxActive' = TRUE /\ rxBytes' = bytes /\ rxSize' = SizeFor(s)
                 /\ rxOffset' = OffsetFor(s) + s.len
                 /\ ethTxQueue' = ethTxQueue
              \/ /\ s.frag => s.offset + s.len <= SizeFor(s)
                              /\ OffsetFor(s) + s.len >= SizeFor(s)
                 /\ Deliver(bytes)
  <1>1. /\ s.len \in Nat /\ s.len > 0 /\ s.offset \in Nat
        /\ SizeFor(s) \in Nat /\ OffsetFor(s) \in Nat
    BY HeadSdu, Constants
  <1>2. CASE HandleWhole(s)
    BY <1>2 DEF HandleWhole
  <1>3. CASE HandleFragment(s)
    <2>1. CASE s.offset + s.len > SizeFor(s)
      BY <1>1, <1>3, <2>1 DEF HandleFragment
    <2>2. CASE ~(s.offset + s.len > SizeFor(s)) /\ OffsetFor(s) + s.len >= SizeFor(s)
      BY <1>1, <1>3, <2>2 DEF HandleFragment
    <2>3. CASE ~(s.offset + s.len > SizeFor(s)) /\ ~(OffsetFor(s) + s.len >= SizeFor(s))
      BY <1>1, <1>3, <2>3 DEF HandleFragment
    <2> QED
      BY <2>1, <2>2, <2>3
  <1> QED
    BY <1>2, <1>3

\* The receiver's state after one SDU, whatever the outcome.
RxTyped ==
    /\ rxActive \in BOOLEAN
    /\ rxSize \in Sizes \cup {0} /\ rxOffset \in 0..MaxDatagramBytes
    /\ rxBytes \in Seq(Byte) /\ Len(rxBytes) = (IF rxActive THEN rxSize ELSE 0)
    /\ ethTxQueue \in Seq(Seq(Byte))

LEMMA ReleaseTyped ==
    ASSUME NEW size \in Sizes \cup {0}, NEW offset \in 0..MaxDatagramBytes,
           Release(size, offset), ethTxQueue' \in Seq(Seq(Byte))
    PROVE  RxTyped' /\ ReassemblyInv'
  <1>1. /\ rxActive' = FALSE /\ rxBytes' = <<>> /\ rxSize' = size /\ rxOffset' = offset
    BY DEF Release
  <1>2. rxBytes' \in Seq(Byte) /\ Len(rxBytes') = 0
    BY <1>1
  <1>3. RxTyped'
    <2>1. Len(rxBytes') = (IF rxActive' THEN rxSize' ELSE 0)
      BY <1>1, <1>2
    <2>2. rxActive' \in BOOLEAN /\ rxSize' \in Sizes \cup {0} /\ rxOffset' \in 0..MaxDatagramBytes
      BY <1>1
    <2> QED
      BY <1>2, <2>1, <2>2 DEF RxTyped
  <1>4. ReassemblyInv'
    BY <1>1 DEF ReassemblyInv
  <1> QED
    BY <1>3, <1>4

LEMMA HandleKeepsRx ==
    ASSUME BaseInv, NEW s, s = Head(inbox), inbox # <<>>,
           HandleFragment(s) \/ HandleWhole(s)
    PROVE  RxTyped' /\ ReassemblyInv'
  <1> DEFINE at == IF s.frag THEN s.offset ELSE 0
             bytes == Copy(BytesFor(s), s, at)
  <1>1. /\ s \in Sdu /\ s.len \in Nat /\ s.len > 0
        /\ s.from + s.len <= MaxDatagramBytes
        /\ s.offset \in 0..MaxDatagramBytes
        /\ SizeFor(s) \in Sizes \cup {0} /\ SizeFor(s) \in 1..MaxDatagramBytes
        /\ OffsetFor(s) \in 0..MaxDatagramBytes
    BY HeadSdu, Constants
  <1>2. at \in 0..MaxDatagramBytes
    BY <1>1, Constants
  <1>3. BytesFor(s) \in Seq(Byte) /\ Len(BytesFor(s)) = SizeFor(s)
    BY <1>1, BytesForFacts, Constants DEF BaseInv
  <1>4. bytes \in Seq(Byte) /\ Len(bytes) = SizeFor(s)
    BY <1>1, <1>2, <1>3, CopyFacts
  <1> HIDE DEF bytes
  <1>5. ethTxQueue \in Seq(Seq(Byte))
    BY DEF BaseInv, TypeOK
  <1>6. \/ /\ Release(SizeFor(s), OffsetFor(s))
           /\ ethTxQueue' = ethTxQueue
        \/ /\ OffsetFor(s) + s.len < SizeFor(s)
           /\ rxActive' = TRUE /\ rxBytes' = bytes /\ rxSize' = SizeFor(s)
           /\ rxOffset' = OffsetFor(s) + s.len
           /\ ethTxQueue' = ethTxQueue
        \/ Deliver(bytes)
    BY HandleOutcomes DEF bytes
  <1>7. CASE Release(SizeFor(s), OffsetFor(s)) /\ ethTxQueue' = ethTxQueue
    BY <1>1, <1>5, <1>7, ReleaseTyped
  <1>8. CASE /\ OffsetFor(s) + s.len < SizeFor(s)
             /\ rxActive' = TRUE /\ rxBytes' = bytes /\ rxSize' = SizeFor(s)
             /\ rxOffset' = OffsetFor(s) + s.len
             /\ ethTxQueue' = ethTxQueue
    <2>1. rxOffset' \in 0..MaxDatagramBytes /\ 0 < rxOffset' /\ rxOffset' < rxSize'
      BY <1>1, <1>8, Constants
    <2> QED
      BY <1>1, <1>4, <1>5, <1>8, <2>1 DEF RxTyped, ReassemblyInv
  <1>9. CASE Deliver(bytes)
    <2>1. ethTxQueue' \in Seq(Seq(Byte))
      BY <1>4, <1>5, <1>9, AppendFacts DEF Deliver
    <2>2. 0 \in Sizes \cup {0} /\ 0 \in 0..MaxDatagramBytes /\ Release(0, 0)
      BY <1>9, Constants DEF Deliver
    <2> QED
      BY <2>1, <2>2, ReleaseTyped
  <1> QED
    BY <1>6, <1>7, <1>8, <1>9

LEMMA HandleStep ==
    ASSUME BaseInv, HandleSDUFragment \/ HandleSDUFragmentOOM
    PROVE  BaseInv'
  <1>1. /\ inbox # <<>> /\ inbox' = Tail(inbox)
        /\ UNCHANGED <<sent, ethRxQueue, txDatagram, txOffset, txRemaining,
                       packing, frame, room, touched, air>>
    BY DEF HandleSDUFragment, HandleSDUFragmentOOM, ethVars, loadVars, packVars
  <1>2. Tail(inbox) \in Seq(Sdu) /\ AllTruthful(Tail(inbox))
    BY <1>1, HeadSdu
  <1>3. RxTyped' /\ ReassemblyInv'
    <2>1. CASE HandleSDUFragment
      <3>1. HandleFragment(Head(inbox)) \/ HandleWhole(Head(inbox))
        BY <2>1 DEF HandleSDUFragment
      <3> QED
        BY <1>1, <3>1, HandleKeepsRx
    <2>2. CASE HandleSDUFragmentOOM
      <3>1. Release(SizeFor(Head(inbox)), 0) /\ ethTxQueue' = ethTxQueue
        BY <2>2 DEF HandleSDUFragmentOOM
      <3>2. SizeFor(Head(inbox)) \in Sizes \cup {0} /\ 0 \in 0..MaxDatagramBytes
        BY <1>1, HeadSdu, Constants
      <3>3. ethTxQueue' \in Seq(Seq(Byte))
        BY <3>1 DEF BaseInv, TypeOK
      <3> QED
        BY <3>1, <3>2, <3>3, ReleaseTyped
    <2> QED
      BY <2>1, <2>2
  <1>4. TypeOK'
    BY <1>1, <1>2, <1>3 DEF BaseInv, TypeOK, RxTyped
  <1>5. SenderInv'
    BY <1>1 DEF BaseInv, SenderInv, Taken
  <1>6. WireInv'
    BY <1>1, <1>2 DEF BaseInv, WireInv, AllTruthful, Truthful
  <1> QED
    BY <1>3, <1>4, <1>5, <1>6 DEF BaseInv

LEMMA InitBase == Init => BaseInv
  <1> SUFFICES ASSUME Init PROVE BaseInv
    OBVIOUS
  <1>1. TypeOK
    <2>1. /\ sent \in Seq(Sizes) /\ Len(sent) <= MaxDatagrams
          /\ ethRxQueue \in Seq(Datagram)
          /\ frame \in Seq(Sdu) /\ air \in Seq(Sdu) /\ inbox \in Seq(Sdu)
          /\ ethTxQueue \in Seq(Seq(Byte))
      BY Constants DEF Init
    <2>2. rxBytes \in Seq(Byte) /\ Len(rxBytes) = (IF rxActive THEN rxSize ELSE 0)
      BY DEF Init
    <2>3. /\ txOffset \in 0..MaxDatagramBytes /\ txRemaining \in 0..MaxDatagramBytes
          /\ rxSize \in Sizes \cup {0} /\ rxOffset \in 0..MaxDatagramBytes
          /\ room \in 0..MaxSlotBytes /\ touched \in 0..MaxTouched - 1
      BY Constants DEF Init
    <2> QED
      BY <2>1, <2>2, <2>3 DEF Init, TypeOK
  <1>2. SenderInv
    BY DEF Init, SenderInv, Taken
  <1>3. WireInv /\ ReassemblyInv
    BY DEF Init, WireInv, AllTruthful, ReassemblyInv
  <1> QED
    BY <1>1, <1>2, <1>3 DEF BaseInv

\* The actions, grouped as the proofs treat them.
LEMMA NextCases ==
    ASSUME Next
    PROVE  \/ \E size \in Sizes : EnqueueEthRx(size)
           \/ LoadDatagram
           \/ PackSdu
           \/ FrameStep
           \/ HandleSDUFragment \/ HandleSDUFragmentOOM
  BY DEF Next, SenderThread, ReceiverThread, FrameStep

LEMMA BaseStep == BaseInv /\ [Next]_vars => BaseInv'
  <1> SUFFICES ASSUME BaseInv, [Next]_vars
               PROVE  BaseInv'
    OBVIOUS
  <1>1. CASE Next
    BY <1>1, NextCases, EnqueueStep, LoadStep, PackStep, FrameStepKeeps, HandleStep
  <1>2. CASE UNCHANGED vars
    BY <1>2
    DEF vars, ethVars, loadVars, packVars, rxVars, BaseInv, TypeOK, SenderInv, Taken,
        WireInv, AllTruthful, Truthful, ReassemblyInv
  <1> QED
    BY <1>1, <1>2

\* With or without losses: every variable keeps its type (no SDU is written
\* past the frame), the sender's counters match its datagrams, the SDUs on
\* the wire describe themselves truthfully, and a reassembly in progress has
\* received some bytes of its datagram and not all of them.
THEOREM BaseInvariant == Spec => []BaseInv
    BY InitBase, BaseStep, PTL DEF Spec

-----------------------------------------------------------------------------
(* With losses.  Positions in the stream of all bytes are ordered by        *)
(* datagram and then by place; what is on its way is in that order, behind  *)
(* it is what the receiver has, and before it what is not packed yet.       *)

Position == Nat \X Nat
NotAfter(x, y) == x[1] < y[1] \/ (x[1] = y[1] /\ x[2] <= y[2])
Before(x, y) == x[1] < y[1] \/ (x[1] = y[1] /\ x[2] < y[2])

\* The position behind an SDU.
EndsAt(s) == <<s.id, s.from + s.len>>

\* Every SDU of f starts at position x or later.
Later(f, x) == \A i \in 1..Len(f) : NotAfter(x, First(f[i]))
Unpacked(x) == NotAfter(x, TxPosition)

Increasing(f) == \A i, j \in 1..Len(f) : i < j => NotAfter(EndsAt(f[i]), First(f[j]))
Ahead(f, g) == \A i \in 1..Len(f) : Later(g, EndsAt(f[i]))
AllPacked(f) == \A i \in 1..Len(f) : Unpacked(EndsAt(f[i]))

\* The SDUs on their way increase from the receiver to the sender.
WireOrder ==
    /\ Increasing(inbox) /\ Increasing(air) /\ Increasing(frame)
    /\ Ahead(inbox, air) /\ Ahead(inbox, frame) /\ Ahead(air, frame)
    /\ AllPacked(inbox) /\ AllPacked(air) /\ AllPacked(frame)

\* What is on its way or not packed yet starts at position x or later.
Past(x) == Later(inbox, x) /\ Later(air, x) /\ Later(frame, x) /\ Unpacked(x)

Written(b) == {b[p] : p \in 1..Len(b)} \ {Uninitialised}
Earlier(b, c) == \A x \in Written(b), y \in Written(c) : Before(x, y)

\* What has arrived is past, and deliveries increase up to the datagram
\* that is being reassembled.
ArrivedInOrder ==
    /\ \A x \in Written(rxBytes) : Past(x)
    /\ \A i \in Deliveries : \A x \in Written(ethTxQueue[i]) : Past(x)
    /\ \A i \in Deliveries : Earlier(ethTxQueue[i], rxBytes)
    /\ \A i, j \in Deliveries : i < j => Earlier(ethTxQueue[i], ethTxQueue[j])

LEMMA PositionOrder ==
    ASSUME NEW x \in Position, NEW y \in Position, NEW z \in Position
    PROVE  /\ NotAfter(x, y) /\ NotAfter(y, z) => NotAfter(x, z)
           /\ NotAfter(x, y) /\ Before(y, z) => Before(x, z)
           /\ Before(x, y) => ~Before(y, x)
  <1>1. /\ x[1] \in Nat /\ x[2] \in Nat /\ y[1] \in Nat /\ y[2] \in Nat
        /\ z[1] \in Nat /\ z[2] \in Nat
    BY DEF Position
  <1> QED
    BY <1>1 DEF NotAfter, Before

LEMMA SduPositions ==
    ASSUME NEW f \in Seq(Sdu), NEW i \in 1..Len(f)
    PROVE  First(f[i]) \in Position /\ EndsAt(f[i]) \in Position
  <1> DEFINE s == f[i]
  <1>1. s \in Sdu
    OBVIOUS
  <1> HIDE DEF s
  <1>2. s.id \in Nat /\ s.from \in Nat /\ s.len \in Nat
    BY <1>1, Constants DEF Sdu
  <1>3. First(s) \in Position /\ EndsAt(s) \in Position
    BY <1>2 DEF First, EndsAt, Position
  <1> QED
    BY <1>3 DEF s

LEMMA LaterStays ==
    ASSUME NEW f \in Seq(Sdu), NEW x \in Position, NEW y \in Position,
           NotAfter(x, y), Later(f, y)
    PROVE  Later(f, x)
  <1> SUFFICES ASSUME NEW i \in 1..Len(f) PROVE NotAfter(x, First(f[i]))
    BY DEF Later
  <1>1. First(f[i]) \in Position
    BY SduPositions
  <1>2. NotAfter(y, First(f[i]))
    BY DEF Later
  <1> QED
    BY <1>1, <1>2, PositionOrder

LEMMA TxPositionType == TypeOK /\ SenderInv => TxPosition \in Position
  <1> SUFFICES ASSUME TypeOK, SenderInv PROVE TxPosition \in Position
    OBVIOUS
  <1>1. Len(sent) \in Nat /\ Len(ethRxQueue) \in Nat /\ txOffset \in Nat
    BY Constants DEF TypeOK
  <1>2. Taken \in Nat
    BY <1>1 DEF SenderInv, Taken
  <1> QED
    BY <1>1, <1>2 DEF TxPosition, Position

LEMMA EmptyWire ==
    /\ Increasing(<<>>) /\ AllPacked(<<>>)
    /\ \A f : Ahead(<<>>, f) /\ Ahead(f, <<>>)
    /\ \A x : Later(<<>>, x)
BY DEF Increasing, AllPacked, Ahead, Later

-----------------------------------------------------------------------------
(* The steps of the sender and of the radio move nothing backwards.         *)

\* Bytes that have arrived stay past when a step of the sender or the radio
\* leaves the receiver alone and what is past, past.
LEMMA QuietArrived ==
    ASSUME TypeOK, ArrivedInOrder, UNCHANGED <<rxBytes, ethTxQueue>>,
           \A x \in Position : Past(x) => Past(x)'
    PROVE  ArrivedInOrder'
  <1>1. ASSUME NEW b \in Seq(Byte)
        PROVE  Written(b) \subseteq Position
    <2>1. \A y \in Byte : y \in Position
      BY Constants DEF Byte, Position
    <2> QED
      BY <2>1 DEF Written
  <1>2. rxBytes \in Seq(Byte) /\ ethTxQueue \in Seq(Seq(Byte))
    BY DEF TypeOK
  <1>3. \A x \in Written(rxBytes) : Past(x)'
    BY <1>1, <1>2 DEF ArrivedInOrder
  <1>4. \A i \in Deliveries : \A x \in Written(ethTxQueue[i]) : Past(x)'
    BY <1>1, <1>2 DEF ArrivedInOrder, Deliveries
  <1>5. Deliveries' = Deliveries
    BY DEF Deliveries
  <1> QED
    BY <1>3, <1>4, <1>5 DEF ArrivedInOrder

LEMMA SenderSteps ==
    ASSUME BaseInv, WireOrder, (\E size \in Sizes : EnqueueEthRx(size)) \/ LoadDatagram
    PROVE  WireOrder' /\ (\A x \in Position : Past(x) => Past(x)')
  <1>1. TxPosition' = TxPosition
    <2>1. /\ Len(sent) \in Nat /\ Len(ethRxQueue) \in Nat
          /\ sent \in Seq(Sizes) /\ ethRxQueue \in Seq(Datagram)
      BY DEF BaseInv, TypeOK
    <2>2. ASSUME NEW size \in Sizes, EnqueueEthRx(size) PROVE TxPosition' = TxPosition
      <3>1. /\ sent' = Append(sent, size)
            /\ ethRxQueue' = Append(ethRxQueue, [id |-> Len(sent) + 1, size |-> size])
            /\ UNCHANGED <<txDatagram, txOffset>> /\ Len(sent) < MaxDatagrams
        BY <2>2 DEF EnqueueEthRx, loadVars
      <3>2. Len(sent') = Len(sent) + 1
        BY <2>1, <3>1, AppendFacts
      <3>3. Len(ethRxQueue') = Len(ethRxQueue) + 1
        <4>1. [id |-> Len(sent) + 1, size |-> size] \in Datagram
          BY <2>1, <3>1, Constants DEF Datagram
        <4> QED
          BY <2>1, <3>1, <4>1, AppendFacts
      <3>4. Taken' = Taken
        BY <2>1, <3>2, <3>3 DEF Taken
      <3> QED
        BY <3>1, <3>4 DEF TxPosition
    <2>3. ASSUME LoadDatagram PROVE TxPosition' = TxPosition
      <3>1. /\ ethRxQueue # <<>> /\ ethRxQueue' = Tail(ethRxQueue) /\ UNCHANGED sent
            /\ txDatagram = NoDatagram /\ txDatagram' = Head(ethRxQueue) /\ txOffset' = 0
        BY <2>3 DEF LoadDatagram
      <3>2. Head(ethRxQueue) \in Datagram /\ Len(Tail(ethRxQueue)) = Len(ethRxQueue) - 1
        BY <2>1, <3>1, TailFacts
      <3>3. txDatagram' # NoDatagram
        BY <3>1, <3>2, Constants DEF Datagram, NoDatagram
      <3>4. Taken' = Taken + 1
        BY <2>1, <3>1, <3>2 DEF Taken
      <3> QED
        BY <3>1, <3>3, <3>4 DEF TxPosition
    <2> QED
      BY <2>2, <2>3
  <1>2. UNCHANGED <<frame, air, inbox>>
    BY DEF EnqueueEthRx, LoadDatagram, packVars
  <1> QED
    BY <1>1, <1>2 DEF WireOrder, AllPacked, Ahead, Increasing, Later, Past, Unpacked

LEMMA PackSteps ==
    ASSUME BaseInv, WireOrder, PackSdu
    PROVE  WireOrder' /\ (\A x \in Position : Past(x) => Past(x)')
  <1>1. /\ NextSdu \in Sdu /\ Taken \in 1..Len(sent)
        /\ NextSdu.id = Taken /\ NextSdu.from = txOffset /\ NextSdu.len = SduSize
        /\ SduSize \in 1..MaxSlotBytes - 2
    BY PackedSdu DEF BaseInv, PackSdu
  <1>2. /\ frame \in Seq(Sdu) /\ air \in Seq(Sdu) /\ inbox \in Seq(Sdu)
        /\ txOffset \in Nat /\ Len(sent) \in Nat /\ SduSize \in Nat /\ Taken \in Nat
    BY <1>1, Constants DEF BaseInv, TypeOK
  <1>3. /\ frame' = Append(frame, NextSdu) /\ UNCHANGED <<air, inbox, sent, ethRxQueue>>
        /\ txDatagram # NoDatagram
        /\ IF txRemaining = SduSize
           THEN txDatagram' = NoDatagram /\ txOffset' = 0
           ELSE txOffset' = txOffset + SduSize /\ txDatagram' = txDatagram
    BY DEF PackSdu, CanPack, ethVars
  <1>4. First(NextSdu) = TxPosition
    BY <1>1, <1>3 DEF First, TxPosition
  <1>5. EndsAt(NextSdu) = <<Taken, txOffset + SduSize>>
    BY <1>1 DEF EndsAt
  <1>6. Taken' = Taken
    BY <1>3 DEF Taken
  <1>7. TxPosition' = EndsAt(NextSdu) \/ TxPosition' = <<Taken + 1, 0>>
    BY <1>3, <1>5, <1>6 DEF TxPosition
  <1>8. /\ TxPosition \in Position /\ TxPosition' \in Position /\ EndsAt(NextSdu) \in Position
    BY <1>1, <1>2, <1>4, <1>5, <1>7 DEF First, Position
  <1>9. NotAfter(EndsAt(NextSdu), TxPosition') /\ NotAfter(TxPosition, TxPosition')
    BY <1>1, <1>2, <1>4, <1>5, <1>7 DEF First, NotAfter
  <1>10. /\ Append(frame, NextSdu) \in Seq(Sdu) /\ Len(frame) \in Nat
         /\ Len(Append(frame, NextSdu)) = Len(frame) + 1
         /\ \A i \in 1..Len(frame) : Append(frame, NextSdu)[i] = frame[i]
         /\ Append(frame, NextSdu)[Len(frame) + 1] = NextSdu
    BY <1>1, <1>2, AppendFacts
  <1>11. \A x \in Position : Unpacked(x) => Unpacked(x)'
    BY <1>8, <1>9, PositionOrder DEF Unpacked
  <1>12. ASSUME NEW x, Later(frame, x), Unpacked(x) PROVE Later(frame', x)
    <2> SUFFICES ASSUME NEW i \in 1..Len(frame') PROVE NotAfter(x, First(frame'[i]))
      BY DEF Later
    <2>1. CASE i \in 1..Len(frame)
      BY <1>3, <1>10, <1>12, <2>1 DEF Later
    <2>2. CASE i = Len(frame) + 1
      BY <1>3, <1>4, <1>10, <1>12, <2>2 DEF Unpacked
    <2> QED
      BY <1>3, <1>10, <2>1, <2>2
  <1>13. ASSUME NEW f \in Seq(Sdu), AllPacked(f)
         PROVE  \A i \in 1..Len(f) : Unpacked(EndsAt(f[i]))'
    BY <1>11, <1>13, SduPositions DEF AllPacked
  <1>14. Ahead(inbox, frame') /\ Ahead(air, frame')
    BY <1>12 DEF WireOrder, Ahead, AllPacked
  <1>15. Increasing(frame')
    <2> SUFFICES ASSUME NEW i \in 1..Len(frame'), NEW j \in 1..Len(frame'), i < j
                 PROVE  NotAfter(EndsAt(frame'[i]), First(frame'[j]))
      BY DEF Increasing
    <2>1. i \in 1..Len(frame) /\ frame'[i] = frame[i]
      BY <1>3, <1>10
    <2>2. CASE j \in 1..Len(frame)
      BY <1>3, <1>10, <2>1, <2>2 DEF WireOrder, Increasing
    <2>3. CASE j = Len(frame) + 1
      BY <1>3, <1>4, <1>10, <2>1, <2>3 DEF WireOrder, AllPacked, Unpacked
    <2> QED
      BY <1>3, <1>10, <2>2, <2>3
  <1>16. AllPacked(frame)'
    <2> SUFFICES ASSUME NEW i \in 1..Len(frame')
                 PROVE  NotAfter(EndsAt(frame'[i]), TxPosition')
      BY DEF AllPacked, Unpacked, EndsAt
    <2>1. CASE i \in 1..Len(frame)
      <3>1. frame'[i] = frame[i]
        BY <1>3, <1>10, <2>1
      <3>2. NotAfter(EndsAt(frame[i]), TxPosition) /\ EndsAt(frame[i]) \in Position
        BY <1>2, <2>1, SduPositions DEF WireOrder, AllPacked, Unpacked
      <3> QED
        BY <1>8, <1>9, <3>1, <3>2, PositionOrder
    <2>2. CASE i = Len(frame) + 1
      BY <1>3, <1>9, <1>10, <2>2
    <2> QED
      BY <1>3, <1>10, <2>1, <2>2
  <1>17. WireOrder'
    <2>1. AllPacked(inbox)' /\ AllPacked(air)'
      BY <1>2, <1>3, <1>13 DEF WireOrder, AllPacked
    <2>3. Ahead(inbox, frame)' /\ Ahead(air, frame)' /\ Increasing(frame)'
      BY <1>3, <1>14, <1>15 DEF Ahead, Increasing, Later
    <2>4. Increasing(inbox)' /\ Increasing(air)' /\ Ahead(inbox, air)'
      BY <1>3 DEF WireOrder, Ahead, Increasing, Later
    <2> QED
      BY <1>16, <2>1, <2>3, <2>4 DEF WireOrder
  <1>18. ASSUME NEW x \in Position, Past(x) PROVE Past(x)'
    <2>1. Later(frame, x)' /\ Unpacked(x)'
      BY <1>11, <1>12, <1>18 DEF Past, Later
    <2> QED
      BY <1>3, <1>18, <2>1 DEF Past, Later
  <1> QED
    BY <1>17, <1>18

LEMMA FrameSteps ==
    ASSUME BaseInv, WireOrder, FrameStep
    PROVE  WireOrder' /\ (\A x \in Position : Past(x) => Past(x)')
  <1>1. UNCHANGED <<sent, ethRxQueue, txDatagram, txOffset>>
    BY FrameMoves
  <1>2. TxPosition' = TxPosition
    BY <1>1 DEF TxPosition, Taken
  <1>3. \/ frame' = <<>> /\ UNCHANGED <<air, inbox>>
        \/ air' = frame /\ frame' = <<>> /\ UNCHANGED inbox
        \/ air' = <<>> /\ UNCHANGED <<frame, inbox>>
        \/ inbox' = air /\ air' = <<>> /\ UNCHANGED frame
    BY DEF FrameStep, OpenFrame, TransmitFrame, TransmitFails, CloseFrame, LoseFrame, ReceiveFrame,
           packVars
  <1>5. WireOrder'
    BY <1>2, <1>3, EmptyWire DEF WireOrder, AllPacked, Unpacked
  <1>6. \A x \in Position : Past(x) => Past(x)'
    BY <1>2, <1>3, EmptyWire DEF Past, Unpacked
  <1> QED
    BY <1>5, <1>6

-----------------------------------------------------------------------------
(* The receiver.                                                           *)

\* An SDU is taken off the inbox: what comes after it starts behind it.
LEMMA TailPast ==
    ASSUME BaseInv, WireOrder, inbox # <<>>, inbox' = Tail(inbox),
           UNCHANGED <<sent, ethRxQueue, txDatagram, txOffset, frame, air>>
    PROVE  /\ WireOrder'
           /\ \A x \in Position : Past(x) => Past(x)' /\ NotAfter(x, First(Head(inbox)))
           /\ \A x \in Position : NotAfter(x, EndsAt(Head(inbox))) => Past(x)'
  <1> DEFINE s == Head(inbox)
  <1>1. inbox \in Seq(Sdu) /\ air \in Seq(Sdu) /\ frame \in Seq(Sdu)
    BY DEF BaseInv, TypeOK
  <1>2. /\ s = inbox[1] /\ 1 \in 1..Len(inbox) /\ Len(inbox) \in Nat
        /\ inbox' \in Seq(Sdu) /\ Len(inbox') = Len(inbox) - 1
        /\ \A i \in 1..Len(inbox') : inbox'[i] = inbox[i + 1] /\ i + 1 \in 1..Len(inbox)
    BY <1>1, TailFacts
  <1>3. TxPosition' = TxPosition
    BY DEF TxPosition, Taken
  <1>4. EndsAt(s) \in Position /\ TxPosition \in Position
    BY <1>1, <1>2, SduPositions, TxPositionType DEF BaseInv
  <1> HIDE DEF s
  <1>5. Later(inbox', EndsAt(s))
    <2> SUFFICES ASSUME NEW i \in 1..Len(inbox') PROVE NotAfter(EndsAt(s), First(inbox'[i]))
      BY DEF Later
    <2>1. 1 < i + 1
      BY <1>2
    <2> QED
      BY <1>2, <2>1 DEF WireOrder, Increasing
  <1>6. Later(air, EndsAt(s)) /\ Later(frame, EndsAt(s)) /\ NotAfter(EndsAt(s), TxPosition)
    BY <1>2 DEF WireOrder, Ahead, AllPacked, Unpacked
  <1>7. ASSUME NEW x \in Position, NotAfter(x, EndsAt(s))
        PROVE  Past(x)'
    <2>1. Later(inbox', x) /\ Later(air, x) /\ Later(frame, x)
      BY <1>1, <1>2, <1>4, <1>5, <1>6, <1>7, LaterStays
    <2>2. NotAfter(x, TxPosition)
      BY <1>4, <1>6, <1>7, PositionOrder
    <2>3. Later(inbox, x)' /\ Later(air, x)' /\ Later(frame, x)'
      BY <2>1 DEF Later
    <2> QED
      BY <1>3, <2>2, <2>3 DEF Past, Unpacked
  <1>8. ASSUME NEW x \in Position, Past(x)
        PROVE  Past(x)' /\ NotAfter(x, First(s))
    <2>1. NotAfter(x, First(s))
      BY <1>2, <1>8 DEF Past, Later
    <2>2. Later(inbox', x)
      BY <1>2, <1>8 DEF Past, Later
    <2>3. Later(inbox, x)' /\ Later(air, x)' /\ Later(frame, x)'
      BY <1>8, <2>2 DEF Past, Later
    <2> QED
      BY <1>3, <1>8, <2>1, <2>3 DEF Past, Unpacked
  <1>9. WireOrder'
    <2>1. Increasing(inbox')
      <3> SUFFICES ASSUME NEW i \in 1..Len(inbox'), NEW j \in 1..Len(inbox'), i < j
                   PROVE  NotAfter(EndsAt(inbox'[i]), First(inbox'[j]))
        BY DEF Increasing
      <3>1. i + 1 < j + 1
        BY <1>2
      <3> QED
        BY <1>2, <3>1 DEF WireOrder, Increasing
    <2>2. \A i \in 1..Len(inbox') :
             /\ Later(air, EndsAt(inbox'[i])) /\ Later(frame, EndsAt(inbox'[i]))
             /\ NotAfter(EndsAt(inbox'[i]), TxPosition)
      BY <1>2 DEF WireOrder, Ahead, AllPacked, Unpacked
    <2>3. Ahead(inbox', air) /\ Ahead(inbox', frame)
      BY <2>2 DEF Ahead
    <2>4. AllPacked(inbox)'
      BY <1>3, <2>2 DEF AllPacked, Unpacked, EndsAt
    <2>5. AllPacked(air)' /\ AllPacked(frame)'
      BY <1>3 DEF WireOrder, AllPacked, Unpacked, EndsAt
    <2>6. Increasing(inbox)' /\ Increasing(air)' /\ Increasing(frame)'
      BY <2>1 DEF WireOrder, Increasing, EndsAt, First
    <2>7. Ahead(inbox, air)' /\ Ahead(inbox, frame)' /\ Ahead(air, frame)'
      BY <2>3 DEF WireOrder, Ahead, Later, EndsAt, First
    <2> QED
      BY <2>4, <2>5, <2>6, <2>7 DEF WireOrder
  <1> QED
    BY <1>7, <1>8, <1>9 DEF s

\* What a buffer holds once the payload of an SDU is copied into it: what the
\* reassembly had, and bytes of the SDU; each in its place.
LEMMA CopiedBytes ==
    ASSUME BaseInv, InPlace(rxBytes), inbox # <<>>
    PROVE  LET s == Head(inbox)
               at == IF s.frag THEN s.offset ELSE 0
               bytes == Copy(BytesFor(s), s, at)
           IN  /\ bytes \in Seq(Byte) /\ InPlace(bytes)
               /\ \A y \in Written(bytes) :
                     \/ y \in Written(rxBytes)
                     \/ y \in Position /\ Before(First(s), y) /\ NotAfter(y, EndsAt(s))
  <1> DEFINE s == Head(inbox)
             at == IF s.frag THEN s.offset ELSE 0
             old == BytesFor(s)
             bytes == Copy(old, s, at)
  <1>1. /\ s \in Sdu /\ Truthful(s) /\ s.id \in Nat /\ s.len \in Nat /\ s.from \in Nat
        /\ s.offset \in 0..MaxDatagramBytes
        /\ s.from + s.len <= MaxDatagramBytes /\ s.from \in 0..MaxDatagramBytes
        /\ SizeFor(s) \in Nat
    BY HeadSdu, Constants
  <1>2. at = s.from
    BY <1>1 DEF Truthful
  <1>3. old \in Seq(Byte)
    BY <1>1, BytesForFacts DEF BaseInv
  <1>4. \A p \in 1..Len(old) :
           /\ old[p] = Uninitialised \/ old[p][2] = p
           /\ old[p] = Uninitialised \/ old[p] \in Written(rxBytes)
    <2>1. CASE rxActive
      BY <2>1 DEF BytesFor, InPlace, Written
    <2>2. CASE ~rxActive
      <3>1. old = [p \in 1..SizeFor(s) |-> Uninitialised]
        BY <2>2 DEF BytesFor
      <3>2. Len(old) = SizeFor(s)
        BY <1>1, BytesForFacts DEF BaseInv
      <3> HIDE DEF old
      <3> QED
        BY <3>1, <3>2
    <2> QED
      BY <2>1, <2>2
  <1> HIDE DEF old, s, at
  <1>5. /\ bytes \in Seq(Byte) /\ Len(bytes) = Len(old)
        /\ \A p \in 1..Len(old) :
              bytes[p] = IF p \in at + 1..at + s.len THEN <<s.id, s.from + p - at>> ELSE old[p]
    BY <1>1, <1>2, <1>3, CopyFacts
  <1>6. Len(old) \in Nat
    BY <1>3
  <1> HIDE DEF bytes
  <1>7. ASSUME NEW p \in 1..Len(bytes), p \in at + 1..at + s.len
        PROVE  /\ bytes[p] = <<s.id, p>> /\ bytes[p] \in Position
               /\ Before(First(s), bytes[p]) /\ NotAfter(bytes[p], EndsAt(s))
    <2>1. s.from + p - at = p /\ p \in Nat /\ s.from < p /\ p <= s.from + s.len
      BY <1>1, <1>2, <1>5, <1>6, <1>7
    <2>2. bytes[p] = <<s.id, p>>
      BY <1>5, <1>7, <2>1
    <2> QED
      BY <1>1, <2>1, <2>2 DEF Position, Before, NotAfter, First, EndsAt
  <1>8. ASSUME NEW p \in 1..Len(bytes), p \notin at + 1..at + s.len
        PROVE  bytes[p] = old[p] /\ p \in 1..Len(old)
    BY <1>5, <1>8
  <1>9. InPlace(bytes)
    <2> SUFFICES ASSUME NEW p \in 1..Len(bytes)
                 PROVE  bytes[p] = Uninitialised \/ bytes[p][2] = p
      BY DEF InPlace
    <2>1. CASE p \in at + 1..at + s.len
      BY <1>7, <2>1
    <2>2. CASE p \notin at + 1..at + s.len
      BY <1>4, <1>8, <2>2
    <2> QED
      BY <2>1, <2>2
  <1>10. ASSUME NEW y \in Written(bytes)
         PROVE  \/ y \in Written(rxBytes)
                \/ y \in Position /\ Before(First(s), y) /\ NotAfter(y, EndsAt(s))
    <2>1. PICK p \in 1..Len(bytes) : y = bytes[p] /\ y # Uninitialised
      BY <1>10 DEF Written
    <2>2. CASE p \in at + 1..at + s.len
      BY <1>7, <2>1, <2>2
    <2>3. CASE p \notin at + 1..at + s.len
      BY <1>4, <1>8, <2>1, <2>3
    <2> QED
      BY <2>2, <2>3
  <1>11. bytes \in Seq(Byte)
    BY <1>5
  <1> QED
    BY <1>9, <1>10, <1>11 DEF bytes, old, at, s

LossyInv == WireOrder /\ ArrivedInOrder /\ BytesInPlace

\* The SDU's bytes come after all that have arrived, and before what is left.
LEMMA HandleArrived ==
    ASSUME BaseInv, LossyInv, HandleSDUFragment \/ HandleSDUFragmentOOM
    PROVE  LossyInv'
  <1> DEFINE s == Head(inbox)
             bytes == Copy(BytesFor(s), s, IF s.frag THEN s.offset ELSE 0)
  <1>1. /\ inbox # <<>> /\ inbox' = Tail(inbox)
        /\ UNCHANGED <<sent, ethRxQueue, txDatagram, txOffset, frame, air>>
    BY DEF HandleSDUFragment, HandleSDUFragmentOOM, ethVars, loadVars, packVars
  <1>2. /\ WireOrder'
        /\ \A x \in Position : Past(x) => Past(x)' /\ NotAfter(x, First(s))
        /\ \A x \in Position : NotAfter(x, EndsAt(s)) => Past(x)'
    BY <1>1, TailPast DEF LossyInv
  <1>3. /\ bytes \in Seq(Byte) /\ InPlace(bytes)
        /\ \A y \in Written(bytes) :
              \/ y \in Written(rxBytes)
              \/ y \in Position /\ Before(First(s), y) /\ NotAfter(y, EndsAt(s))
    BY <1>1, CopiedBytes DEF LossyInv, BytesInPlace
  <1>4. /\ rxBytes \in Seq(Byte) /\ ethTxQueue \in Seq(Seq(Byte))
    BY DEF BaseInv, TypeOK
  <1>5. \/ rxBytes' = <<>> /\ UNCHANGED ethTxQueue
        \/ rxBytes' = bytes /\ UNCHANGED ethTxQueue
        \/ rxBytes' = <<>> /\ ethTxQueue' = Append(ethTxQueue, bytes)
    <2>1. CASE HandleSDUFragmentOOM
      BY <2>1 DEF HandleSDUFragmentOOM, Release
    <2>2. CASE HandleSDUFragment
      <3>1. HandleFragment(s) \/ HandleWhole(s)
        BY <2>2 DEF HandleSDUFragment
      <3> QED
        BY <1>1, <3>1, HandleOutcomes DEF Deliver, Release
    <2> QED
      BY <2>1, <2>2
  <1>6. First(s) \in Position /\ EndsAt(s) \in Position
    <2>1. inbox \in Seq(Sdu) /\ s = inbox[1] /\ 1 \in 1..Len(inbox)
      BY <1>1, TailFacts DEF BaseInv, TypeOK
    <2> QED
      BY <2>1, SduPositions
  <1> HIDE DEF bytes, s
  <1>7. ASSUME NEW b \in Seq(Byte)
        PROVE  Written(b) \subseteq Position
    <2>1. \A y \in Byte : y \in Position
      BY Constants DEF Byte, Position
    <2> QED
      BY <2>1 DEF Written
  <1>8. /\ \A x \in Written(rxBytes) : Past(x)
        /\ \A i \in Deliveries : \A x \in Written(ethTxQueue[i]) : Past(x)
        /\ \A i \in Deliveries : Earlier(ethTxQueue[i], rxBytes)
        /\ \A i, j \in Deliveries : i < j => Earlier(ethTxQueue[i], ethTxQueue[j])
    BY DEF LossyInv, ArrivedInOrder
  <1>9. \A x \in Written(bytes) : Past(x)'
    <2> TAKE x \in Written(bytes)
    <2>1. CASE x \in Written(rxBytes)
      BY <1>2, <1>4, <1>7, <1>8, <2>1
    <2>2. CASE x \in Position /\ NotAfter(x, EndsAt(s))
      BY <1>2, <2>2
    <2> QED
      BY <1>3, <2>1, <2>2
  <1>10. \A i \in Deliveries : \A x \in Written(ethTxQueue[i]) : Past(x)'
    <2> TAKE i \in Deliveries
    <2>1. ethTxQueue[i] \in Seq(Byte)
      BY <1>4 DEF Deliveries
    <2> QED
      BY <1>2, <1>7, <1>8, <2>1
  <1>11. \A i \in Deliveries : Earlier(ethTxQueue[i], bytes)
    <2> SUFFICES ASSUME NEW i \in Deliveries, NEW x \in Written(ethTxQueue[i]),
                        NEW y \in Written(bytes)
                 PROVE  Before(x, y)
      BY DEF Earlier
    <2>1. x \in Position /\ NotAfter(x, First(s))
      <3>1. ethTxQueue[i] \in Seq(Byte)
        BY <1>4 DEF Deliveries
      <3> QED
        BY <1>2, <1>7, <1>8, <3>1
    <2>2. CASE y \in Written(rxBytes)
      BY <1>8, <2>2 DEF Earlier
    <2>3. CASE y \in Position /\ Before(First(s), y)
      BY <1>6, <2>1, <2>3, PositionOrder
    <2> QED
      BY <1>3, <2>2, <2>3
  <1>12. Written(<<>>) = {} /\ InPlace(<<>>)
    BY DEF Written, InPlace
  <1>13. \A i \in Deliveries : InPlace(ethTxQueue[i])
    BY DEF LossyInv, BytesInPlace
  <1>14. CASE rxBytes' = <<>> /\ UNCHANGED ethTxQueue
    <2>1. ArrivedInOrder'
      BY <1>8, <1>10, <1>12, <1>14 DEF ArrivedInOrder, Earlier, Deliveries
    <2>2. BytesInPlace'
      BY <1>12, <1>13, <1>14 DEF BytesInPlace, Deliveries
    <2> QED
      BY <1>2, <2>1, <2>2 DEF LossyInv
  <1>15. CASE rxBytes' = bytes /\ UNCHANGED ethTxQueue
    <2>1. ArrivedInOrder'
      BY <1>8, <1>9, <1>10, <1>11, <1>15 DEF ArrivedInOrder, Deliveries
    <2>2. BytesInPlace'
      BY <1>3, <1>13, <1>15 DEF BytesInPlace, Deliveries
    <2> QED
      BY <1>2, <2>1, <2>2 DEF LossyInv
  <1>16. CASE rxBytes' = <<>> /\ ethTxQueue' = Append(ethTxQueue, bytes)
    <2>1. /\ Len(ethTxQueue) \in Nat /\ Len(ethTxQueue') = Len(ethTxQueue) + 1
          /\ \A i \in Deliveries : ethTxQueue'[i] = ethTxQueue[i]
          /\ ethTxQueue'[Len(ethTxQueue) + 1] = bytes
      BY <1>3, <1>4, <1>16, AppendFacts DEF Deliveries
    <2>2. ASSUME NEW i \in Deliveries'
          PROVE  \/ i \in Deliveries /\ ethTxQueue'[i] = ethTxQueue[i]
                 \/ i = Len(ethTxQueue) + 1 /\ ethTxQueue'[i] = bytes
      BY <2>1, <2>2 DEF Deliveries
    <2>3. \A i \in Deliveries' : \A x \in Written(ethTxQueue'[i]) : Past(x)'
      BY <1>9, <1>10, <2>2
    <2>4. ASSUME NEW i \in Deliveries', NEW j \in Deliveries', i < j
          PROVE  Earlier(ethTxQueue'[i], ethTxQueue'[j])
      <3>1. i \in Deliveries /\ ethTxQueue'[i] = ethTxQueue[i]
        BY <2>1, <2>4 DEF Deliveries
      <3> QED
        BY <1>8, <1>11, <2>2, <2>4, <3>1
    <2>5. ArrivedInOrder'
      BY <1>12, <1>16, <2>3, <2>4 DEF ArrivedInOrder, Earlier
    <2>6. BytesInPlace'
      BY <1>3, <1>12, <1>13, <1>16, <2>2 DEF BytesInPlace
    <2> QED
      BY <1>2, <2>5, <2>6 DEF LossyInv
  <1> QED
    BY <1>5, <1>14, <1>15, <1>16

LEMMA LossyInit == Init => LossyInv
  <1> SUFFICES ASSUME Init PROVE LossyInv
    OBVIOUS
  <1>1. frame = <<>> /\ air = <<>> /\ inbox = <<>> /\ rxBytes = <<>> /\ ethTxQueue = <<>>
    BY DEF Init
  <1>2. Deliveries = {} /\ Written(rxBytes) = {} /\ InPlace(rxBytes)
    BY <1>1 DEF Deliveries, Written, InPlace
  <1> QED
    BY <1>1, <1>2, EmptyWire DEF LossyInv, WireOrder, ArrivedInOrder, BytesInPlace

LEMMA LossyStep == BaseInv /\ LossyInv /\ [Next]_vars => LossyInv'
  <1> SUFFICES ASSUME BaseInv, LossyInv, [Next]_vars PROVE LossyInv'
    OBVIOUS
  <1>1. CASE \/ (\E size \in Sizes : EnqueueEthRx(size)) \/ LoadDatagram
             \/ PackSdu \/ FrameStep \/ UNCHANGED vars
    <2>1. UNCHANGED <<rxBytes, ethTxQueue>>
      <3>1. CASE FrameStep
        BY <3>1, FrameMoves
      <3>2. CASE ~FrameStep
        BY <1>1, <3>2 DEF EnqueueEthRx, LoadDatagram, PackSdu, rxVars, vars
      <3> QED
        BY <3>1, <3>2
    <2>2. WireOrder' /\ (\A x \in Position : Past(x) => Past(x)')
      <3>1. CASE UNCHANGED vars
        BY <3>1 DEF LossyInv, WireOrder, AllPacked, Ahead, Increasing, Later, Past, Unpacked,
                    TxPosition, Taken, vars, ethVars, loadVars, packVars
      <3> QED
        BY <1>1, <3>1, SenderSteps, PackSteps, FrameSteps DEF LossyInv
    <2>3. ArrivedInOrder'
      BY <2>1, <2>2, QuietArrived DEF BaseInv, LossyInv
    <2>4. BytesInPlace'
      BY <2>1 DEF LossyInv, BytesInPlace, Deliveries
    <2> QED
      BY <2>2, <2>3, <2>4 DEF LossyInv
  <1> QED
    BY <1>1, NextCases, HandleArrived

LEMMA LossyInvariant == Spec => []LossyInv
    BY InitBase, BaseStep, LossyInit, LossyStep, PTL DEF Spec

\* Whatever frames are lost and allocations fail, a byte that is copied into the
\* reassembly buffer or delivered is at the offset it had in the datagram it
\* comes from (the memcpy of DectPhy_HandleSDUFragment).
THEOREM BytesKeepPlace == Spec => []BytesInPlace
  <1>1. LossyInv => BytesInPlace
    BY DEF LossyInv
  <1> QED
    BY <1>1, LossyInvariant, PTL

LEMMA WrittenBytes ==
    ASSUME BaseInv, NEW i \in Deliveries
    PROVE  BytesOf(i) = Written(ethTxQueue[i]) /\ BytesOf(i) \subseteq Position
  <1>1. ethTxQueue[i] \in Seq(Byte)
    BY DEF BaseInv, TypeOK, Deliveries
  <1>2. \A y \in Byte : y \in Position
    BY Constants DEF Byte, Position
  <1> QED
    BY <1>1, <1>2 DEF BytesOf, Written

\* Whatever is lost, deliveries never go back to an earlier datagram.
THEOREM DeliveriesInOrder == Spec => []InOrder
  <1>1. BaseInv /\ LossyInv => InOrder
    <2> SUFFICES ASSUME BaseInv, LossyInv, NEW i \in Deliveries, NEW j \in Deliveries, i < j,
                        NEW x \in BytesOf(i), NEW y \in BytesOf(j)
                 PROVE  x[1] <= y[1]
      BY DEF InOrder
    <2>1. Before(x, y) /\ x \in Position /\ y \in Position
      BY WrittenBytes DEF LossyInv, ArrivedInOrder, Earlier
    <2> QED
      BY <2>1 DEF Before, Position
  <1> QED
    BY <1>1, BaseInvariant, LossyInvariant, PTL

\* Whatever is lost, no byte is delivered twice.
THEOREM DeliveredOnce == Spec => []NoByteTwice
  <1>1. BaseInv /\ LossyInv => NoByteTwice
    <2> SUFFICES ASSUME BaseInv, LossyInv, NEW i \in Deliveries, NEW j \in Deliveries, i # j,
                        NEW x \in BytesOf(i), x \in BytesOf(j)
                 PROVE  FALSE
      BY DEF NoByteTwice
    <2>1. i < j \/ j < i
      BY DEF Deliveries
    <2>2. Before(x, x) /\ x \in Position
      BY <2>1, WrittenBytes DEF LossyInv, ArrivedInOrder, Earlier
    <2> QED
      BY <2>2, PositionOrder
  <1> QED
    BY <1>1, BaseInvariant, LossyInvariant, PTL

-----------------------------------------------------------------------------
(***************************************************************************)
(* When no frame is lost and no allocation fails, the bridge is a first-in *)
(* first-out pipe.  The argument: the SDUs being unpacked, on the air and  *)
(* being packed form one gapless run of bytes from the receiver's position *)
(* to the sender's (StreamInv), so the next SDU is always the one that     *)
(* continues the reassembly (PrefixInv), and what is delivered is intact.  *)
(***************************************************************************)

Lossless == ~Lossy /\ ~AllocFails

StreamAll == StreamInv /\ PrefixInv /\ IntactDelivery

-----------------------------------------------------------------------------
(* Runs of SDUs, for a given sequence S of datagram sizes.                 *)

AfterIn(S, s) ==
    IF s.from + s.len = S[s.id] THEN <<s.id + 1, 0>> ELSE <<s.id, s.from + s.len>>

EndIn(S, f, a) == IF f = <<>> THEN a ELSE AfterIn(S, f[Len(f)])

LinkedIn(S, f, a) ==
    f # <<>> =>
        /\ First(f[1]) = a
        /\ \A i \in 1..Len(f) - 1 : First(f[i + 1]) = AfterIn(S, f[i])

StreamIn(S, in, onAir, fr, rx, tx) ==
    /\ LinkedIn(S, in, rx)
    /\ LinkedIn(S, onAir, EndIn(S, in, rx))
    /\ LinkedIn(S, fr, EndIn(S, onAir, EndIn(S, in, rx)))
    /\ EndIn(S, fr, EndIn(S, onAir, EndIn(S, in, rx))) = tx

LEMMA StreamAsIn ==
    /\ StreamInv <=> StreamIn(sent, inbox, air, frame, RxPosition, TxPosition)
    /\ StreamInv' <=> StreamIn(sent', inbox', air', frame', RxPosition', TxPosition')
  BY DEF StreamInv, StreamIn, Linked, LinkedIn, EndOf, EndIn, After, AfterIn, First

LEMMA EmptyRun ==
    ASSUME NEW S, NEW a
    PROVE  EndIn(S, <<>>, a) = a /\ LinkedIn(S, <<>>, a)
  BY DEF EndIn, LinkedIn

\* Another datagram changes nothing for the SDUs of the earlier ones.
LEMMA RunStays ==
    ASSUME NEW S, NEW T, NEW f \in Seq(Sdu), NEW a,
           \A i \in 1..Len(f) : S[f[i].id] = T[f[i].id]
    PROVE  EndIn(S, f, a) = EndIn(T, f, a) /\ (LinkedIn(S, f, a) <=> LinkedIn(T, f, a))
  <1>1. \A i \in 1..Len(f) : AfterIn(S, f[i]) = AfterIn(T, f[i])
    BY DEF AfterIn
  <1>2. f # <<>> => Len(f) \in 1..Len(f)
    OBVIOUS
  <1>3. \A i \in 1..Len(f) - 1 : i \in 1..Len(f)
    OBVIOUS
  <1> QED
    BY <1>1, <1>2, <1>3 DEF EndIn, LinkedIn

LEMMA RunAppend ==
    ASSUME NEW S, NEW f \in Seq(Sdu), NEW s \in Sdu, NEW a,
           LinkedIn(S, f, a), EndIn(S, f, a) = First(s)
    PROVE  /\ LinkedIn(S, Append(f, s), a)
           /\ EndIn(S, Append(f, s), a) = AfterIn(S, s)
  <1> DEFINE g == Append(f, s)
  <1>1. /\ Len(f) \in Nat /\ Len(g) = Len(f) + 1 /\ g[Len(f) + 1] = s
        /\ \A i \in 1..Len(f) : g[i] = f[i]
        /\ g # <<>>
    BY AppendFacts
  <1>2. EndIn(S, g, a) = AfterIn(S, s)
    BY <1>1 DEF EndIn
  <1>3. First(g[1]) = a
    <2>1. CASE f = <<>>
      BY <1>1, <2>1 DEF EndIn
    <2>2. CASE f # <<>>
      BY <1>1, <2>2 DEF LinkedIn
    <2> QED
      BY <2>1, <2>2
  <1>4. ASSUME NEW i \in 1..Len(g) - 1
        PROVE  First(g[i + 1]) = AfterIn(S, g[i])
    <2>1. CASE i = Len(f)
      <3>1. f # <<>> /\ Len(f) \in 1..Len(f)
        BY <1>1, <2>1
      <3> QED
        BY <1>1, <2>1, <3>1 DEF EndIn
    <2>2. CASE i < Len(f)
      <3>1. i \in 1..Len(f) - 1 /\ i \in 1..Len(f) /\ i + 1 \in 1..Len(f) /\ f # <<>>
        BY <1>1, <2>2
      <3> QED
        BY <1>1, <3>1 DEF LinkedIn
    <2> QED
      BY <1>1, <2>1, <2>2
  <1> QED
    BY <1>2, <1>3, <1>4 DEF LinkedIn

LEMMA RunTail ==
    ASSUME NEW S, NEW f \in Seq(Sdu), f # <<>>, NEW a, LinkedIn(S, f, a)
    PROVE  /\ First(Head(f)) = a
           /\ LinkedIn(S, Tail(f), AfterIn(S, Head(f)))
           /\ EndIn(S, Tail(f), AfterIn(S, Head(f))) = EndIn(S, f, a)
  <1> DEFINE t == Tail(f)
  <1>1. /\ Head(f) = f[1] /\ t \in Seq(Sdu)
        /\ Len(f) \in Nat /\ Len(f) > 0 /\ Len(t) = Len(f) - 1
        /\ \A i \in 1..Len(f) - 1 : t[i] = f[i + 1]
    BY TailFacts
  <1> HIDE DEF t
  <1>2. First(f[1]) = a /\ \A i \in 1..Len(f) - 1 : First(f[i + 1]) = AfterIn(S, f[i])
    BY DEF LinkedIn
  <1>3. CASE t = <<>>
    <2>1. Len(f) = 1
      <3>1. Len(t) = 0
        BY <1>3
      <3> QED
        BY <1>1, <3>1
    <2> QED
      BY <1>1, <1>2, <1>3, <2>1 DEF EndIn, LinkedIn, t
  <1>4. CASE t # <<>>
    <2>1. Len(f) - 1 \in 1..Len(f) - 1 /\ 1 \in 1..Len(f) - 1
      BY <1>1, <1>4
    <2>2. EndIn(S, t, AfterIn(S, Head(f))) = EndIn(S, f, a)
      BY <1>1, <1>4, <2>1 DEF EndIn
    <2>3. First(t[1]) = AfterIn(S, Head(f))
      BY <1>1, <1>2, <2>1
    <2>4. ASSUME NEW i \in 1..Len(t) - 1
          PROVE  First(t[i + 1]) = AfterIn(S, t[i])
      <3>1. i \in 1..Len(f) - 1 /\ i + 1 \in 1..Len(f) - 1
        BY <1>1
      <3> QED
        BY <1>1, <1>2, <3>1
    <2> QED
      BY <1>1, <1>2, <2>2, <2>3, <2>4 DEF LinkedIn, t
  <1> QED
    BY <1>3, <1>4

-----------------------------------------------------------------------------
(* The steps.                                                              *)

StreamVars == <<sent, ethRxQueue, txDatagram, txOffset, rxActive, rxBytes, rxSize,
                rxOffset, ethTxQueue, inbox, air, frame>>

LEMMA EnqueueStream ==
    ASSUME BaseInv, StreamAll, NEW size \in Sizes, EnqueueEthRx(size)
    PROVE  StreamAll'
  <1>1. /\ sent' = Append(sent, size) /\ sent \in Seq(Sizes)
        /\ ethRxQueue' = Append(ethRxQueue, [id |-> Len(sent) + 1, size |-> size])
        /\ ethRxQueue \in Seq(Datagram)
        /\ UNCHANGED <<txDatagram, txOffset, rxActive, rxBytes, rxSize, rxOffset,
                       ethTxQueue, inbox, air, frame>>
    BY DEF EnqueueEthRx, BaseInv, TypeOK, loadVars, packVars, rxVars
  <1>2. /\ Len(sent) \in Nat /\ Len(sent') = Len(sent) + 1
        /\ \A i \in 1..Len(sent) : sent'[i] = sent[i]
    BY <1>1, AppendFacts
  <1>3. Len(ethRxQueue) \in Nat /\ Len(ethRxQueue') = Len(ethRxQueue) + 1
    BY <1>1
  <1>4. TxPosition' = TxPosition /\ RxPosition' = RxPosition
    <2>1. Taken' = Taken
      BY <1>2, <1>3 DEF Taken
    <2> QED
      BY <1>1, <2>1 DEF TxPosition, RxPosition
  <1>5. ASSUME NEW f \in Seq(Sdu), AllTruthful(f)
        PROVE  \A i \in 1..Len(f) : sent[f[i].id] = sent'[f[i].id]
    <2> TAKE i \in 1..Len(f)
    <2>1. f[i].id <= Len(sent) /\ f[i] \in Sdu
      BY <1>5 DEF AllTruthful, Truthful
    <2>2. f[i].id \in 1..Len(sent)
      <3>1. f[i].id \in 1..MaxDatagrams
        BY <2>1 DEF Sdu
      <3> QED
        BY <1>2, <2>1, <3>1, Constants
    <2> QED
      BY <1>2, <2>2
  <1>6. ASSUME NEW f \in Seq(Sdu), AllTruthful(f), NEW a
        PROVE  /\ EndIn(sent, f, a) = EndIn(sent', f, a)
               /\ LinkedIn(sent, f, a) <=> LinkedIn(sent', f, a)
    BY <1>5, <1>6, RunStays
  <1>7. /\ inbox \in Seq(Sdu) /\ air \in Seq(Sdu) /\ frame \in Seq(Sdu)
        /\ AllTruthful(inbox) /\ AllTruthful(air) /\ AllTruthful(frame)
    BY DEF BaseInv, TypeOK, WireInv
  <1>8. StreamIn(sent', inbox, air, frame, RxPosition, TxPosition)
    BY <1>6, <1>7, StreamAsIn DEF StreamAll, StreamIn
  <1>9. StreamInv'
    BY <1>1, <1>4, <1>8, StreamAsIn
  <1>10. Len(ethTxQueue) \in Nat
    BY DEF BaseInv, TypeOK
  <1>11. PrefixInv'
    BY <1>1, <1>2, <1>10 DEF StreamAll, PrefixInv
  <1>12. IntactDelivery'
    BY <1>1, <1>2, <1>10 DEF StreamAll, IntactDelivery
  <1> QED
    BY <1>9, <1>11, <1>12 DEF StreamAll

\* A step that leaves the datagrams and the receiver alone keeps what was
\* delivered and reassembled right.
LEMMA QuietReceiver ==
    ASSUME StreamAll, UNCHANGED <<sent, rxActive, rxBytes, rxSize, rxOffset, ethTxQueue>>
    PROVE  PrefixInv' /\ IntactDelivery' /\ RxPosition' = RxPosition
  BY DEF StreamAll, PrefixInv, IntactDelivery, RxPosition

LEMMA LoadStream ==
    ASSUME BaseInv, StreamAll, LoadDatagram
    PROVE  StreamAll'
  <1>1. /\ UNCHANGED <<sent, rxActive, rxBytes, rxSize, rxOffset, ethTxQueue,
                       inbox, air, frame>>
        /\ ethRxQueue \in Seq(Datagram) /\ ethRxQueue # <<>>
        /\ ethRxQueue' = Tail(ethRxQueue)
        /\ txDatagram = NoDatagram /\ txOffset' = 0
        /\ txDatagram' = Head(ethRxQueue) /\ sent \in Seq(Sizes)
    BY DEF LoadDatagram, BaseInv, TypeOK, packVars, rxVars
  <1>2. /\ Len(ethRxQueue) \in Nat /\ Len(ethRxQueue') = Len(ethRxQueue) - 1
        /\ Head(ethRxQueue) \in Datagram
    BY <1>1, TailFacts
  <1>3. txDatagram' # NoDatagram
    BY <1>1, <1>2, Constants DEF NoDatagram, Datagram
  <1>4. Len(sent) \in Nat
    BY <1>1
  <1>5. Taken' = Taken + 1
    BY <1>1, <1>2, <1>4 DEF Taken
  <1>6. TxPosition' = TxPosition
    BY <1>1, <1>3, <1>5 DEF TxPosition
  <1>7. StreamInv'
    BY <1>1, <1>6, QuietReceiver, StreamAsIn DEF StreamAll
  <1> QED
    BY <1>1, <1>7, QuietReceiver DEF StreamAll

LEMMA PackStream ==
    ASSUME BaseInv, StreamAll, PackSdu
    PROVE  StreamAll'
  <1>1. /\ frame' = Append(frame, NextSdu) /\ frame \in Seq(Sdu)
        /\ txDatagram # NoDatagram
        /\ UNCHANGED <<sent, ethRxQueue, rxActive, rxBytes, rxSize, rxOffset,
                       ethTxQueue, inbox, air>>
    BY DEF PackSdu, CanPack, ethVars, rxVars, BaseInv, TypeOK
  <1>2. /\ NextSdu \in Sdu /\ NextSdu.id = Taken /\ NextSdu.from = txOffset
        /\ NextSdu.len = SduSize
    BY PackedSdu DEF BaseInv, PackSdu
  <1>3. First(NextSdu) = TxPosition
    BY <1>1, <1>2 DEF First, TxPosition
  <1>4. AfterIn(sent, NextSdu) = TxPosition'
    <2>1. /\ txOffset + txRemaining = sent[Taken]
          /\ txOffset \in Nat /\ txRemaining \in Nat /\ SduSize \in Nat
          /\ Taken' = Taken
      <3>1. txOffset + txRemaining = sent[Taken]
        BY <1>1 DEF BaseInv, SenderInv
      <3>2. txOffset \in Nat /\ txRemaining \in Nat
        BY Constants DEF BaseInv, TypeOK
      <3>3. SduSize \in Nat
        BY PackedSdu, Constants DEF BaseInv, PackSdu
      <3> QED
        BY <1>1, <3>1, <3>2, <3>3 DEF Taken
    <2>2. txOffset + SduSize = sent[Taken] <=> txRemaining = SduSize
      BY <2>1
    <2>3. CASE txRemaining = SduSize
      <3>1. txDatagram' = NoDatagram
        BY <2>3 DEF PackSdu
      <3> QED
        BY <1>2, <2>1, <2>2, <2>3, <3>1 DEF AfterIn, TxPosition
    <2>4. CASE txRemaining # SduSize
      <3>1. txDatagram' = txDatagram /\ txOffset' = txOffset + SduSize
        BY <2>4 DEF PackSdu
      <3> QED
        BY <1>1, <1>2, <2>1, <2>2, <2>4, <3>1 DEF AfterIn, TxPosition
    <2> QED
      BY <2>3, <2>4
  <1>5. StreamInv'
    <2> DEFINE b == EndIn(sent, air, EndIn(sent, inbox, RxPosition))
    <2>1. /\ LinkedIn(sent, inbox, RxPosition)
          /\ LinkedIn(sent, air, EndIn(sent, inbox, RxPosition))
          /\ LinkedIn(sent, frame, b) /\ EndIn(sent, frame, b) = TxPosition
      BY StreamAsIn DEF StreamAll, StreamIn
    <2>2. LinkedIn(sent, frame', b) /\ EndIn(sent, frame', b) = TxPosition'
      BY <1>1, <1>2, <1>3, <1>4, <2>1, RunAppend
    <2>3. StreamIn(sent, inbox, air, frame', RxPosition, TxPosition')
      BY <2>1, <2>2 DEF StreamIn
    <2> QED
      BY <1>1, <2>3, QuietReceiver, StreamAsIn
  <1> QED
    BY <1>1, <1>5, QuietReceiver DEF StreamAll

LEMMA FrameStream ==
    ASSUME BaseInv, StreamAll, FrameStep, Lossless
    PROVE  StreamAll'
  <1>1. /\ UNCHANGED <<sent, ethRxQueue, txDatagram, txOffset, rxActive, rxBytes,
                       rxSize, rxOffset, ethTxQueue>>
        /\ TxPosition' = TxPosition
    BY FrameMoves DEF TxPosition, Taken
  <1>2. \/ frame' = frame /\ air' = air /\ inbox' = inbox
        \/ air = <<>> /\ air' = frame /\ frame' = <<>> /\ inbox' = inbox
        \/ inbox = <<>> /\ inbox' = air /\ air' = <<>> /\ frame' = frame
    <2>1. ASSUME NEW bytes \in SlotBytes, OpenFrame(bytes)
          PROVE  frame' = frame /\ air' = air /\ inbox' = inbox
      BY <2>1 DEF OpenFrame, BaseInv, SenderInv
    <2>2. ASSUME TransmitFrame
          PROVE  air = <<>> /\ air' = frame /\ frame' = <<>> /\ inbox' = inbox
      BY <2>2 DEF TransmitFrame, CloseFrame
    <2>3. ASSUME ReceiveFrame
          PROVE  inbox = <<>> /\ inbox' = air /\ air' = <<>> /\ frame' = frame
      BY <2>3 DEF ReceiveFrame, packVars
    <2>4. ~TransmitFails /\ ~LoseFrame
      BY DEF Lossless, TransmitFails, LoseFrame
    <2> QED
      BY <2>1, <2>2, <2>3, <2>4 DEF FrameStep
  <1>3. StreamIn(sent, inbox', air', frame', RxPosition, TxPosition)
    BY <1>2, EmptyRun, StreamAsIn DEF StreamAll, StreamIn
  <1>4. StreamInv'
    BY <1>1, <1>3, QuietReceiver, StreamAsIn
  <1> QED
    BY <1>1, <1>4, QuietReceiver DEF StreamAll

\* The SDU the receiver unpacks continues the datagram it is reassembling, or
\* starts the next one.
LEMMA HeadContinues ==
    ASSUME BaseInv, StreamAll, NEW s, s = Head(inbox), inbox # <<>>
    PROVE  /\ s.id = Len(ethTxQueue) + 1 /\ s.from = OffsetFor(s)
           /\ SizeFor(s) = sent[s.id]
           /\ s.frag => s.offset = s.from
           /\ ~s.frag => s.from = 0 /\ s.len = sent[s.id]
           /\ s.from + s.len <= sent[s.id]
  <1>1. First(s) = RxPosition
    <2>1. inbox \in Seq(Sdu) /\ LinkedIn(sent, inbox, RxPosition)
      BY StreamAsIn DEF BaseInv, TypeOK, StreamAll, StreamIn
    <2> QED
      BY <2>1, RunTail
  <1>2. s.id = Len(ethTxQueue) + 1 /\ s.from = OffsetFor(s)
    BY <1>1 DEF First, RxPosition, OffsetFor
  <1>3. Truthful(s)
    BY HeadSdu
  <1>4. SizeFor(s) = sent[s.id]
    BY <1>2, <1>3 DEF SizeFor, Truthful, StreamAll, PrefixInv
  <1> QED
    BY <1>2, <1>3, <1>4 DEF Truthful

LEMMA HandleStream ==
    ASSUME BaseInv, StreamAll, HandleSDUFragment
    PROVE  StreamAll'
  <1> DEFINE s == Head(inbox)
             k == Len(ethTxQueue) + 1
             at == IF s.frag THEN s.offset ELSE 0
             bytes == Copy(BytesFor(s), s, at)
  <1>1. /\ inbox # <<>> /\ inbox' = Tail(inbox)
        /\ HandleFragment(s) \/ HandleWhole(s)
        /\ UNCHANGED <<sent, ethRxQueue, txDatagram, txOffset, air, frame>>
    BY DEF HandleSDUFragment, ethVars, loadVars, packVars
  <1>2. /\ s \in Sdu /\ s.id \in 1..Len(sent) /\ s.len \in Nat /\ s.len > 0
        /\ s.from \in Nat /\ s.from \in 0..MaxDatagramBytes
        /\ s.from + s.len <= MaxDatagramBytes
        /\ sent[s.id] \in Nat /\ SizeFor(s) \in Nat
    <2>1. /\ s \in Sdu /\ s.id \in 1..Len(sent) /\ s.len \in 1..MaxDatagramBytes
          /\ s.from \in 0..MaxDatagramBytes /\ sent[s.id] \in Sizes
          /\ s.from + s.len <= MaxDatagramBytes /\ SizeFor(s) \in 1..MaxDatagramBytes
          /\ s.len > 0
      BY <1>1, HeadSdu, Constants
    <2> QED
      BY <2>1, Constants
  <1>3. /\ s.id = k /\ s.from = OffsetFor(s) /\ SizeFor(s) = sent[k]
        /\ at = s.from
        /\ ~s.frag => s.from = 0 /\ s.len = sent[k]
        /\ s.from + s.len <= sent[k]
    BY <1>1, HeadContinues
  <1>4. /\ bytes \in Seq(Byte) /\ Len(bytes) = sent[k]
        /\ \A p \in 1..s.from + s.len : bytes[p] = <<k, p>>
        /\ bytes = [p \in 1..sent[k] |-> bytes[p]]
    <2>1. BytesFor(s) \in Seq(Byte) /\ Len(BytesFor(s)) = sent[k]
      BY <1>2, <1>3, BytesForFacts DEF BaseInv
    <2>2. /\ bytes \in Seq(Byte) /\ Len(bytes) = sent[k]
          /\ \A p \in 1..sent[k] :
                bytes[p] = IF p \in at + 1..at + s.len
                           THEN <<s.id, s.from + p - at>> ELSE BytesFor(s)[p]
      <3>1. at \in 0..MaxDatagramBytes
        BY <1>2, <1>3
      <3>2. s \in Sdu /\ s.from + s.len <= MaxDatagramBytes
        BY <1>2
      <3> HIDE DEF s, at
      <3> QED
        BY <2>1, <3>1, <3>2, CopyFacts
    <2>3. ASSUME NEW p \in 1..s.from + s.len
          PROVE  bytes[p] = <<k, p>>
      <3>1. p \in 1..sent[k]
        BY <1>2, <1>3, <2>3
      <3>2. CASE p \in at + 1..at + s.len
        <4>1. s.from + p - at = p
          BY <1>2, <1>3, <3>1
        <4> QED
          BY <1>3, <2>2, <3>1, <3>2, <4>1
      <3>3. CASE p \notin at + 1..at + s.len
        <4>1. p <= s.from
          BY <1>2, <1>3, <3>1, <3>3
        <4>2. rxActive /\ s.from = rxOffset /\ p \in 1..rxOffset
          BY <1>2, <1>3, <3>1, <4>1 DEF OffsetFor
        <4>3. BytesFor(s)[p] = <<k, p>>
          BY <4>2 DEF BytesFor, StreamAll, PrefixInv
        <4> QED
          BY <2>2, <3>1, <3>3, <4>3
      <3> QED
        BY <3>2, <3>3
    <2> QED
      BY <2>2, <2>3
  <1>5. StreamIn(sent, Tail(inbox), air, frame, AfterIn(sent, s), TxPosition)
    <2>1. inbox \in Seq(Sdu)
      BY DEF BaseInv, TypeOK
    <2>2. StreamIn(sent, inbox, air, frame, RxPosition, TxPosition)
      BY StreamAsIn DEF StreamAll
    <2>3. /\ LinkedIn(sent, Tail(inbox), AfterIn(sent, s))
          /\ EndIn(sent, Tail(inbox), AfterIn(sent, s)) = EndIn(sent, inbox, RxPosition)
      BY <1>1, <2>1, <2>2, RunTail DEF StreamIn
    <2> QED
      BY <2>2, <2>3 DEF StreamIn
  <1>6. TxPosition' = TxPosition
    BY <1>1 DEF TxPosition, Taken
  <1>7. \/ /\ s.from + s.len < sent[k]
           /\ rxActive' /\ rxBytes' = bytes /\ rxSize' = sent[k]
           /\ rxOffset' = s.from + s.len
           /\ ethTxQueue' = ethTxQueue
        \/ /\ s.from + s.len = sent[k]
           /\ ethTxQueue' = Append(ethTxQueue, bytes) /\ ~rxActive'
    <2>1. s.frag => s.offset = s.from
      BY <1>3
    <2>2. \/ s.frag /\ s.offset + s.len > SizeFor(s)
          \/ /\ s.frag /\ OffsetFor(s) + s.len < SizeFor(s)
             /\ rxActive' = TRUE /\ rxBytes' = bytes /\ rxSize' = SizeFor(s)
             /\ rxOffset' = OffsetFor(s) + s.len
             /\ ethTxQueue' = ethTxQueue
          \/ /\ s.frag => OffsetFor(s) + s.len >= SizeFor(s)
             /\ Deliver(bytes)
      BY <1>1, HandleOutcomes
    <2>3. ~(s.frag /\ s.offset + s.len > SizeFor(s))
      BY <1>2, <1>3, <2>1
    <2>4. CASE Deliver(bytes) /\ (s.frag => OffsetFor(s) + s.len >= SizeFor(s))
      <3>1. s.from + s.len = sent[k]
        BY <1>2, <1>3, <2>4
      <3> QED
        BY <2>4, <3>1 DEF Deliver, Release
    <2> QED
      BY <1>3, <2>2, <2>3, <2>4
  <1> HIDE DEF bytes, s
  <1>8. Len(ethTxQueue) \in Nat /\ ethTxQueue \in Seq(Seq(Byte)) /\ Len(ethTxQueue) < Len(sent)
    <2>1. ethTxQueue \in Seq(Seq(Byte)) /\ sent \in Seq(Sizes)
      BY DEF BaseInv, TypeOK
    <2> QED
      BY <1>2, <1>3, <2>1
  <1>9. CASE /\ s.from + s.len < sent[k]
             /\ rxActive' /\ rxBytes' = bytes /\ rxSize' = sent[k]
             /\ rxOffset' = s.from + s.len
             /\ ethTxQueue' = ethTxQueue
    <2>1. RxPosition' = AfterIn(sent, s)
      BY <1>2, <1>3, <1>9 DEF RxPosition, AfterIn
    <2>2. StreamInv'
      BY <1>1, <1>5, <1>6, <2>1, StreamAsIn
    <2>3. PrefixInv'
      <3>1. \A p \in 1..rxOffset' : rxBytes'[p] = <<k, p>>
        BY <1>4, <1>9
      <3>2. Len(ethTxQueue') < Len(sent') /\ rxSize' = sent'[Len(ethTxQueue') + 1]
        BY <1>1, <1>8, <1>9
      <3> QED
        BY <1>9, <3>1, <3>2 DEF PrefixInv
    <2>4. IntactDelivery'
      BY <1>1, <1>9 DEF StreamAll, IntactDelivery
    <2> QED
      BY <2>2, <2>3, <2>4 DEF StreamAll
  <1>10. CASE /\ s.from + s.len = sent[k]
              /\ ethTxQueue' = Append(ethTxQueue, bytes) /\ ~rxActive'
    <2>1. Len(ethTxQueue') = k
      BY <1>8, <1>10
    <2>2. RxPosition' = AfterIn(sent, s)
      BY <1>2, <1>3, <1>10, <2>1 DEF RxPosition, AfterIn
    <2>3. StreamInv'
      BY <1>1, <1>5, <1>6, <2>2, StreamAsIn
    <2>4. PrefixInv'
      BY <1>10 DEF PrefixInv
    <2>5. bytes = Original(k, sent[k])
      <3>1. \A p \in 1..sent[k] : bytes[p] = <<k, p>>
        BY <1>4, <1>10
      <3> QED
        BY <1>4, <3>1 DEF Original
    <2>6. \A i \in 1..Len(ethTxQueue') : ethTxQueue'[i] = Original(i, sent[i])
      <3> TAKE i \in 1..Len(ethTxQueue')
      <3>1. CASE i \in 1..Len(ethTxQueue)
        BY <1>4, <1>8, <1>10, <3>1, AppendFacts DEF StreamAll, IntactDelivery
      <3>2. CASE i = k
        <4>1. ethTxQueue'[k] = bytes
          BY <1>4, <1>8, <1>10, AppendFacts
        <4> QED
          BY <2>5, <3>2, <4>1
      <3> QED
        BY <1>8, <2>1, <3>1, <3>2
    <2>7. IntactDelivery'
      <3>1. Len(ethTxQueue') <= Len(sent')
        BY <1>1, <1>2, <1>3, <2>1
      <3> QED
        BY <1>1, <2>6, <3>1 DEF IntactDelivery, Original
    <2> QED
      BY <2>3, <2>4, <2>7 DEF StreamAll
  <1> QED
    BY <1>7, <1>9, <1>10

-----------------------------------------------------------------------------
(* The theorems.                                                           *)

LEMMA InitStream == Init => StreamAll
  <1> SUFFICES ASSUME Init PROVE StreamAll
    OBVIOUS
  <1>1. TxPosition = <<1, 0>> /\ RxPosition = <<1, 0>>
    BY DEF Init, TxPosition, RxPosition, Taken
  <1>2. StreamIn(sent, inbox, air, frame, RxPosition, TxPosition)
    BY <1>1, EmptyRun DEF Init, StreamIn
  <1>3. PrefixInv /\ IntactDelivery
    BY DEF Init, PrefixInv, IntactDelivery
  <1> QED
    BY <1>2, <1>3, StreamAsIn DEF StreamAll

LEMMA StreamStep == Lossless /\ BaseInv /\ StreamAll /\ [Next]_vars => StreamAll'
  <1> SUFFICES ASSUME Lossless, BaseInv, StreamAll, [Next]_vars
               PROVE  StreamAll'
    OBVIOUS
  <1>1. CASE Next
    <2>1. ~HandleSDUFragmentOOM
      BY DEF Lossless, HandleSDUFragmentOOM
    <2> QED
      BY <1>1, <2>1, NextCases, EnqueueStream, LoadStream, PackStream, FrameStream,
         HandleStream
  <1>2. CASE UNCHANGED vars
    <2>1. UNCHANGED StreamVars
      BY <1>2 DEF vars, ethVars, loadVars, packVars, rxVars, StreamVars
    <2>2. TxPosition' = TxPosition
      BY <2>1 DEF TxPosition, Taken, StreamVars
    <2> QED
      BY <2>1, <2>2, QuietReceiver, StreamAsIn DEF StreamVars, StreamAll
  <1> QED
    BY <1>1, <1>2

LEMMA LosslessInvariants ==
    ASSUME Lossless
    PROVE  Spec => [](BaseInv /\ StreamAll)
  <1>1. Init => BaseInv /\ StreamAll
    BY InitBase, InitStream
  <1>2. (BaseInv /\ StreamAll) /\ [Next]_vars => (BaseInv /\ StreamAll)'
    BY BaseStep, StreamStep
  <1> QED
    BY <1>1, <1>2, PTL DEF Spec

\* While no frame is lost and no allocation fails, the bytes between the
\* receiver and the sender form one gapless run, and a reassembly holds the
\* first bytes of the next datagram due: no header arithmetic of
\* DectPhy_PackFrame ever skips, repeats or misplaces a byte.
THEOREM LosslessStream ==
    ASSUME Lossless
    PROVE  Spec => [](StreamInv /\ PrefixInv)
  <1>1. StreamAll => StreamInv /\ PrefixInv
    BY DEF StreamAll
  <1> QED
    BY <1>1, LosslessInvariants, PTL

\* While no frame is lost and no allocation fails, the i-th datagram put on
\* ethTxQueue is the i-th one taken from Ethernet, whole and unchanged.
THEOREM LosslessDelivery ==
    ASSUME Lossless
    PROVE  Spec => []IntactDelivery
  <1>1. StreamAll => IntactDelivery
    BY DEF StreamAll
  <1> QED
    BY <1>1, LosslessInvariants, PTL

-----------------------------------------------------------------------------
(* Refinement.                                                             *)

PipeSent == [i \in 1..Len(sent) |-> Original(i, sent[i])]
PipeDatagram == {Original(i, n) : i \in 1..MaxDatagrams, n \in Sizes}

\* A datagram from Ethernet is a Send of the pipe.
LEMMA EnqueueSends ==
    ASSUME BaseInv, NEW size \in Sizes, EnqueueEthRx(size)
    PROVE  \E d \in PipeDatagram : PipeSent' = Append(PipeSent, d) /\ ethTxQueue' = ethTxQueue
  <1> DEFINE k == Len(sent) + 1
             d == Original(k, size)
  <1>1. /\ sent \in Seq(Sizes) /\ Len(sent) \in Nat /\ Len(sent) < MaxDatagrams
        /\ sent' = Append(sent, size) /\ ethTxQueue' = ethTxQueue
    BY DEF EnqueueEthRx, BaseInv, TypeOK, rxVars
  <1>2. /\ Len(sent') = k /\ sent'[k] = size
        /\ \A i \in 1..Len(sent) : sent'[i] = sent[i]
    BY <1>1, AppendFacts
  <1>3. d \in PipeDatagram
    <2>1. Len(sent) + 1 \in 1..MaxDatagrams
      BY <1>1, Constants
    <2>2. \E i \in 1..MaxDatagrams, n \in Sizes : d = Original(i, n)
      <3> HIDE DEF d
      <3>1. d = Original(Len(sent) + 1, size)
        BY DEF d
      <3> QED
        BY <2>1, <3>1, Zenon
    <2> HIDE DEF d
    <2> QED
      BY <2>2 DEF PipeDatagram
  <1> HIDE DEF d
  <1>4. PipeSent' = [i \in 1..k |-> Original(i, sent'[i])]
    BY <1>2 DEF PipeSent, Original
  <1>5. PipeSent' = [i \in 1..k |-> IF i = k THEN d ELSE Original(i, sent[i])]
    <2>1. \A i \in 1..k : Original(i, sent'[i]) = IF i = k THEN d ELSE Original(i, sent[i])
      <3> TAKE i \in 1..k
      <3>1. CASE i = k
        BY <1>2, <3>1 DEF d
      <3>2. CASE i # k
        <4>1. i \in 1..Len(sent)
          BY <1>1, <3>2
        <4> QED
          BY <1>2, <3>2, <4>1
      <3> QED
        BY <3>1, <3>2
    <2> QED
      BY <1>4, <2>1
  <1>6. Append(PipeSent, d) = [i \in 1..k |-> IF i = k THEN d ELSE Original(i, sent[i])]
    <2>1. Len(PipeSent) = Len(sent)
      BY <1>1 DEF PipeSent
    <2>2. Append(PipeSent, d) = [i \in 1..Len(PipeSent) + 1 |->
                                    IF i = Len(PipeSent) + 1 THEN d ELSE PipeSent[i]]
      BY <1>1 DEF PipeSent
    <2>3. \A i \in 1..k : (IF i = k THEN d ELSE PipeSent[i])
                          = (IF i = k THEN d ELSE Original(i, sent[i]))
      <3> TAKE i \in 1..k
      <3>1. i # k => i \in 1..Len(sent)
        BY <1>1
      <3> QED
        BY <3>1 DEF PipeSent
    <2> QED
      BY <2>1, <2>2, <2>3
  <1> QED
    BY <1>1, <1>3, <1>5, <1>6

\* Every other step leaves what was sent alone.
LEMMA OthersSendNothing ==
    ASSUME \/ LoadDatagram \/ PackSdu \/ FrameStep
           \/ HandleSDUFragment \/ HandleSDUFragmentOOM \/ UNCHANGED vars
    PROVE  sent' = sent
  <1>1. FrameStep => sent' = sent
    BY FrameMoves
  <1> QED
    BY <1>1 DEF LoadDatagram, PackSdu, HandleSDUFragment, HandleSDUFragmentOOM, vars, ethVars

\* Only the handler of SDUs delivers, and at most one datagram at a time.
LEMMA OneDelivery ==
    ASSUME BaseInv, [Next]_vars
    PROVE  \/ ethTxQueue' = ethTxQueue
           \/ /\ Len(ethTxQueue') = Len(ethTxQueue) + 1
              /\ sent' = sent
              /\ \E b : ethTxQueue' = Append(ethTxQueue, b)
  <1>1. CASE HandleSDUFragment
    <2>1. sent' = sent /\ ethTxQueue \in Seq(Seq(Byte)) /\ inbox # <<>>
      BY <1>1 DEF HandleSDUFragment, ethVars, BaseInv, TypeOK
    <2>2. HandleFragment(Head(inbox)) \/ HandleWhole(Head(inbox))
      BY <1>1 DEF HandleSDUFragment
    <2>3. \/ ethTxQueue' = ethTxQueue
          \/ \E b : ethTxQueue' = Append(ethTxQueue, b)
      BY <2>2 DEF HandleFragment, HandleWhole, Deliver
    <2> QED
      BY <2>1, <2>3
  <1>2. CASE HandleSDUFragmentOOM \/ LoadDatagram \/ PackSdu \/ UNCHANGED vars
    BY <1>2 DEF HandleSDUFragmentOOM, LoadDatagram, PackSdu, vars, rxVars
  <1>3. CASE FrameStep
    BY <1>3, FrameMoves
  <1>4. CASE \E size \in Sizes : EnqueueEthRx(size)
    BY <1>4 DEF EnqueueEthRx, rxVars
  <1> QED
    BY <1>1, <1>2, <1>3, <1>4, NextCases

LEMMA SequenceTypes ==
    ASSUME BaseInv
    PROVE  /\ ethTxQueue \in Seq(Seq(Byte)) /\ Len(ethTxQueue) \in Nat
           /\ sent \in Seq(Sizes) /\ Len(sent) \in Nat
  <1>1. ethTxQueue \in Seq(Seq(Byte)) /\ sent \in Seq(Sizes)
    BY DEF BaseInv, TypeOK
  <1> QED
    BY <1>1

\* Every step sends a datagram, delivers the next one, or leaves the pipe alone.
LEMMA PipeStep ==
    ASSUME Lossless, BaseInv, BaseInv', StreamAll, StreamAll', [Next]_vars
    PROVE  [Pipe!PipeNext]_(Pipe!pipeVars)
  <1>1. CASE \E size \in Sizes : EnqueueEthRx(size)
    <2>1. \E d \in PipeDatagram : PipeSent' = Append(PipeSent, d) /\ ethTxQueue' = ethTxQueue
      BY <1>1, EnqueueSends
    <2>2. PICK d \in PipeDatagram : PipeSent' = Append(PipeSent, d) /\ ethTxQueue' = ethTxQueue
      BY <2>1
    <2>3. Pipe!Send(d)
      BY <2>2, Zenon DEF Pipe!Send, PipeSent
    <2>4. Pipe!PipeNext
      BY <2>2, <2>3 DEF Pipe!PipeNext, PipeDatagram
    <2> QED
      BY <2>4
  <1>2. CASE ~\E size \in Sizes : EnqueueEthRx(size)
    <2>1. sent' = sent
      BY <1>2, NextCases, OthersSendNothing
    <2>2. PipeSent' = PipeSent
      BY <2>1 DEF PipeSent, Original
    <2>3. CASE ethTxQueue' = ethTxQueue
      BY <2>2, <2>3 DEF Pipe!pipeVars, PipeSent
    <2>4. CASE /\ Len(ethTxQueue') = Len(ethTxQueue) + 1
               /\ \E b : ethTxQueue' = Append(ethTxQueue, b)
      <3> DEFINE k == Len(ethTxQueue) + 1
      <3>1. PICK b : ethTxQueue' = Append(ethTxQueue, b)
        BY <2>4
      <3>2. /\ ethTxQueue \in Seq(Seq(Byte)) /\ Len(ethTxQueue) \in Nat
            /\ sent \in Seq(Sizes) /\ Len(sent) \in Nat
        BY SequenceTypes
      <3>3. ethTxQueue'[k] = b
        BY <3>1, <3>2
      <3>4. k <= Len(sent) /\ ethTxQueue'[k] = Original(k, sent[k])
        <4>1. Len(ethTxQueue') <= Len(sent')
          BY DEF StreamAll, IntactDelivery
        <4>2. k \in 1..Len(ethTxQueue')
          BY <2>4, <3>2
        <4>3. ethTxQueue'[k] = Original(k, sent'[k])
          BY <4>2 DEF StreamAll, IntactDelivery, Original
        <4> QED
          BY <2>1, <2>4, <4>1, <4>3
      <3>5. Len(PipeSent) = Len(sent) /\ PipeSent[k] = Original(k, sent[k])
        BY <3>2, <3>4 DEF PipeSent
      <3>6. /\ Len(ethTxQueue) < Len(PipeSent)
            /\ ethTxQueue' = Append(ethTxQueue, PipeSent[k])
            /\ PipeSent' = PipeSent
        BY <2>2, <3>1, <3>2, <3>3, <3>4, <3>5
      <3> QED
        BY <3>6 DEF Pipe!PipeNext, Pipe!Receive, PipeSent
    <2> QED
      BY <2>3, <2>4, OneDelivery
  <1> QED
    BY <1>1, <1>2

\* While no frame is lost and no allocation fails, the two devices implement
\* the first-in first-out pipe of module DatagramPipe.
THEOREM LosslessPipe ==
    ASSUME Lossless
    PROVE  Spec => ImplementsPipe
  <1>1. Init => Pipe!PipeInit
    <2> SUFFICES ASSUME Init PROVE Pipe!PipeInit
      OBVIOUS
    <2>1. Len(sent) = 0 /\ ethTxQueue = <<>>
      BY DEF Init
    <2>2. [i \in 1..Len(sent) |-> Original(i, sent[i])] = <<>>
      BY <2>1
    <2> QED
      BY <2>1, <2>2 DEF Pipe!PipeInit
  <1>2. /\ BaseInv /\ StreamAll /\ BaseInv' /\ StreamAll' /\ [Next]_vars
        => [Pipe!PipeNext]_(Pipe!pipeVars)
    BY PipeStep
  <1> QED
    BY <1>1, <1>2, LosslessInvariants, PTL DEF Spec, ImplementsPipe, Pipe!PipeSpec
=============================================================================
