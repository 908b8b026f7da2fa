--------------------------- MODULE Fragmentation ---------------------------
(***************************************************************************)
(* One direction of the Ethernet bridge over DECT NR+ slots, as            *)
(* src/phy_impl/phy_main.c implements it on both devices:                  *)
(*                                                                         *)
(*   ethRxQueue -> DectPhy_PackFrame -> slot -> DectPhy_UnpackFrame...     *)
(*              -> DectPhy_HandleSDUFragment -> ethTxQueue                 *)
(*                                                                         *)
(* A byte of payload is the pair <<datagram, position in the datagram>> it *)
(* was read from, so the model tells apart every byte the code can         *)
(* misplace, mix up, lose or repeat, and no two bytes look the same.       *)
(* A datagram is named by the order in which it was received from          *)
(* Ethernet.                                                               *)
(***************************************************************************)
EXTENDS Integers, Sequences

CONSTANTS
    MaxDatagrams,   \* bound: datagrams the sender gets from Ethernet
    Sizes,          \* payload sizes of those datagrams, in bytes
    SlotBytes,      \* slot capacities in use (mcsToBytesPerSlot of the MCSs)
    Lossy,          \* TRUE: transmissions fail and frames are lost on the air
    AllocFails      \* TRUE: k_malloc of a reassembly buffer may fail

PacketHeader == 2           \* sizeof(DectPacket_t)
FragmentationHeader == 4    \* sizeof(DectFragmentationHeader_t)
MaxTouched == 5             \* DectPhy_PackFrame gives up on its 5th SDU
MaxDatagramBytes == 1600    \* LEAN_WIZNET_MAX_POSSIBLE_DATAGRAM_BYTES
MaxSlotBytes == 117         \* the last entry of mcsToBytesPerSlot

ASSUME FragmentationAssumption ==
    /\ MaxDatagrams \in Nat
    /\ Sizes \subseteq 1..MaxDatagramBytes
    /\ SlotBytes \subseteq PacketHeader + FragmentationHeader + 1 .. MaxSlotBytes
    /\ Lossy \in BOOLEAN
    /\ AllocFails \in BOOLEAN

VARIABLES
    sent,           \* history: sizes of the datagrams put on ethRxQueue
    ethRxQueue,     \* the datagrams still on it
    txDatagram,     \* currentTxDatagram, or NoDatagram for NULL
    txOffset,       \* currentTxDatagramOffset
    txRemaining,    \* currentTxDatagramRemainingBytes
    packing,        \* TRUE inside DectPhy_TransmitHeadOfQueue
    frame,          \* the SDUs packed so far into frameToTx
    room,           \* remainingFrameSize
    touched,        \* numSdusTouched
    air,            \* the frame on the air; <<>> for none and for a blank
    inbox,          \* the SDUs of a received frame not yet unpacked
    rxActive,       \* currentRxDatagram # NULL
    rxBytes,        \* currentRxDatagram->payload
    rxSize,         \* currentRxDatagramSize
    rxOffset,       \* currentRxDatagramOffset
    ethTxQueue      \* every datagram put on ethTxQueue, oldest first

ethVars == <<sent, ethRxQueue>>
loadVars == <<txDatagram, txOffset, txRemaining>>
packVars == <<packing, frame, room, touched>>
rxVars == <<rxActive, rxBytes, rxSize, rxOffset, ethTxQueue>>
vars == <<ethVars, loadVars, packVars, air, inbox, rxVars>>

NoDatagram == [id |-> 0, size |-> 0]
Uninitialised == <<0, 0>>       \* a byte of k_malloc'ed memory never written

(***************************************************************************)
(* An SDU on the wire.  "size" and "offset" are the fragmentation header,  *)
(* meaningful only when "frag"; "len" is payloadSize; the payload is the   *)
(* "len" bytes of datagram "id" that start at its byte "from".             *)
(***************************************************************************)
Sdu == [frag : BOOLEAN,
        size : 0..MaxDatagramBytes, offset : 0..MaxDatagramBytes,
        len : 0..MaxSlotBytes - PacketHeader,
        id : 1..MaxDatagrams, from : 0..MaxDatagramBytes]

Datagram == [id : 1..MaxDatagrams, size : Sizes]

\* The i-th datagram as Ethernet delivered it, n bytes long.
Original(i, n) == [p \in 1..n |-> <<i, p>>]

Init ==
    /\ sent = <<>> /\ ethRxQueue = <<>>
    /\ txDatagram = NoDatagram /\ txOffset = 0 /\ txRemaining = 0
    /\ packing = FALSE /\ frame = <<>> /\ room = 0 /\ touched = 0
    /\ air = <<>> /\ inbox = <<>>
    /\ rxActive = FALSE /\ rxBytes = <<>> /\ rxSize = 0 /\ rxOffset = 0
    /\ ethTxQueue = <<>>

-----------------------------------------------------------------------------
(* The sender.                                                             *)

\* The Wiznet receive callback queues a datagram for the DECT side.
EnqueueEthRx(size) ==
    /\ Len(sent) < MaxDatagrams
    /\ sent' = Append(sent, size)
    /\ ethRxQueue' = Append(ethRxQueue, [id |-> Len(sent) + 1, size |-> size])
    /\ UNCHANGED <<loadVars, packVars, air, inbox, rxVars>>

\* A slot is scheduled: DectPhy_TransmitHeadOfQueue allocates a frame of the
\* size the current MCS gives and starts DectPhy_PackFrame.
OpenFrame(bytes) ==
    /\ ~packing
    /\ packing' = TRUE
    /\ frame' = <<>> /\ room' = bytes /\ touched' = 0
    /\ UNCHANGED <<ethVars, loadVars, air, inbox, rxVars>>

\* Mutant: the queue is read from the wrong end.
LoadDatagramLastIn ==
    /\ packing /\ room > PacketHeader
    /\ txDatagram = NoDatagram /\ ethRxQueue # <<>>
    /\ txDatagram' = ethRxQueue[Len(ethRxQueue)]
    /\ ethRxQueue' = SubSeq(ethRxQueue, 1, Len(ethRxQueue) - 1)
    /\ txOffset' = 0
    /\ txRemaining' = ethRxQueue[Len(ethRxQueue)].size
    /\ UNCHANGED <<sent, packVars, air, inbox, rxVars>>

\* Top of the packing loop: take the next datagram if none is loaded.
LoadDatagram ==
    /\ packing /\ room > PacketHeader
    /\ txDatagram = NoDatagram /\ ethRxQueue # <<>>
    /\ txDatagram' = Head(ethRxQueue)
    /\ ethRxQueue' = Tail(ethRxQueue)
    /\ txOffset' = 0
    /\ txRemaining' = Head(ethRxQueue).size
    /\ UNCHANGED <<sent, packVars, air, inbox, rxVars>>

\* Mutant: a rest that fits the frame is sent as if it were a whole datagram.
NeedsFragmentingBySizeOnly == PacketHeader + txRemaining > room

NeedsFragmenting == txOffset # 0 \/ PacketHeader + txRemaining > room

Overhead ==
    IF NeedsFragmenting THEN PacketHeader + FragmentationHeader ELSE PacketHeader

SduSize ==
    IF txRemaining <= room - Overhead THEN txRemaining ELSE room - Overhead

\* The SDU that the loop body writes at the head of the free space.
NextSdu ==
    [frag |-> NeedsFragmenting,
     size |-> IF NeedsFragmenting THEN txDatagram.size ELSE 0,
     offset |-> IF NeedsFragmenting THEN txOffset ELSE 0,
     len |-> SduSize,
     id |-> txDatagram.id,
     from |-> txOffset]

CanPack ==
    /\ room > PacketHeader
    /\ txDatagram # NoDatagram
    /\ touched + 1 < MaxTouched
    /\ room > Overhead

\* Mutants: the offset outlives the datagram, or advances by the headers too.
PackSduKeepingOffset ==
    /\ packing /\ CanPack
    /\ frame' = Append(frame, NextSdu)
    /\ room' = room - (SduSize + Overhead)
    /\ touched' = touched + 1
    /\ txRemaining' = txRemaining - SduSize
    /\ txOffset' = txOffset + SduSize
    /\ txDatagram' = IF txRemaining = SduSize THEN NoDatagram ELSE txDatagram
    /\ UNCHANGED <<ethVars, packing, air, inbox, rxVars>>

PackSduCountingHeaders ==
    /\ packing /\ CanPack
    /\ frame' = Append(frame, NextSdu)
    /\ room' = room - (SduSize + Overhead)
    /\ touched' = touched + 1
    /\ txRemaining' = txRemaining - SduSize
    /\ IF txRemaining = SduSize
       THEN txDatagram' = NoDatagram /\ txOffset' = 0
       ELSE txOffset' = txOffset + SduSize + Overhead /\ UNCHANGED txDatagram
    /\ UNCHANGED <<ethVars, packing, air, inbox, rxVars>>

\* The rest of the loop body; the last SDU of a datagram unloads it.
PackSdu ==
    /\ packing /\ CanPack
    /\ frame' = Append(frame, NextSdu)
    /\ room' = room - (SduSize + Overhead)
    /\ touched' = touched + 1
    /\ txRemaining' = txRemaining - SduSize
    /\ IF txRemaining = SduSize
       THEN txDatagram' = NoDatagram /\ txOffset' = 0
       ELSE txOffset' = txOffset + SduSize /\ UNCHANGED txDatagram
    /\ UNCHANGED <<ethVars, packing, air, inbox, rxVars>>

\* The packing loop ended, on its condition or on one of its breaks.
FramePacked ==
    /\ packing /\ ~CanPack
    /\ ~(room > PacketHeader /\ txDatagram = NoDatagram /\ ethRxQueue # <<>>)

CloseFrame ==
    /\ packing' = FALSE
    /\ frame' = <<>> /\ room' = 0 /\ touched' = 0
    /\ UNCHANGED <<ethVars, loadVars, inbox, rxVars>>

\* The frame goes on the air; an empty one as the blank "NONE", which the
\* receiver drops before unpacking.  Slots follow one another, so the
\* previous one is off the air.
TransmitFrame ==
    /\ FramePacked
    /\ air = <<>>
    /\ air' = frame
    /\ CloseFrame

\* DectPhy_Transmit returns an error, which DectPhy_TransmitHeadOfQueue hands
\* to callers that count on the next slot; the packed bytes are gone.
TransmitFails ==
    /\ Lossy
    /\ FramePacked
    /\ CloseFrame
    /\ UNCHANGED air

-----------------------------------------------------------------------------
(* The radio.                                                              *)

LoseFrame ==
    /\ Lossy
    /\ air # <<>>
    /\ air' = <<>>
    /\ UNCHANGED <<ethVars, loadVars, packVars, inbox, rxVars>>

\* The PDC event: DectPhy_UnpackFrameAndProcessSDUs starts on the frame.
ReceiveFrame ==
    /\ air # <<>>
    /\ inbox = <<>>
    /\ inbox' = air
    /\ air' = <<>>
    /\ UNCHANGED <<ethVars, loadVars, packVars, rxVars>>

-----------------------------------------------------------------------------
(* The receiver: DectPhy_HandleSDUFragment on the next SDU of the frame,   *)
(* whose result the unpacking loop ignores.                                *)

\* memcpy of the payload of s behind the first "at" bytes of the buffer b.
Copy(b, s, at) ==
    [p \in 1..Len(b) |->
        IF p \in at + 1..at + s.len THEN <<s.id, s.from + p - at>> ELSE b[p]]

\* The reassembly state the handler works on: the one in progress, or a
\* buffer just allocated for the datagram that s announces.
SizeFor(s) == IF rxActive THEN rxSize ELSE IF s.frag THEN s.size ELSE s.len
OffsetFor(s) == IF rxActive THEN rxOffset ELSE 0
BytesFor(s) ==
    IF rxActive THEN rxBytes ELSE [p \in 1..SizeFor(s) |-> Uninitialised]

\* currentRxDatagram is NULL again; the counters keep the given values.
Release(size, offset) ==
    /\ rxActive' = FALSE
    /\ rxBytes' = <<>>
    /\ rxSize' = size
    /\ rxOffset' = offset

\* Mutant: the buffer is queued and still used for reassembly.
DeliverKeepingBuffer(bytes) ==
    /\ ethTxQueue' = Append(ethTxQueue, bytes)
    /\ UNCHANGED <<rxActive, rxBytes, rxSize, rxOffset>>

\* The buffer goes to ethTxQueue with the size it was allocated with.
Deliver(bytes) ==
    /\ ethTxQueue' = Append(ethTxQueue, bytes)
    /\ Release(0, 0)

\* Mutants: a datagram counts as complete one byte late; a fragment goes
\* where the previous one ended.
HandleFragmentStrict(s) ==
    /\ s.frag
    /\ IF s.len = 0 \/ s.offset + s.len > SizeFor(s)
       THEN /\ Release(SizeFor(s), OffsetFor(s))
            /\ UNCHANGED ethTxQueue
       ELSE LET bytes == Copy(BytesFor(s), s, s.offset)
                offset == OffsetFor(s) + s.len
            IN IF offset > SizeFor(s)
               THEN Deliver(bytes)
               ELSE /\ rxActive' = TRUE
                    /\ rxBytes' = bytes
                    /\ rxSize' = SizeFor(s)
                    /\ rxOffset' = offset
                    /\ UNCHANGED ethTxQueue

HandleFragmentInArrivalOrder(s) ==
    /\ s.frag
    /\ IF s.len = 0 \/ s.offset + s.len > SizeFor(s)
       THEN /\ Release(SizeFor(s), OffsetFor(s))
            /\ UNCHANGED ethTxQueue
       ELSE LET bytes == Copy(BytesFor(s), s, OffsetFor(s))
                offset == OffsetFor(s) + s.len
            IN IF offset >= SizeFor(s)
               THEN Deliver(bytes)
               ELSE /\ rxActive' = TRUE
                    /\ rxBytes' = bytes
                    /\ rxSize' = SizeFor(s)
                    /\ rxOffset' = offset
                    /\ UNCHANGED ethTxQueue

HandleFragment(s) ==
    /\ s.frag
    /\ IF s.len = 0 \/ s.offset + s.len > SizeFor(s)
       THEN /\ Release(SizeFor(s), OffsetFor(s))
            /\ UNCHANGED ethTxQueue
       ELSE LET bytes == Copy(BytesFor(s), s, s.offset)
                offset == OffsetFor(s) + s.len
            IN IF offset >= SizeFor(s)
               THEN Deliver(bytes)
               ELSE /\ rxActive' = TRUE
                    /\ rxBytes' = bytes
                    /\ rxSize' = SizeFor(s)
                    /\ rxOffset' = offset
                    /\ UNCHANGED ethTxQueue

\* No check at all: the payload is copied over whatever is being reassembled.
\* (What a copy writes behind the end of the buffer is outside this model.)
HandleWhole(s) ==
    /\ ~s.frag
    /\ Deliver(Copy(BytesFor(s), s, 0))

HandleSDUFragment ==
    /\ inbox # <<>>
    /\ inbox' = Tail(inbox)
    /\ HandleFragment(Head(inbox)) \/ HandleWhole(Head(inbox))
    /\ UNCHANGED <<ethVars, loadVars, packVars, air>>

\* k_malloc returns NULL for the buffer: the SDU is dropped.
HandleSDUFragmentOOM ==
    /\ AllocFails
    /\ inbox # <<>> /\ ~rxActive
    /\ inbox' = Tail(inbox)
    /\ Release(SizeFor(Head(inbox)), 0)
    /\ UNCHANGED <<ethVars, loadVars, packVars, air, ethTxQueue>>

-----------------------------------------------------------------------------
SenderThread ==
    \/ \E bytes \in SlotBytes : OpenFrame(bytes)
    \/ LoadDatagram
    \/ PackSdu
    \/ TransmitFrame
    \/ TransmitFails

ReceiverThread == ReceiveFrame \/ HandleSDUFragment \/ HandleSDUFragmentOOM

Next ==
    \/ \E size \in Sizes : EnqueueEthRx(size)
    \/ SenderThread
    \/ LoseFrame
    \/ ReceiverThread

Spec == Init /\ [][Next]_vars

\* Slots keep coming on both devices and the modem's event thread runs.
FairSpec == Spec /\ WF_vars(SenderThread) /\ WF_vars(ReceiverThread)
-----------------------------------------------------------------------------
(* Types, and what the sender keeps true of its own state and of the wire. *)

Byte == (0..MaxDatagrams) \X (0..MaxDatagramBytes)

\* Every variable has its type.  "room \in 0..MaxSlotBytes" says that the unsigned
\* remainingFrameSize of DectPhy_PackFrame never wraps around, so that no SDU
\* is written past the end of the frame buffer.
TypeOK ==
    /\ sent \in Seq(Sizes) /\ Len(sent) <= MaxDatagrams
    /\ ethRxQueue \in Seq(Datagram)
    /\ txDatagram \in Datagram \cup {NoDatagram}
    /\ txOffset \in 0..MaxDatagramBytes /\ txRemaining \in 0..MaxDatagramBytes
    /\ packing \in BOOLEAN
    /\ frame \in Seq(Sdu) /\ air \in Seq(Sdu) /\ inbox \in Seq(Sdu)
    /\ room \in 0..MaxSlotBytes
    /\ touched \in 0..MaxTouched - 1
    /\ rxActive \in BOOLEAN
    /\ rxSize \in Sizes \cup {0} /\ rxOffset \in 0..MaxDatagramBytes
    /\ rxBytes \in Seq(Byte) /\ Len(rxBytes) = (IF rxActive THEN rxSize ELSE 0)
    /\ ethTxQueue \in Seq(Seq(Byte))

\* The number of datagrams the sender has taken from ethRxQueue.
Taken == Len(sent) - Len(ethRxQueue)

\* ethRxQueue holds the datagrams received last, in order, and the one loaded
\* is the one taken last, with the part of it already packed counted right.
\* Outside DectPhy_TransmitHeadOfQueue there is no frame.
SenderInv ==
    /\ Len(ethRxQueue) <= Len(sent)
    /\ \A i \in 1..Len(ethRxQueue) :
          ethRxQueue[i] = [id |-> Taken + i, size |-> sent[Taken + i]]
    /\ txDatagram # NoDatagram =>
          /\ Taken > 0
          /\ txDatagram = [id |-> Taken, size |-> sent[Taken]]
          /\ txOffset + txRemaining = txDatagram.size
          /\ txRemaining > 0
    /\ txDatagram = NoDatagram => txOffset = 0
    /\ ~packing => frame = <<>>

\* s says the truth about the bytes it carries, and carries some.
Truthful(s) ==
    /\ s.id <= Len(sent)
    /\ s.len > 0
    /\ s.from + s.len <= sent[s.id]
    /\ IF s.frag
       THEN s.size = sent[s.id] /\ s.offset = s.from
       ELSE s.from = 0 /\ s.len = sent[s.id]

AllTruthful(f) == \A i \in 1..Len(f) : Truthful(f[i])

WireInv == AllTruthful(frame) /\ AllTruthful(air) /\ AllTruthful(inbox)

\* A reassembly in progress has some bytes and misses some: a buffer that is
\* complete is delivered at once, and one that holds nothing is not kept.
ReassemblyInv == rxActive => 0 < rxOffset /\ rxOffset < rxSize

\* What holds at both ends and between them whatever is lost: the types, the
\* sender's bookkeeping, what every SDU says of itself, and the reassembly's
\* bounds.  Each needs the others to be kept.
BaseInv == TypeOK /\ SenderInv /\ WireInv /\ ReassemblyInv

-----------------------------------------------------------------------------
(* Without losses: the bytes on their way form one stream.                 *)

\* Where an SDU starts, and where the next one has to.
First(s) == <<s.id, s.from>>
After(s) ==
    IF s.from + s.len = sent[s.id] THEN <<s.id + 1, 0>> ELSE <<s.id, s.from + s.len>>

\* The position a run of SDUs that starts at position a ends at.
EndOf(f, a) == IF f = <<>> THEN a ELSE After(f[Len(f)])

\* The SDUs of f carry the bytes from position a on, in order.
Linked(f, a) ==
    f # <<>> =>
        /\ First(f[1]) = a
        /\ \A i \in 1..Len(f) - 1 : First(f[i + 1]) = After(f[i])

TxPosition ==
    IF txDatagram = NoDatagram THEN <<Taken + 1, 0>> ELSE <<Taken, txOffset>>
RxPosition == <<Len(ethTxQueue) + 1, IF rxActive THEN rxOffset ELSE 0>>

\* From the first byte the receiver misses to the first one the sender has
\* not packed, every byte is in exactly one SDU on its way, and in order.
StreamInv ==
    LET a == EndOf(inbox, RxPosition)
        b == EndOf(air, a)
    IN  /\ Linked(inbox, RxPosition)
        /\ Linked(air, a)
        /\ Linked(frame, b)
        /\ EndOf(frame, b) = TxPosition

\* The bytes reassembled so far are the first ones of the next datagram due.
PrefixInv ==
    rxActive =>
        /\ Len(ethTxQueue) < Len(sent)
        /\ rxSize = sent[Len(ethTxQueue) + 1]
        /\ \A p \in 1..rxOffset : rxBytes[p] = <<Len(ethTxQueue) + 1, p>>

\* Every datagram the receiver delivers is, whole and unchanged, the one the
\* sender got from Ethernet in that place of the order.
IntactDelivery ==
    /\ Len(ethTxQueue) <= Len(sent)
    /\ \A i \in 1..Len(ethTxQueue) : ethTxQueue[i] = Original(i, sent[i])

\* The bridge is the first-in first-out pipe of module DatagramPipe.
Pipe == INSTANCE DatagramPipe WITH
    Datagram <- {Original(i, n) : i \in 1..MaxDatagrams, n \in Sizes},
    sent <- [i \in 1..Len(sent) |-> Original(i, sent[i])],
    received <- ethTxQueue
ImplementsPipe == Pipe!PipeSpec

\* Every datagram received from Ethernet comes out on the other side.
AllDelivered ==
    \A n \in 1..MaxDatagrams : Len(sent) >= n ~> Len(ethTxQueue) >= n

-----------------------------------------------------------------------------
(* With losses.                                                            *)

Deliveries == 1..Len(ethTxQueue)
BytesOf(i) == {ethTxQueue[i][p] : p \in 1..Len(ethTxQueue[i])} \ {Uninitialised}

\* Whatever is lost, a byte that is copied into the reassembly buffer or
\* delivered is at the offset it had in the datagram it comes from.
InPlace(b) == \A p \in 1..Len(b) : b[p] = Uninitialised \/ b[p][2] = p
BytesInPlace == InPlace(rxBytes) /\ \A i \in Deliveries : InPlace(ethTxQueue[i])

\* No byte is delivered twice.
NoByteTwice ==
    \A i, j \in Deliveries : i # j => BytesOf(i) \cap BytesOf(j) = {}

\* Deliveries never go back to an earlier datagram.
InOrder ==
    \A i, j \in Deliveries :
        i < j => \A x \in BytesOf(i), y \in BytesOf(j) : x[1] <= y[1]

\* "should match exactly actually": the fragments that complete a datagram
\* add up to its size (DectPhy_HandleSDUFragment, the comment on the test of
\* currentRxDatagramOffset).
CompletesExactly ==
    (inbox # <<>> /\ Head(inbox).frag
        /\ Head(inbox).offset + Head(inbox).len <= SizeFor(Head(inbox)))
    => OffsetFor(Head(inbox)) + Head(inbox).len <= SizeFor(Head(inbox))
=============================================================================
