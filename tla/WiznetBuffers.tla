---------------------------- MODULE WiznetBuffers ----------------------------
(***************************************************************************)
(* The driver of module WiznetDriver with the two ring buffers of the      *)
(* W5500 and with LeanWiznet_Init before it: what is copied from and to    *)
(* the chip, at which offsets, while the pointers run over the end of the  *)
(* buffers.                                                                *)
(*                                                                         *)
(* A pointer of the chip has 16 bits and a buffer 16 KB; here they are     *)
(* counted modulo PtrMod and MemSize.  A byte is the frame or datagram it  *)
(* belongs to and its place in it.  The chip puts two bytes of length in   *)
(* front of a frame, and drops a frame it has no room for.                 *)
(***************************************************************************)
EXTENDS WiznetDriver, FiniteSetsExt

CONSTANTS
    MemSize, PtrMod,
    TxLen, RxLen        \* the sizes of the datagrams and of the frames

ASSUME WiznetBuffersAssumption ==
    /\ MemSize \in Nat \ {0} /\ PtrMod \in Nat \ {0} /\ PtrMod % MemSize = 0
    /\ TxLen \in [1..MaxTx -> 1..MemSize]
    /\ RxLen \in [1..MaxRx -> 1..MemSize - 2]

VARIABLES
    start,          \* how far LeanWiznet_Init is
    rxMem, txMem,   \* the buffers
    rxRd, rxWr,     \* the driver's and the chip's pointer into rxMem
    txRd, txWr,     \* the chip's and the driver's pointer into txMem
    received,       \* history: the payloads of ethRxQueue, as they were read
    sent            \* history: the datagrams on Ethernet, with their bytes

rxRing == <<rxMem, rxRd, rxWr, received>>
txRing == <<txMem, txRd, txWr, sent>>
allVars == <<vars, start, rxRing, txRing>>

Payload(id, len) == [i \in 1..len |-> <<id, i>>]
Header(id, bad) == IF bad THEN <<<<id, -3>>, <<id, -3>>>> ELSE <<<<id, -2>>, <<id, -1>>>>

\* main() enters LeanWiznet_Init; the socket is not open.
RingInit ==
    /\ Init
    /\ start = "gpio"
    /\ rxMem = [a \in 0..MemSize - 1 |-> <<0, 0>>]
    /\ txMem = [a \in 0..MemSize - 1 |-> <<0, 0>>]
    /\ rxRd = 0 /\ rxWr = 0 /\ txRd = 0 /\ txWr = 0
    /\ received = <<>> /\ sent = <<>>

-----------------------------------------------------------------------------
(* Copying.                                                                *)

\* Mutant: as if there were no end of the buffer, behind which is nothing.
AtEndNever(offset, len) == [first |-> len, remain |-> 0]

\* How many bytes are up to the end of the buffer, and from its beginning.
AtEnd(offset, len) ==
    IF offset + len > MemSize
    THEN [first |-> MemSize - offset, remain |-> (offset + len) % MemSize]
    ELSE [first |-> len, remain |-> 0]

\* w5500_spi_read; behind the buffer there is nothing.
spi_read(mem, addr, len) ==
    [i \in 1..len |-> IF addr + i - 1 \in DOMAIN mem THEN mem[addr + i - 1] ELSE <<0, 0>>]

spi_write(mem, addr, buf) ==
    [a \in DOMAIN mem |-> IF a - addr + 1 \in DOMAIN buf THEN buf[a - addr + 1] ELSE mem[a]]

w5500_readbuf(mem, ptr, len) ==
    LET offset == ptr % MemSize
        part == AtEnd(offset, len)
    IN  spi_read(mem, offset, part.first) \o spi_read(mem, 0, part.remain)

w5500_writebuf(mem, ptr, buf) ==
    LET offset == ptr % MemSize
        part == AtEnd(offset, Len(buf))
    IN  spi_write(spi_write(mem, offset, SubSeq(buf, 1, part.first)),
                  0, SubSeq(buf, part.first + 1, part.first + part.remain))

\* The chip (external) goes round.
RoundRead(mem, ptr, len) == [i \in 1..len |-> mem[(ptr + i - 1) % MemSize]]
RoundWrite(mem, ptr, buf) ==
    [a \in DOMAIN mem |->
        LET i == ((a - ptr) % MemSize) + 1 IN IF i <= Len(buf) THEN buf[i] ELSE mem[a]]

-----------------------------------------------------------------------------
(* LeanWiznet_Init.                                                        *)

\* A step of it; each of those before "rx" may fail, and then the function
\* returns, which main() does not look at.
InitStep ==
    /\ \/ start = "gpio" /\ start' \in {"reset", "failed"}  \* pins, interrupt
       \/ start = "reset" /\ start' \in {"open", "failed"}  \* w5500_soft_reset
       \/ start = "open" /\ start' = "rx"                   \* w5500_hw_start
       \/ start = "rx" /\ start' = "tx"                     \* the RX thread
       \/ start = "tx" /\ start' = "up"                     \* the TX thread
    /\ UNCHANGED <<vars, rxRing, txRing>>

Returned == start \in {"up", "failed"}
SocketOpen == start \in {"rx", "tx", "up"}

RingSetRxCallback ==
    /\ Returned /\ LeanWiznet_SetRxCallback
    /\ UNCHANGED <<start, rxRing, txRing>>

-----------------------------------------------------------------------------
(* From Ethernet.                                                          *)

RSR == (rxWr - rxRd) % PtrMod       \* received size register

RingFrameArrives(bad) ==
    /\ SocketOpen
    /\ FrameArrives(bad)
    /\ LET id == arrived + 1
           frame == Header(id, bad) \o Payload(id, RxLen[id])
       IN  /\ RSR + Len(frame) <= MemSize
           /\ rxMem' = RoundWrite(rxMem, rxWr, frame)
           /\ rxWr' = (rxWr + Len(frame)) % PtrMod
    /\ UNCHANGED <<rxRd, received, start, txRing>>

\* What the header at the read pointer says: a length, or one that cannot be.
rx_len ==
    LET header == w5500_readbuf(rxMem, rxRd, 2)
        of == {n \in 1..MaxRx : header = Header(n, FALSE)}
    IN  IF of = {} THEN -1 ELSE RxLen[CHOOSE n \in of : TRUE]

\* Mutant: the header is not skipped with its frame.
RingRxFrameNoHeader ==
    /\ RxFrame
    /\ RSR # 0 /\ rx_len # -1
    /\ received' = IF ethRxQueue' = ethRxQueue THEN received
                   ELSE Append(received, w5500_readbuf(rxMem, rxRd + 2, rx_len))
    /\ rxRd' = (rxRd + rx_len) % PtrMod
    /\ UNCHANGED <<rxMem, rxWr, start, txRing>>

RingRxFrame ==
    /\ RxFrame
    /\ RSR # 0 /\ rx_len # -1
    /\ received' = IF ethRxQueue' = ethRxQueue THEN received
                   ELSE Append(received, w5500_readbuf(rxMem, rxRd + 2, rx_len))
    /\ rxRd' = (rxRd + 2 + rx_len) % PtrMod
    /\ UNCHANGED <<rxMem, rxWr, start, txRing>>

RingRxNothing ==
    /\ RxNothing
    /\ RSR = 0 \/ rx_len = -1
    /\ UNCHANGED <<start, rxRing, txRing>>

\* The thread exists once it has been created.
RingRxThread ==
    /\ start \in {"tx", "up"}
    /\ \/ RingRxFrame
       \/ RingRxNothing
       \/ /\ RxWake \/ RxIdle \/ RxReadIr \/ RxClearIr \/ RxService \/ RxLock
          /\ UNCHANGED <<start, rxRing, txRing>>

-----------------------------------------------------------------------------
(* To Ethernet.                                                            *)

RingTxSend ==
    /\ TxSend
    /\ txMem' = w5500_writebuf(txMem, txWr, Payload(txPkt, TxLen[txPkt]))
    /\ txWr' = (txWr + TxLen[txPkt]) % PtrMod
    /\ UNCHANGED <<txRd, sent, start, rxRing>>

\* Either of the two transfers fails; the pointer stays.
RingTxWriteFails ==
    /\ TxWriteFails
    /\ LET first == AtEnd(txWr % MemSize, TxLen[txPkt]).first
       IN  txMem' \in {txMem, spi_write(txMem, txWr % MemSize, Payload(txPkt, first))}
    /\ UNCHANGED <<txRd, txWr, sent, start, rxRing>>

RingTxThread ==
    /\ start = "up"
    /\ \/ RingTxSend
       \/ RingTxWriteFails
       \/ /\ TxGet \/ TxLock \/ TxTake \/ TxTimeout
          /\ UNCHANGED <<start, rxRing, txRing>>

RingDatagramSent ==
    /\ DatagramSent
    /\ LET id == Head(chipTx)
       IN  /\ sent' = Append(sent, [id |-> id, bytes |-> RoundRead(txMem, txRd, TxLen[id])])
           /\ txRd' = (txRd + TxLen[id]) % PtrMod
    /\ UNCHANGED <<txMem, txWr, start, rxRing>>

\* The radio starts when LeanWiznet_Init has returned, whatever it returned.
RingEnqueueEthTx ==
    /\ Returned /\ rxcb /\ EnqueueEthTx
    /\ UNCHANGED <<start, rxRing, txRing>>

-----------------------------------------------------------------------------
RingNext ==
    \/ InitStep
    \/ RingSetRxCallback
    \/ \E bad \in BOOLEAN : RingFrameArrives(bad)
    \/ RingRxThread
    \/ RingEnqueueEthTx
    \/ RingTxThread
    \/ RingDatagramSent

RingSpec == RingInit /\ [][RingNext]_allVars

RingFairSpec ==
    /\ RingSpec
    /\ WF_allVars(InitStep)
    /\ WF_allVars(RingSetRxCallback)
    /\ WF_allVars(RingRxThread)
    /\ WF_allVars(RingTxThread)
    /\ WF_allVars(RingDatagramSent)

-----------------------------------------------------------------------------
(* Correctness.                                                            *)

\* What is put on ethRxQueue are the frames as they came, byte for byte, also
\* when header or payload straddle the end of the buffer or the pointers
\* overflow, and after frames for which there was no memory: the driver and
\* the chip agree where in the buffer the next frame begins.
ReceivedIntact ==
    /\ Len(received) = Len(ethRxQueue)
    /\ \A i \in 1..Len(received) : received[i] = Payload(ethRxQueue[i], RxLen[ethRxQueue[i]])

HeaderFound ==
    /\ RSR = 0 <=> chipRx = <<>>
    /\ chipRx # <<>> =>
          w5500_readbuf(rxMem, rxRd, 2) = Header(Head(chipRx).id, Head(chipRx).bad)

FramesIntact == ReceivedIntact /\ HeaderFound

\* What the chip sends is what was handed in, byte for byte, as long as the TX
\* thread gave up waiting so seldom that the datagrams that may then be in the
\* buffer fit it: for 1600 bytes and 16 KB, eight times.
Longest == Max({TxLen[n] : n \in 1..MaxTx})
DatagramsIntact ==
    (2 + timeouts) * Longest <= MemSize =>
        \A i \in 1..Len(sent) : sent[i].bytes = Payload(sent[i].id, TxLen[sent[i].id])

\* The TX thread gets through its queue, although it waits with the mutex held
\* for a token that only the RX thread gives, and the RX thread may wait for
\* that mutex; unless LeanWiznet_Init failed, which leaves nobody to take
\* anything off the queue.
StartedTxProgress ==
    \A n \in 1..MaxTx :
        enqueued >= n ~> (handled >= n /\ chipTx = <<>>) \/ start = "failed"
=============================================================================
