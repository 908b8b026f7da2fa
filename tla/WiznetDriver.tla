---------------------------- MODULE WiznetDriver ----------------------------
(***************************************************************************)
(* The two threads of src/lean_wiznet_driver/lean_wiznet_driver.c and the  *)
(* W5500 Ethernet chip.  The RX thread alone reads and clears the chip's   *)
(* interrupt register; it gives tx_sem for a SENDOK and takes one frame    *)
(* out of the chip for a RECV.  The TX thread hands the chip a datagram    *)
(* and takes tx_sem for 10 ms, with spi_mutex held: the mutex the RX       *)
(* thread needs for a frame.                                               *)
(*                                                                         *)
(* The chip (external): its interrupt line is asserted while a bit of the  *)
(* register is set, and the edge calls w5500_gpio_callback.  Accesses that *)
(* touch nothing the other side changes are one step.  spi_mutex is never  *)
(* held for the 10 s after which its other user would give up.             *)
(***************************************************************************)
EXTENDS Integers, Sequences

CONSTANTS
    MaxTx, MaxRx,   \* bounds: datagrams from the DECT side, frames from Ethernet
    Rearms,         \* the chip raises RECV again after the command RECV if
                    \* frames are left (its data sheet does not say)
    Faults          \* what may go wrong

FaultKinds == {
    "malloc",       \* k_malloc returns NULL for a frame
    "spi_write",    \* writing a datagram to the chip fails
    "bad_header"}   \* a frame's length in the chip is over 1600

ASSUME WiznetDriverAssumption ==
    /\ MaxTx \in Nat /\ MaxRx \in Nat
    /\ Rearms \in BOOLEAN
    /\ Faults \subseteq FaultKinds

VARIABLES
    \* the driver
    ethTxQueue,     \* the datagrams on it; a datagram is its number
    ethRxQueue,     \* every frame put on it; a frame is its number
    rxcb,           \* TRUE: LeanWiznet_SetRxCallback has been called
    tx_sem,         \* its count
    int_sem,        \* its count
    spi_mutex,      \* who holds it: "tx", "rx" or "free"
    txPc, txPkt,    \* the TX thread, and its pkt (0: none)
    rxPc, rxIr,     \* the RX thread, and its copy of the register
    \* the chip
    ir,             \* the socket's interrupt register
    chipTx,         \* the datagrams it has been told to send and has not sent
    chipRx,         \* the frames it holds for the driver
    \* history
    enqueued,       \* datagrams put on ethTxQueue
    handled,        \* datagrams the TX thread is done with
    timeouts,       \* times it gave up waiting for tx_sem
    arrived         \* frames that came from Ethernet

driver == <<ethTxQueue, ethRxQueue, rxcb, tx_sem, spi_mutex>>
txThread == <<txPc, txPkt, handled, timeouts>>
rxThread == <<rxPc, rxIr>>
vars == <<driver, int_sem, txThread, rxThread, ir, chipTx, chipRx, enqueued, arrived>>

Bits == {"SENDOK", "RECV"}
Frame == [id : 1..MaxRx, bad : BOOLEAN]

\* LeanWiznet_Init is over: main() is about to set the callback.
Init ==
    /\ ethTxQueue = <<>> /\ ethRxQueue = <<>> /\ rxcb = FALSE
    /\ tx_sem = 1 /\ int_sem = 0 /\ spi_mutex = "free"
    /\ txPc = "get" /\ txPkt = 0
    /\ rxPc = "sleep" /\ rxIr = {}
    /\ ir = {} /\ chipTx = <<>> /\ chipRx = <<>>
    /\ enqueued = 0 /\ handled = 0 /\ timeouts = 0 /\ arrived = 0

-----------------------------------------------------------------------------
(* The chip and the users of the driver.                                   *)

\* A bit is set; on the falling edge of the line w5500_gpio_callback gives
\* int_sem.
Raise(bit) ==
    /\ ir' = ir \cup {bit}
    /\ int_sem' = IF ir = {} THEN int_sem + 1 ELSE int_sem

FrameArrives(bad) ==
    /\ arrived < MaxRx
    /\ bad => "bad_header" \in Faults
    /\ arrived' = arrived + 1
    /\ chipRx' = Append(chipRx, [id |-> arrived + 1, bad |-> bad])
    /\ Raise("RECV")
    /\ UNCHANGED <<driver, txThread, rxThread, chipTx, enqueued>>

DatagramSent ==
    /\ chipTx # <<>>
    /\ chipTx' = Tail(chipTx)
    /\ Raise("SENDOK")
    /\ UNCHANGED <<driver, txThread, rxThread, chipRx, enqueued, arrived>>

LeanWiznet_SetRxCallback ==
    /\ ~rxcb /\ rxcb' = TRUE
    /\ UNCHANGED <<ethTxQueue, ethRxQueue, tx_sem, spi_mutex, int_sem, txThread,
                   rxThread, ir, chipTx, chipRx, enqueued, arrived>>

\* DectPhy_EnqueueEthTx.
EnqueueEthTx ==
    /\ enqueued < MaxTx
    /\ enqueued' = enqueued + 1
    /\ ethTxQueue' = Append(ethTxQueue, enqueued + 1)
    /\ UNCHANGED <<ethRxQueue, rxcb, tx_sem, spi_mutex, int_sem, txThread, rxThread,
                   ir, chipTx, chipRx, arrived>>

-----------------------------------------------------------------------------
(* The TX thread: w5500_tx_thread and w5500_tx.                            *)

\* Mutant: the packet stays on the queue.
TxGetPeek ==
    /\ txPc = "get" /\ txPc' = "lock"
    /\ ethTxQueue # <<>>
    /\ txPkt' = Head(ethTxQueue)
    /\ UNCHANGED <<driver, int_sem, handled, timeouts, rxThread, ir, chipTx, chipRx,
                   enqueued, arrived>>

TxGet ==
    /\ txPc = "get" /\ txPc' = "lock"
    /\ ethTxQueue # <<>>
    /\ txPkt' = Head(ethTxQueue)
    /\ ethTxQueue' = Tail(ethTxQueue)
    /\ UNCHANGED <<ethRxQueue, rxcb, tx_sem, spi_mutex, int_sem, handled, timeouts,
                   rxThread, ir, chipTx, chipRx, enqueued, arrived>>

TxLock ==
    /\ txPc = "lock" /\ txPc' = "send"
    /\ spi_mutex = "free" /\ spi_mutex' = "tx"
    /\ UNCHANGED <<ethTxQueue, ethRxQueue, rxcb, tx_sem, int_sem, txPkt, handled,
                   timeouts, rxThread, ir, chipTx, chipRx, enqueued, arrived>>

\* The mutex is released, the result ignored and the packet freed.
TxReturn ==
    /\ spi_mutex' = "free"
    /\ txPc' = "get" /\ txPkt' = 0
    /\ handled' = handled + 1
    /\ UNCHANGED <<ethTxQueue, ethRxQueue, rxcb, int_sem, rxThread, ir, chipRx,
                   enqueued, arrived>>

TxWriteFails ==
    /\ txPc = "send" /\ "spi_write" \in Faults
    /\ TxReturn
    /\ UNCHANGED <<tx_sem, timeouts, chipTx>>

\* The datagram is written behind those in the chip, and SEND.
TxSend ==
    /\ txPc = "send" /\ txPc' = "wait"
    /\ chipTx' = Append(chipTx, txPkt)
    /\ UNCHANGED <<driver, int_sem, txPkt, handled, timeouts, rxThread, ir, chipRx,
                   enqueued, arrived>>

TxTake ==
    /\ txPc = "wait"
    /\ tx_sem > 0 /\ tx_sem' = tx_sem - 1
    /\ TxReturn
    /\ UNCHANGED <<timeouts, chipTx>>

\* Mutant: K_FOREVER.
TxTimeoutForever == FALSE /\ UNCHANGED vars

TxTimeout ==
    /\ txPc = "wait" /\ tx_sem = 0
    /\ timeouts' = timeouts + 1
    /\ TxReturn
    /\ UNCHANGED <<tx_sem, chipTx>>

TxThread == TxGet \/ TxLock \/ TxWriteFails \/ TxSend \/ TxTake \/ TxTimeout

-----------------------------------------------------------------------------
(* The RX thread: w5500_rx_thread and w5500_rx.                            *)

RxWake ==
    /\ rxPc = "sleep" /\ rxPc' = "poll"
    /\ int_sem > 0 /\ int_sem' = int_sem - 1
    /\ UNCHANGED <<driver, txThread, rxIr, ir, chipTx, chipRx, enqueued, arrived>>

\* Mutant: one round for each interrupt.
RxIdleAfterOne ==
    /\ rxPc = "poll" /\ rxPc' = "sleep"
    /\ UNCHANGED <<driver, int_sem, txThread, rxIr, ir, chipTx, chipRx, enqueued, arrived>>

\* The line is not asserted any more; it is, and the register is read.
RxIdle ==
    /\ rxPc = "poll" /\ ir = {} /\ rxPc' = "sleep"
    /\ UNCHANGED <<driver, int_sem, txThread, rxIr, ir, chipTx, chipRx, enqueued, arrived>>

RxReadIr ==
    /\ rxPc = "poll" /\ ir # {} /\ rxPc' = "clear"
    /\ rxIr' = ir
    /\ UNCHANGED <<driver, int_sem, txThread, ir, chipTx, chipRx, enqueued, arrived>>

\* Mutant: all the bits are cleared.
RxClearAllIr ==
    /\ rxPc = "clear" /\ rxPc' = "service"
    /\ ir' = {}
    /\ UNCHANGED <<driver, int_sem, txThread, rxIr, chipTx, chipRx, enqueued, arrived>>

\* Writing the bits that were read clears them.
RxClearIr ==
    /\ rxPc = "clear" /\ rxPc' = "service"
    /\ ir' = ir \ rxIr
    /\ UNCHANGED <<driver, int_sem, txThread, rxIr, chipTx, chipRx, enqueued, arrived>>

\* Mutant: a token for every interrupt.
RxServiceAnyBit ==
    /\ rxPc = "service"
    /\ tx_sem' = tx_sem + 1
    /\ rxPc' = IF "RECV" \in rxIr /\ rxcb THEN "lock" ELSE "poll"
    /\ rxIr' = rxIr \ {"SENDOK"}
    /\ UNCHANGED <<ethTxQueue, ethRxQueue, rxcb, spi_mutex, int_sem, txThread, ir,
                   chipTx, chipRx, enqueued, arrived>>

RxService ==
    /\ rxPc = "service"
    /\ tx_sem' = IF "SENDOK" \in rxIr THEN tx_sem + 1 ELSE tx_sem
    /\ rxPc' = IF "RECV" \in rxIr /\ rxcb THEN "lock" ELSE "poll"
    /\ rxIr' = rxIr \ {"SENDOK"}
    /\ UNCHANGED <<ethTxQueue, ethRxQueue, rxcb, spi_mutex, int_sem, txThread, ir,
                   chipTx, chipRx, enqueued, arrived>>

RxLock ==
    /\ rxPc = "lock" /\ rxPc' = "receive"
    /\ spi_mutex = "free" /\ spi_mutex' = "rx"
    /\ UNCHANGED <<ethTxQueue, ethRxQueue, rxcb, tx_sem, int_sem, txThread, rxIr, ir,
                   chipTx, chipRx, enqueued, arrived>>

RxReturn ==
    /\ rxPc = "receive" /\ rxPc' = "poll"
    /\ spi_mutex' = "free"
    /\ UNCHANGED <<ethTxQueue, rxcb, tx_sem, txThread, rxIr, chipTx, enqueued, arrived>>

\* The chip holds no frame, or one whose length cannot be: nothing is done.
RxNothing ==
    /\ RxReturn
    /\ chipRx = <<>> \/ Head(chipRx).bad
    /\ UNCHANGED <<ethRxQueue, int_sem, ir, chipRx>>

\* A frame is read, unless there is no memory, and taken out of the chip.
RxFrame ==
    /\ RxReturn
    /\ chipRx # <<>> /\ ~Head(chipRx).bad
    /\ \/ ethRxQueue' = Append(ethRxQueue, Head(chipRx).id)
       \/ "malloc" \in Faults /\ UNCHANGED ethRxQueue
    /\ chipRx' = Tail(chipRx)
    /\ IF Rearms /\ Tail(chipRx) # <<>> THEN Raise("RECV") ELSE UNCHANGED <<ir, int_sem>>

RxThread ==
    \/ RxWake \/ RxIdle \/ RxReadIr \/ RxClearIr \/ RxService
    \/ RxLock \/ RxNothing \/ RxFrame

-----------------------------------------------------------------------------
Next ==
    \/ \E bad \in BOOLEAN : FrameArrives(bad)
    \/ DatagramSent
    \/ LeanWiznet_SetRxCallback
    \/ EnqueueEthTx
    \/ TxThread
    \/ RxThread

Spec == Init /\ [][Next]_vars

\* Both threads run when they can, the chip sends what it is told to, and
\* main() goes on to set the callback.
FairSpec ==
    /\ Spec
    /\ WF_vars(TxThread)
    /\ WF_vars(RxThread)
    /\ WF_vars(DatagramSent)
    /\ WF_vars(LeanWiznet_SetRxCallback)

-----------------------------------------------------------------------------
(* Correctness.                                                            *)

\* Every variable has its type.
TypeOK ==
    /\ ethTxQueue \in Seq(1..MaxTx) /\ ethRxQueue \in Seq(1..MaxRx)
    /\ rxcb \in BOOLEAN
    /\ tx_sem \in Nat /\ int_sem \in Nat /\ timeouts \in Nat
    /\ spi_mutex \in {"free", "tx", "rx"}
    /\ txPc \in {"get", "lock", "send", "wait"} /\ txPkt \in 0..MaxTx
    /\ rxPc \in {"sleep", "poll", "clear", "service", "lock", "receive"}
    /\ rxIr \subseteq Bits /\ ir \subseteq Bits
    /\ chipTx \in Seq(1..MaxTx) /\ chipRx \in Seq(Frame)
    /\ enqueued \in 0..MaxTx /\ handled \in 0..MaxTx /\ arrived \in 0..MaxRx

\* The RX thread never sleeps through an interrupt: the callback runs on an
\* edge only, and a bit that is set while others are being cleared makes none.
NoLostInterrupt == rxPc = "sleep" /\ ir # {} => int_sem > 0

\* tx_sem begins with one token, so that the TX thread waits for the SENDOK of
\* the datagram before: the chip has at most two unsent datagrams, and one
\* more for each time the thread gave up.  Nothing else keeps its 16 KB buffer
\* from being overrun; the free space is never asked for.
ChipNotOverrun ==
    Len(chipTx) + tx_sem <= timeouts + (IF txPc = "wait" THEN 2 ELSE 1)

\* When the chip signals a frame to a driver whose callback is set, the frames
\* it holds are taken out, although each signal takes out one only and the
\* signal of one that comes between reading and clearing the register is lost.
FramesTaken ==
    \A n \in 1..MaxRx :
        rxcb /\ "RECV" \in ir /\ arrived = n /\ (\A i \in 1..Len(chipRx) : ~chipRx[i].bad)
            ~> \A i \in 1..Len(chipRx) : chipRx[i].id > n

\* "Something wrong with eth packet received from w5500. [...] dropping": a
\* frame with such a header does not stay in the chip.
BadFrameDropped ==
    \A n \in 1..MaxRx :
        rxPc = "receive" /\ chipRx # <<>> /\ Head(chipRx) = [id |-> n, bad |-> TRUE]
            ~> chipRx = <<>> \/ Head(chipRx).id # n
=============================================================================
