------------------------ MODULE WiznetDriver_proofs ------------------------
(***************************************************************************)
(* Proofs about WiznetDriver for any number of datagrams and frames, for   *)
(* either kind of chip and with every fault; that WiznetBuffers, which     *)
(* adds the start-up and the chip's buffers, only does what it may do; and *)
(* that the bytes come through those buffers, for any sizes.               *)
(***************************************************************************)
EXTENDS WiznetBuffers, SequenceTheorems, WellFoundedInduction, TLAPS

\* Every datagram handed to the driver is on the queue, with the TX thread or
\* handled.
Counted ==
    /\ enqueued = handled + Len(ethTxQueue) + (IF txPc = "get" THEN 0 ELSE 1)
    /\ txPc # "get" => txPkt \in 1..MaxTx

TypeInv == TypeOK /\ Counted

LEMMA HeadIn ==
    ASSUME NEW S, NEW s \in Seq(S), s # <<>>
    PROVE  Head(s) \in S
OBVIOUS

LEMMA AppendIn ==
    ASSUME NEW S, NEW s \in Seq(S), NEW e \in S
    PROVE  Append(s, e) \in Seq(S)
OBVIOUS

LEMMA RaiseType ==
    ASSUME NEW bit \in Bits, ir \subseteq Bits, int_sem \in Nat, Raise(bit)
    PROVE  ir' \subseteq Bits /\ int_sem' \in Nat
<1>1. ir' = ir \cup {bit}
    BY DEF Raise
<1>2. ir' \subseteq Bits
    BY <1>1
<1>3. int_sem' = int_sem \/ int_sem' = int_sem + 1
    BY DEF Raise
<1> QED
    BY <1>2, <1>3

LEMMA TypeInit == Init => TypeInv
<1> SUFFICES ASSUME Init PROVE TypeInv
    OBVIOUS
<1>1. TypeOK
    <2>1. /\ ethTxQueue \in Seq(1..MaxTx) /\ ethRxQueue \in Seq(1..MaxRx)
          /\ chipTx \in Seq(1..MaxTx) /\ chipRx \in Seq(Frame)
        BY DEF Init
    <2>2. rxIr \subseteq Bits /\ ir \subseteq Bits
        BY DEF Init
    <2>3. /\ txPkt \in 0..MaxTx
          /\ enqueued \in 0..MaxTx /\ handled \in 0..MaxTx /\ arrived \in 0..MaxRx
        BY WiznetDriverAssumption DEF Init
    <2>4. /\ rxcb \in BOOLEAN
          /\ tx_sem \in Nat /\ int_sem \in Nat /\ timeouts \in Nat
          /\ spi_mutex \in {"free", "tx", "rx"}
          /\ txPc \in {"get", "lock", "send", "wait"}
          /\ rxPc \in {"sleep", "poll", "clear", "service", "lock", "receive"}
        BY DEF Init
    <2> QED
        BY <2>1, <2>2, <2>3, <2>4 DEF TypeOK
<1>2. Counted
    BY DEF Init, Counted
<1> QED
    BY <1>1, <1>2 DEF TypeInv

LEMMA TypeNext == TypeInv /\ [Next]_vars => TypeInv'
<1> SUFFICES ASSUME TypeInv, [Next]_vars PROVE TypeInv'
    OBVIOUS
<1> USE WiznetDriverAssumption DEF TypeInv, TypeOK, Counted, Bits, Frame
<1>1. ASSUME NEW bad \in BOOLEAN, FrameArrives(bad) PROVE TypeInv'
    BY <1>1 DEF FrameArrives, Raise, driver, txThread, rxThread
<1>2. CASE DatagramSent
    BY <1>2 DEF DatagramSent, Raise, driver, txThread, rxThread
<1>3. CASE LeanWiznet_SetRxCallback
    BY <1>3 DEF LeanWiznet_SetRxCallback, txThread, rxThread
<1>4. CASE EnqueueEthTx
    BY <1>4 DEF EnqueueEthTx, txThread, rxThread
<1>5. CASE TxGet
    BY <1>5 DEF TxGet, rxThread
<1>6. CASE TxLock
    BY <1>6 DEF TxLock, rxThread
<1>7. CASE TxWriteFails
    BY <1>7 DEF TxWriteFails, TxReturn, rxThread
<1>8. CASE TxSend
    BY <1>8 DEF TxSend, driver, rxThread
<1>9. CASE TxTake
    BY <1>9 DEF TxTake, TxReturn, rxThread
<1>10. CASE TxTimeout
    BY <1>10 DEF TxTimeout, TxReturn, rxThread
<1>11. CASE RxWake
    BY <1>11 DEF RxWake, driver, txThread
<1>19. CASE RxIdle
    BY <1>19 DEF RxIdle, driver, txThread
<1>18. CASE RxReadIr
    <2>1. rxIr' = ir /\ rxPc' = "clear"
        BY <1>18 DEF RxReadIr
    <2>2. UNCHANGED <<driver, int_sem, txThread, ir, chipTx, chipRx, enqueued, arrived>>
        BY <1>18 DEF RxReadIr
    <2>3. rxIr' \subseteq Bits
        BY <2>1
    <2>4. TypeOK'
        BY <2>1, <2>2, <2>3 DEF driver, txThread
    <2>5. Counted'
        BY <2>2 DEF driver, txThread
    <2> QED
        BY <2>4, <2>5
<1>12. CASE RxClearIr
    BY <1>12 DEF RxClearIr, driver, txThread
<1>16. CASE RxService
    BY <1>16 DEF RxService, txThread
<1>17. CASE RxLock
    BY <1>17 DEF RxLock, txThread
<1>13. CASE RxNothing
    BY <1>13 DEF RxNothing, RxReturn, txThread
<1>14. CASE RxFrame
    <2>1. ethRxQueue' \in Seq(1..MaxRx)
        <3>1. chipRx \in Seq(Frame) /\ ethRxQueue \in Seq(1..MaxRx)
            OBVIOUS
        <3>2. chipRx # <<>>
            BY <1>14 DEF RxFrame
        <3>3. Head(chipRx) \in Frame
            BY ONLY <3>1, <3>2, HeadIn
        <3>4. Head(chipRx).id \in 1..MaxRx
            BY ONLY <3>3 DEF Frame
        <3>5. Append(ethRxQueue, Head(chipRx).id) \in Seq(1..MaxRx)
            BY ONLY <3>1, <3>4, AppendIn
        <3>6. ethRxQueue' \in {Append(ethRxQueue, Head(chipRx).id), ethRxQueue}
            BY <1>14 DEF RxFrame
        <3> QED
            BY ONLY <3>1, <3>5, <3>6
    <2>2. chipRx' \in Seq(Frame)
        BY <1>14 DEF RxFrame, RxReturn
    <2>3. ir' \subseteq Bits /\ int_sem' \in Nat
        <3>1. ir \subseteq Bits /\ int_sem \in Nat /\ "RECV" \in Bits
            OBVIOUS
        <3>2. Raise("RECV") \/ UNCHANGED <<ir, int_sem>>
            BY <1>14 DEF RxFrame
        <3> QED
            BY ONLY <3>1, <3>2, RaiseType
    <2> QED
        BY <1>14, <2>1, <2>2, <2>3 DEF RxFrame, RxReturn, txThread
<1>15. CASE UNCHANGED vars
    BY <1>15 DEF vars, driver, txThread, rxThread
<1> QED
    BY <1>1, <1>2, <1>3, <1>4, <1>5, <1>6, <1>7, <1>8, <1>9, <1>10, <1>11,
       <1>12, <1>13, <1>14, <1>15, <1>16, <1>17, <1>18, <1>19 DEF Next, TxThread, RxThread

\* Every variable of the driver and of the chip has its type in every state
\* (w5500_tx_thread, w5500_rx_thread and what they call).
THEOREM TypeCorrect == Spec => []TypeOK
<1>1. TypeInv => TypeOK
    BY DEF TypeInv
<1> QED
    BY TypeInit, TypeNext, <1>1, PTL DEF Spec

\* The RX thread never sleeps while the interrupt line is asserted, unless
\* int_sem has a token for it (the loop of w5500_rx_thread around the level of
\* the line, against the edge that calls w5500_gpio_callback).
THEOREM InterruptsSeen == Spec => []NoLostInterrupt
<1>1. Init => NoLostInterrupt
    BY DEF Init, NoLostInterrupt
<1>2. TypeInv /\ NoLostInterrupt /\ [Next]_vars => NoLostInterrupt'
    <2> SUFFICES ASSUME TypeInv, NoLostInterrupt, [Next]_vars PROVE NoLostInterrupt'
        OBVIOUS
    <2> USE DEF TypeInv, TypeOK, NoLostInterrupt
    <2>1. ASSUME NEW bad \in BOOLEAN, FrameArrives(bad) PROVE NoLostInterrupt'
        BY <2>1 DEF FrameArrives, Raise, rxThread
    <2>2. CASE DatagramSent
        BY <2>2 DEF DatagramSent, Raise, rxThread
    <2>3. CASE LeanWiznet_SetRxCallback \/ EnqueueEthTx
        BY <2>3 DEF LeanWiznet_SetRxCallback, EnqueueEthTx, rxThread
    <2>4. CASE TxThread
        BY <2>4 DEF TxThread, TxGet, TxLock, TxWriteFails, TxSend, TxTake, TxTimeout,
                    TxReturn, rxThread
    <2>5. CASE RxThread
        BY <2>5 DEF RxThread, RxWake, RxIdle, RxReadIr, RxClearIr, RxService, RxLock,
                    RxNothing, RxFrame, RxReturn, Raise
    <2>6. CASE UNCHANGED vars
        BY <2>6 DEF vars, rxThread
    <2> QED
        BY <2>1, <2>2, <2>3, <2>4, <2>5, <2>6 DEF Next
<1> QED
    BY TypeInit, TypeNext, <1>1, <1>2, PTL DEF Spec

\* The tokens of tx_sem that are still to come from sent datagrams: the RX
\* thread has one in its copy of the register, and the register has one that
\* is not cleared with that copy.  SENDOKs that meet in a bit make one token.
Held == IF rxPc \in {"clear", "service"} /\ "SENDOK" \in rxIr THEN 1 ELSE 0
Raised ==
    IF "SENDOK" \in ir /\ ~(rxPc = "clear" /\ "SENDOK" \in rxIr) THEN 1 ELSE 0
TokenInv ==
    Len(chipTx) + tx_sem + Held + Raised
        <= timeouts + (IF txPc = "wait" THEN 2 ELSE 1)

LEMMA TokenNext == TypeInv /\ TokenInv /\ [Next]_vars => TokenInv'
<1> SUFFICES ASSUME TypeInv, TokenInv, [Next]_vars PROVE TokenInv'
    OBVIOUS
<1> USE DEF TypeInv, TypeOK, TokenInv, Held, Raised
<1>1. ASSUME NEW bad \in BOOLEAN, FrameArrives(bad) PROVE TokenInv'
    BY <1>1 DEF FrameArrives, Raise, driver, txThread, rxThread
<1>2. CASE DatagramSent
    BY <1>2 DEF DatagramSent, Raise, driver, txThread, rxThread
<1>3. CASE LeanWiznet_SetRxCallback \/ EnqueueEthTx
    BY <1>3 DEF LeanWiznet_SetRxCallback, EnqueueEthTx, txThread, rxThread
<1>4. CASE TxGet \/ TxLock
    BY <1>4 DEF TxGet, TxLock, rxThread
<1>5. CASE TxWriteFails
    BY <1>5 DEF TxWriteFails, TxReturn, rxThread
<1>6. CASE TxSend
    BY <1>6 DEF TxSend, driver, rxThread
<1>7. CASE TxTake
    BY <1>7 DEF TxTake, TxReturn, rxThread
<1>15. CASE TxTimeout
    <2>1. Held' = Held /\ Raised' = Raised
        BY <1>15 DEF TxTimeout, TxReturn, rxThread
    <2>2. Len(chipTx) \in Nat /\ Held \in Nat /\ Raised \in Nat
        OBVIOUS
    <2>3. /\ txPc = "wait" /\ txPc' = "get" /\ timeouts' = timeouts + 1
          /\ chipTx' = chipTx /\ tx_sem' = tx_sem
        BY <1>15 DEF TxTimeout, TxReturn
    <2>4. Len(chipTx) + tx_sem + Held + Raised <= timeouts + 2
        BY <2>3
    <2> HIDE DEF Held, Raised
    <2> QED
        BY <2>1, <2>2, <2>3, <2>4
<1>8. CASE RxWake \/ RxIdle
    BY <1>8 DEF RxWake, RxIdle, driver, txThread
<1>9. CASE RxReadIr
    BY <1>9 DEF RxReadIr, driver, txThread
<1>10. CASE RxClearIr
    BY <1>10 DEF RxClearIr, driver, txThread
<1>11. CASE RxService
    <2>1. tx_sem' = tx_sem + Held /\ Held' = 0 /\ Raised' = Raised
        BY <1>11 DEF RxService, txThread
    <2>2. Len(chipTx) \in Nat /\ Held \in Nat /\ Raised \in Nat
        OBVIOUS
    <2>3. UNCHANGED <<chipTx, timeouts, txPc>>
        BY <1>11 DEF RxService, txThread
    <2> HIDE DEF Held, Raised
    <2> QED
        BY <2>1, <2>2, <2>3
<1>12. CASE RxLock \/ RxNothing
    BY <1>12 DEF RxLock, RxNothing, RxReturn, txThread
<1>13. CASE RxFrame
    BY <1>13 DEF RxFrame, RxReturn, Raise, txThread
<1>14. CASE UNCHANGED vars
    BY <1>14 DEF vars, driver, txThread, rxThread
<1> QED
    BY <1>1, <1>2, <1>3, <1>4, <1>5, <1>6, <1>7, <1>8, <1>9, <1>10, <1>11,
       <1>12, <1>13, <1>14, <1>15 DEF Next, TxThread, RxThread

\* The chip never holds more than two unsent datagrams and one more for each
\* time the TX thread gave up waiting (w5500_tx, whose semaphore starts at 1).
THEOREM ChipBounded == Spec => []ChipNotOverrun
<1>1. Init => TokenInv
    BY DEF Init, TokenInv, Held, Raised
<1>2. TypeInv /\ TokenInv => ChipNotOverrun
    BY DEF TypeInv, TypeOK, TokenInv, Held, Raised, ChipNotOverrun
<1> QED
    BY TypeInit, TypeNext, TokenNext, <1>1, <1>2, PTL DEF Spec

-----------------------------------------------------------------------------
(* The driver with its start-up and the buffers.                           *)

LEMMA RingStep == [RingNext]_allVars => [Next]_vars
<1> SUFFICES ASSUME [RingNext]_allVars PROVE [Next]_vars
    OBVIOUS
<1>1. CASE InitStep
    BY <1>1 DEF InitStep
<1>2. CASE RingSetRxCallback
    BY <1>2 DEF RingSetRxCallback, Next
<1>3. ASSUME NEW bad \in BOOLEAN, RingFrameArrives(bad) PROVE Next
    BY <1>3 DEF RingFrameArrives, Next
<1>4. CASE RingRxThread
    BY <1>4 DEF RingRxThread, RingRxFrame, RingRxNothing, RxThread, Next
<1>5. CASE RingEnqueueEthTx
    BY <1>5 DEF RingEnqueueEthTx, Next
<1>6. CASE RingTxThread
    BY <1>6 DEF RingTxThread, RingTxSend, RingTxWriteFails, TxThread, Next
<1>7. CASE RingDatagramSent
    BY <1>7 DEF RingDatagramSent, Next
<1>8. CASE UNCHANGED allVars
    BY <1>8 DEF allVars
<1> QED
    BY <1>1, <1>2, <1>3, <1>4, <1>5, <1>6, <1>7, <1>8 DEF RingNext

\* Every action of WiznetBuffers has one of WiznetDriver as a conjunct or leaves
\* its variables alone, so it makes no step that WiznetDriver does not make.
\* That is how the module is written; it carries invariants over.
LEMMA BuffersImplementDriver == RingSpec => Spec
<1>1. RingInit => Init
    BY DEF RingInit
<1> QED
    BY <1>1, RingStep, PTL DEF RingSpec, Spec

\* The three invariants, of the specification that the run WiznetBuffers checks.
THEOREM BuffersInvariants == RingSpec => [](TypeOK /\ NoLostInterrupt /\ ChipNotOverrun)
    BY BuffersImplementDriver, TypeCorrect, InterruptsSeen, ChipBounded, PTL

-----------------------------------------------------------------------------
(* Addresses go round: a pointer is a position in an endless buffer modulo *)
(* PtrMod, and its address that position modulo MemSize.                   *)

LEMMA Divided ==
    ASSUME NEW a \in Int, NEW m \in Nat \ {0}
    PROVE  a % m \in 0..m - 1 /\ a \div m \in Int /\ a = (a \div m) * m + (a % m)
OBVIOUS

LEMMA Remainder ==
    ASSUME NEW q \in Int, NEW m \in Nat \ {0}, NEW r \in 0..m - 1
    PROVE  (q * m + r) % m = r
OBVIOUS

\* Whole turns make no difference.
LEMMA Turns ==
    ASSUME NEW a \in Int, NEW t \in Int, NEW m \in Nat \ {0}
    PROVE  (a + t * m) % m = a % m
<1>1. a = (a \div m) * m + (a % m) /\ a \div m \in Int /\ a % m \in 0..m - 1
    BY Divided
<1>2. a + t * m = ((a \div m) + t) * m + (a % m)
    BY <1>1
<1>3. (a \div m) + t \in Int
    BY <1>1
<1> QED
    BY <1>1, <1>2, <1>3, Remainder

LEMMA Opposite ==
    ASSUME NEW r \in Int, NEW t \in Int, NEW m \in Int, NEW n \in Int
    PROVE  /\ r + n = ((t * m + r) + n) + (-t) * m
           /\ n - r = (n - (t * m + r)) + t * m
<1>1. t * m \in Int /\ (-t) * m = -(t * m)
    OBVIOUS
<1> QED
    BY <1>1

LEMMA NoTurn ==
    ASSUME NEW m \in Nat \ {0}, NEW r \in 0..m - 1
    PROVE  r % m = r
OBVIOUS

LEMMA Sizes ==
    /\ MemSize \in Nat \ {0} /\ PtrMod \in Nat \ {0}
    /\ \E k \in Int : PtrMod = k * MemSize
<1>1. MemSize \in Nat \ {0} /\ PtrMod \in Nat \ {0} /\ PtrMod % MemSize = 0
    BY WiznetBuffersAssumption
<1>2. PtrMod \div MemSize \in Int
      /\ PtrMod = (PtrMod \div MemSize) * MemSize + (PtrMod % MemSize)
    BY <1>1, Divided
<1>3. PtrMod = (PtrMod \div MemSize) * MemSize
    BY <1>1, <1>2
<1> QED
    BY <1>1, <1>2, <1>3

\* The pointer to position x, what is n bytes further, and their addresses.
LEMMA Pointers ==
    ASSUME NEW x \in Int, NEW n \in Int
    PROVE  /\ x % PtrMod \in 0..PtrMod - 1
           /\ ((x % PtrMod) + n) % PtrMod = (x + n) % PtrMod
           /\ ((x % PtrMod) + n) % MemSize = (x + n) % MemSize
           /\ (n - (x % PtrMod)) % MemSize = (n - x) % MemSize
           /\ (n - (x % PtrMod)) % PtrMod = (n - x) % PtrMod
<1> DEFINE t == x \div PtrMod
           r == x % PtrMod
<1>1. r \in 0..PtrMod - 1 /\ t \in Int /\ x = t * PtrMod + r
    BY Sizes, Divided
<1> HIDE DEF t, r
<1>2. r \in Int /\ -t \in Int /\ x + n \in Int /\ n - x \in Int /\ PtrMod \in Int
    BY <1>1, Sizes
<1>3. r + n = (x + n) + (-t) * PtrMod /\ n - r = (n - x) + t * PtrMod
    BY <1>1, <1>2, Opposite
<1> DEFINE y == x + n
           z == n - x
<1>y. y \in Int /\ z \in Int /\ r + n = y + (-t) * PtrMod /\ n - r = z + t * PtrMod
    BY <1>2, <1>3
<1>4. (r + n) % PtrMod = y % PtrMod /\ (n - r) % PtrMod = z % PtrMod
    <2> HIDE DEF y, z
    <2>1. (y + (-t) * PtrMod) % PtrMod = y % PtrMod
        BY <1>2, <1>y, Sizes, Turns
    <2>2. (z + t * PtrMod) % PtrMod = z % PtrMod
        BY <1>1, <1>y, Sizes, Turns
    <2> QED
        BY <1>y, <2>1, <2>2
<1>5. PICK k \in Int : PtrMod = k * MemSize
    BY Sizes
<1>6. (-t) * k \in Int /\ t * k \in Int
    BY <1>1, <1>5
<1>7. (-t) * (k * MemSize) = ((-t) * k) * MemSize /\ t * (k * MemSize) = (t * k) * MemSize
    BY <1>1, <1>5, Sizes
<1>8. (r + n) % MemSize = y % MemSize /\ (n - r) % MemSize = z % MemSize
    <2> HIDE DEF y, z
    <2>1. r + n = y + ((-t) * k) * MemSize /\ n - r = z + (t * k) * MemSize
        BY <1>y, <1>5, <1>7
    <2>2. MemSize \in Nat \ {0}
        BY Sizes
    <2>3. (y + ((-t) * k) * MemSize) % MemSize = y % MemSize
        BY <1>6, <1>y, <2>2, Turns
    <2>4. (z + (t * k) * MemSize) % MemSize = z % MemSize
        BY <1>6, <1>y, <2>2, Turns
    <2> QED
        BY <2>1, <2>3, <2>4
<1> QED
    BY <1>1, <1>4, <1>8 DEF r

\* The address of a position as the chip counts it from a pointer on.
LEMMA Addresses ==
    ASSUME NEW x \in Int, NEW w \in Int
    PROVE  /\ x % MemSize \in 0..MemSize - 1
           /\ ((x % MemSize) - (w % PtrMod)) % MemSize = (x - w) % MemSize
<1> DEFINE t == x \div MemSize
           r == x % MemSize
<1>1. r \in 0..MemSize - 1 /\ t \in Int /\ x = t * MemSize + r
    BY Sizes, Divided
<1> HIDE DEF t, r
<1>2. r \in Int /\ -t \in Int /\ MemSize \in Nat \ {0} /\ -w \in Int /\ x - w \in Int
    BY <1>1, Sizes
<1>3. (r - (w % PtrMod)) % MemSize = (r - w) % MemSize
    BY <1>2, Pointers
<1>4. r + (-w) = (x + (-w)) + (-t) * MemSize
    BY <1>1, <1>2, Opposite
<1>5. r - w = (x - w) + (-t) * MemSize
    BY <1>2, <1>4
<1>6. (r - w) % MemSize = (x - w) % MemSize
    <2> DEFINE y == x - w
    <2>1. y \in Int /\ r - w = y + (-t) * MemSize
        BY <1>2, <1>5
    <2> HIDE DEF y
    <2>2. (y + (-t) * MemSize) % MemSize = y % MemSize
        BY <1>2, <2>1, Turns
    <2>3. (r - w) % MemSize = y % MemSize
        BY <2>1, <2>2
    <2> QED
        BY <2>3 DEF y
<1> QED
    BY <1>1, <1>3, <1>6 DEF r

-----------------------------------------------------------------------------
(* The driver, which copies in two parts, goes round like the chip.        *)

LEMMA Split ==
    ASSUME NEW offset \in 0..MemSize - 1, NEW len \in 0..MemSize
    PROVE  LET part == AtEnd(offset, len) IN
           /\ part.first \in 0..len /\ part.remain = len - part.first
           /\ offset + part.first <= MemSize
           /\ part.remain > 0 => part.first = MemSize - offset
<1>1. CASE offset + len > MemSize
    <2>1. offset + len = 1 * MemSize + (offset + len - MemSize)
        BY Sizes
    <2>2. offset + len - MemSize \in 0..MemSize - 1
        BY <1>1, Sizes
    <2>3. (offset + len) % MemSize = offset + len - MemSize
        BY <2>1, <2>2, Remainder, Sizes
    <2> QED
        BY <1>1, <2>3, Sizes DEF AtEnd
<1>2. CASE ~(offset + len > MemSize)
    BY <1>2, Sizes DEF AtEnd
<1> QED
    BY <1>1, <1>2

\* The address of the i-th byte from an offset on.
LEMMA Wrap ==
    ASSUME NEW ptr \in Int, NEW i \in 1..MemSize
    PROVE  LET offset == ptr % MemSize IN
           /\ offset \in 0..MemSize - 1
           /\ offset + i <= MemSize => (ptr + i - 1) % MemSize = offset + i - 1
           /\ offset + i > MemSize => (ptr + i - 1) % MemSize = offset + i - 1 - MemSize
<1> DEFINE offset == ptr % MemSize
           t == ptr \div MemSize
<1>1. offset \in 0..MemSize - 1 /\ t \in Int /\ ptr = t * MemSize + offset
    BY Sizes, Divided
<1> HIDE DEF offset, t
<1>2. offset \in Int /\ MemSize \in Nat \ {0} /\ t + 1 \in Int /\ t * MemSize \in Int
    BY <1>1, Sizes
<1>3. ASSUME offset + i <= MemSize PROVE (ptr + i - 1) % MemSize = offset + i - 1
    <2>1. ptr + i - 1 = t * MemSize + (offset + i - 1) /\ offset + i - 1 \in 0..MemSize - 1
        BY <1>1, <1>2, <1>3
    <2> QED
        BY <1>1, <1>2, <2>1, Remainder
<1>4. ASSUME offset + i > MemSize PROVE (ptr + i - 1) % MemSize = offset + i - 1 - MemSize
    <2>1. (t + 1) * MemSize = t * MemSize + MemSize
        BY <1>1, <1>2
    <2>2. ptr + i - 1 = (t + 1) * MemSize + (offset + i - 1 - MemSize)
        BY <1>1, <1>2, <2>1
    <2>3. offset + i - 1 - MemSize \in 0..MemSize - 1
        BY <1>1, <1>2, <1>4
    <2> QED
        BY <1>2, <2>2, <2>3, Remainder
<1> QED
    BY <1>1, <1>3, <1>4 DEF offset

Memory(mem) == DOMAIN mem = 0..MemSize - 1

\* Reading in two parts is reading round.
LEMMA ReadGoesRound ==
    ASSUME NEW mem, Memory(mem), NEW ptr \in Int, NEW len \in 0..MemSize
    PROVE  w5500_readbuf(mem, ptr, len) = RoundRead(mem, ptr, len)
<1> DEFINE S == {mem[a] : a \in 0..MemSize - 1} \cup {<<0, 0>>}
           offset == ptr % MemSize
           first == AtEnd(offset, len).first
           remain == AtEnd(offset, len).remain
           s1 == spi_read(mem, offset, first)
           s2 == spi_read(mem, 0, remain)
           t == RoundRead(mem, ptr, len)
<1>m. MemSize \in Nat \ {0} /\ len \in Nat
    BY Sizes
<1>o. offset \in 0..MemSize - 1
    BY <1>m, Divided
<1>p. /\ first \in 0..len /\ remain = len - first
      /\ offset + first <= MemSize
      /\ remain > 0 => first = MemSize - offset
    BY <1>o, Split
<1>d. /\ DOMAIN mem = 0..MemSize - 1
      /\ \A a \in 0..MemSize - 1 : mem[a] \in S
      /\ <<0, 0>> \in S
    BY DEF Memory
<1>w. ASSUME NEW i \in 1..MemSize
      PROVE  /\ offset + i <= MemSize => (ptr + i - 1) % MemSize = offset + i - 1
             /\ offset + i > MemSize => (ptr + i - 1) % MemSize = offset + i - 1 - MemSize
    BY Wrap
<1>x. w5500_readbuf(mem, ptr, len) = s1 \o s2
    BY DEF w5500_readbuf
<1>y. \A i \in 1..len : (ptr + i - 1) % MemSize \in 0..MemSize - 1
    BY <1>m, Divided
<1>e. /\ s1 = [i \in 1..first |->
                 IF offset + i - 1 \in DOMAIN mem THEN mem[offset + i - 1] ELSE <<0, 0>>]
      /\ s2 = [i \in 1..remain |->
                 IF 0 + i - 1 \in DOMAIN mem THEN mem[0 + i - 1] ELSE <<0, 0>>]
      /\ t = [i \in 1..len |-> mem[(ptr + i - 1) % MemSize]]
    BY DEF spi_read, RoundRead
<1> HIDE DEF S, offset, first, remain, s1, s2, t
<1>1. s1 \in Seq(S) /\ Len(s1) = first
    BY <1>d, <1>e, <1>p, <1>m
<1>2. s2 \in Seq(S) /\ Len(s2) = remain
    BY <1>d, <1>e, <1>p, <1>m
<1>3. t \in Seq(S) /\ Len(t) = len
    BY <1>d, <1>e, <1>y, <1>m
<1>4. /\ s1 \o s2 \in Seq(S) /\ Len(s1 \o s2) = first + remain
      /\ \A i \in 1..first + remain :
            (s1 \o s2)[i] = IF i <= first THEN s1[i] ELSE s2[i - first]
    BY <1>1, <1>2, ConcatProperties
<1>5. first + remain = len
    BY <1>m, <1>p
<1>6. ASSUME NEW i \in 1..len PROVE (s1 \o s2)[i] = t[i]
    <2>1. t[i] = mem[(ptr + i - 1) % MemSize]
        BY <1>e
    <2>2. i \in 1..MemSize /\ i \in Int
        BY <1>m
    <2>3. CASE i <= first
        <3>1. (s1 \o s2)[i] = s1[i]
            BY <1>4, <1>5, <2>3
        <3>2. offset + i - 1 \in 0..MemSize - 1 /\ offset + i <= MemSize /\ i \in 1..first
            BY <1>m, <1>o, <1>p, <2>2, <2>3
        <3>3. s1[i] = mem[offset + i - 1]
            BY <1>d, <1>e, <3>2
        <3> QED
            BY <1>w, <2>1, <2>2, <3>1, <3>2, <3>3
    <2>4. CASE i > first
        <3>1. (s1 \o s2)[i] = s2[i - first]
            BY <1>4, <1>5, <1>p, <1>m, <2>2, <2>4
        <3>2. /\ i - first \in 1..remain /\ first = MemSize - offset
              /\ i - first - 1 \in 0..MemSize - 1 /\ offset + i > MemSize
            BY <1>m, <1>o, <1>p, <2>2, <2>4
        <3>3. s2[i - first] = mem[0 + (i - first) - 1]
            BY <1>d, <1>e, <3>2
        <3>4. 0 + (i - first) - 1 = offset + i - 1 - MemSize
            BY <1>m, <1>o, <2>2, <3>2
        <3> QED
            BY <1>w, <2>1, <2>2, <3>1, <3>2, <3>3, <3>4
    <2>5. i <= first \/ i > first
        BY <1>m, <1>p, <2>2
    <2> QED
        BY <2>3, <2>4, <2>5
<1>7. s1 \o s2 = t
    BY <1>3, <1>4, <1>5, <1>6, SeqEqual
<1> QED
    BY <1>7, <1>x DEF t

\* How far an address is from a pointer, on the way round.
LEMMA Distance ==
    ASSUME NEW ptr \in Int, NEW a \in 0..MemSize - 1
    PROVE  LET offset == ptr % MemSize IN
           /\ offset \in 0..MemSize - 1
           /\ (a - ptr) % MemSize = IF a >= offset THEN a - offset ELSE a - offset + MemSize
<1> DEFINE offset == ptr % MemSize
           t == ptr \div MemSize
<1>1. /\ offset \in 0..MemSize - 1 /\ t \in Int /\ ptr = t * MemSize + offset
      /\ MemSize \in Nat \ {0}
    BY Sizes, Divided
<1> HIDE DEF offset, t
<1>2. /\ offset \in Int /\ a \in Int /\ -t \in Int /\ -t - 1 \in Int
      /\ (-t) * MemSize \in Int /\ t * MemSize \in Int
    BY <1>1
<1>3. (-t) * MemSize = -(t * MemSize) /\ (-t - 1) * MemSize = -(t * MemSize) - MemSize
    BY <1>1
<1>4. ASSUME a >= offset PROVE (a - ptr) % MemSize = a - offset
    <2> DEFINE y == a - offset
    <2>1. a - ptr = (-t) * MemSize + y /\ y \in 0..MemSize - 1
        BY <1>1, <1>2, <1>3, <1>4
    <2> HIDE DEF y
    <2>2. ((-t) * MemSize + y) % MemSize = y
        BY <1>1, <1>2, <2>1, Remainder
    <2>3. (a - ptr) % MemSize = y
        BY <2>1, <2>2
    <2> QED
        BY <2>3 DEF y
<1>5. ASSUME ~(a >= offset) PROVE (a - ptr) % MemSize = a - offset + MemSize
    <2> DEFINE y == a - offset + MemSize
    <2>1. a - ptr = (-t - 1) * MemSize + y /\ y \in 0..MemSize - 1
        BY <1>1, <1>2, <1>3, <1>5
    <2> HIDE DEF y
    <2>2. ((-t - 1) * MemSize + y) % MemSize = y
        BY <1>1, <1>2, <2>1, Remainder
    <2>3. (a - ptr) % MemSize = y
        BY <2>1, <2>2
    <2> QED
        BY <2>3 DEF y
<1>6. (a - ptr) % MemSize = IF a >= offset THEN a - offset ELSE a - offset + MemSize
    BY <1>4, <1>5
<1> QED
    BY <1>1, <1>6 DEF offset

\* Writing what fits before the end of the buffer is writing round.
LEMMA PartGoesRound ==
    ASSUME NEW mem, Memory(mem), NEW ptr \in Int, NEW S, NEW buf \in Seq(S),
           (ptr % MemSize) + Len(buf) <= MemSize
    PROVE  spi_write(mem, ptr % MemSize, buf) = RoundWrite(mem, ptr, buf)
<1>1. DOMAIN buf = 1..Len(buf) /\ Len(buf) \in Nat /\ MemSize \in Nat \ {0}
    BY Sizes, LenProperties
<1>2. ASSUME NEW a \in DOMAIN mem
      PROVE  (IF a - (ptr % MemSize) + 1 \in DOMAIN buf THEN buf[a - (ptr % MemSize) + 1] ELSE mem[a])
             = (IF ((a - ptr) % MemSize) + 1 <= Len(buf)
                THEN buf[((a - ptr) % MemSize) + 1] ELSE mem[a])
    <2> DEFINE offset == ptr % MemSize
               d == (a - ptr) % MemSize
    <2>1. a \in 0..MemSize - 1
        BY DEF Memory
    <2>2. offset \in 0..MemSize - 1 /\ d = IF a >= offset THEN a - offset ELSE a - offset + MemSize
        BY <2>1, Distance
    <2>3. offset + Len(buf) <= MemSize
        OBVIOUS
    <2> HIDE DEF offset, d
    <2>4. (IF a - offset + 1 \in DOMAIN buf THEN buf[a - offset + 1] ELSE mem[a])
          = (IF d + 1 <= Len(buf) THEN buf[d + 1] ELSE mem[a])
        <3>1. CASE a >= offset
            <4>1. d = a - offset /\ d + 1 \in Nat \ {0} /\ a - offset + 1 = d + 1
                BY <1>1, <2>1, <2>2, <3>1
            <4>2. d + 1 \in DOMAIN buf <=> d + 1 <= Len(buf)
                BY <1>1, <4>1
            <4> QED
                BY <4>1, <4>2
        <3>2. CASE ~(a >= offset)
            <4>1. d + 1 > Len(buf) /\ ~(d + 1 <= Len(buf)) /\ ~(a - offset + 1 \in 1..Len(buf))
                BY <1>1, <2>1, <2>2, <2>3, <3>2
            <4> QED
                BY <1>1, <4>1
        <3> QED
            BY <3>1, <3>2
    <2> QED
        BY <2>4 DEF offset, d
<1> QED
    BY <1>2 DEF spi_write, RoundWrite

\* Writing in two parts is writing round.
LEMMA WriteGoesRound ==
    ASSUME NEW mem, Memory(mem), NEW ptr \in Int, NEW S, NEW buf \in Seq(S), Len(buf) <= MemSize
    PROVE  w5500_writebuf(mem, ptr, buf) = RoundWrite(mem, ptr, buf)
<1> DEFINE offset == ptr % MemSize
           first == AtEnd(offset, Len(buf)).first
           remain == AtEnd(offset, Len(buf)).remain
           buf1 == SubSeq(buf, 1, first)
           buf2 == SubSeq(buf, first + 1, first + remain)
           inner == spi_write(mem, offset, buf1)
<1>m. MemSize \in Nat \ {0} /\ Len(buf) \in 0..MemSize /\ Len(buf) \in Nat
    BY Sizes, LenProperties
<1>o. offset \in 0..MemSize - 1
    BY <1>m, Divided
<1>p. /\ first \in 0..Len(buf) /\ remain = Len(buf) - first
      /\ offset + first <= MemSize
      /\ remain > 0 => first = MemSize - offset
    BY <1>m, <1>o, Split
<1>q. \A i \in 1..Len(buf) : buf[i] \in S
    BY ElementOfSeq
<1>x. w5500_writebuf(mem, ptr, buf) = spi_write(inner, 0, buf2)
    BY DEF w5500_writebuf
<1>d. \A a \in DOMAIN mem : ((a - ptr) % MemSize) = IF a >= offset THEN a - offset ELSE a - offset + MemSize
    BY Distance DEF Memory
<1>e. /\ inner = [a \in DOMAIN mem |->
                    IF a - offset + 1 \in DOMAIN buf1 THEN buf1[a - offset + 1] ELSE mem[a]]
      /\ spi_write(inner, 0, buf2) = [a \in DOMAIN inner |->
                    IF a - 0 + 1 \in DOMAIN buf2 THEN buf2[a - 0 + 1] ELSE inner[a]]
    BY DEF spi_write
<1>1. /\ buf1 \in Seq(S) /\ Len(buf1) = first
      /\ \A i \in 1..first : buf1[i] = buf[i]
    <2> HIDE DEF first
    <2>1. \A i \in 1..first : buf[i] \in S
        BY <1>m, <1>p, <1>q
    <2>2. /\ buf1 \in Seq(S) /\ Len(buf1) = IF 1 <= first THEN first - 1 + 1 ELSE 0
          /\ \A i \in 1..first - 1 + 1 : buf1[i] = buf[1 + i - 1]
        BY <1>p, <2>1, SubSeqProperties
    <2> HIDE DEF buf1
    <2> QED
        BY <1>m, <1>p, <2>2
<1>2. /\ buf2 \in Seq(S) /\ Len(buf2) = remain
      /\ \A i \in 1..remain : buf2[i] = buf[first + i]
    <2> HIDE DEF first, remain
    <2>1. \A i \in first + 1..first + remain : buf[i] \in S
        BY <1>m, <1>p, <1>q
    <2> DEFINE lo == first + 1
               hi == first + remain
    <2>2. lo \in Int /\ hi \in Int /\ \A i \in lo..hi : buf[i] \in S
        BY <1>m, <1>p, <2>1
    <2>3. buf2 = SubSeq(buf, lo, hi)
        OBVIOUS
    <2> HIDE DEF buf2, lo, hi
    <2>4. /\ buf2 \in Seq(S)
          /\ Len(buf2) = IF lo <= hi THEN hi - lo + 1 ELSE 0
          /\ \A i \in 1..hi - lo + 1 : buf2[i] = buf[lo + i - 1]
        BY <2>2, <2>3, SubSeqProperties
    <2>5. /\ hi - lo + 1 = remain /\ remain \in Nat /\ first \in Int /\ lo = first + 1
          /\ (lo <= hi <=> remain # 0)
        BY <1>m, <1>p DEF lo, hi
    <2>6. Len(buf2) = remain
        BY <2>4, <2>5
    <2>7. ASSUME NEW i \in 1..remain PROVE buf2[i] = buf[first + i]
        <3>1. buf2[i] = buf[lo + i - 1]
            BY <2>4, <2>5
        <3>2. lo + i - 1 = first + i
            BY <2>5
        <3> QED
            BY <3>1, <3>2
    <2> QED
        BY <2>4, <2>6, <2>7
<1>3. DOMAIN buf1 = 1..first /\ DOMAIN buf2 = 1..remain
    BY <1>1, <1>2, LenProperties
<1> HIDE DEF offset, first, remain, buf1, buf2, inner
<1>4. DOMAIN inner = DOMAIN mem
    BY <1>e
<1>5. ASSUME NEW a \in DOMAIN mem
      PROVE  (IF a - 0 + 1 \in DOMAIN buf2 THEN buf2[a - 0 + 1] ELSE inner[a])
             = (IF ((a - ptr) % MemSize) + 1 <= Len(buf)
                THEN buf[((a - ptr) % MemSize) + 1] ELSE mem[a])
    <2>1. a \in 0..MemSize - 1 /\ a \in Int
        BY <1>m DEF Memory
    <2>2. inner[a] = IF a - offset + 1 \in DOMAIN buf1 THEN buf1[a - offset + 1] ELSE mem[a]
        BY <1>e
    <2> DEFINE d == (a - ptr) % MemSize
    <2>3. d = IF a >= offset THEN a - offset ELSE a - offset + MemSize
        BY <1>d
    <2> HIDE DEF d
    <2>4. (IF a - 0 + 1 \in DOMAIN buf2 THEN buf2[a - 0 + 1] ELSE inner[a])
          = (IF d + 1 <= Len(buf) THEN buf[d + 1] ELSE mem[a])
        <3>1. CASE a >= offset
            <4>1. /\ d = a - offset /\ a - offset + 1 = d + 1 /\ ~(a - 0 + 1 \in 1..remain)
                  /\ d + 1 \in 1..first <=> d + 1 <= Len(buf)
                BY <1>m, <1>o, <1>p, <2>1, <2>3, <3>1
            <4>2. ~(a - 0 + 1 \in DOMAIN buf2)
                BY <1>3, <4>1
            <4>3. inner[a] = IF d + 1 \in 1..first THEN buf[d + 1] ELSE mem[a]
                BY <1>1, <1>3, <2>2, <4>1
            <4> QED
                BY <4>1, <4>2, <4>3
        <3>2. CASE ~(a >= offset)
            <4>1. ~(a - offset + 1 \in 1..first)
                BY <1>m, <1>o, <1>p, <2>1, <3>2
            <4>2. inner[a] = mem[a]
                BY <1>3, <2>2, <4>1
            <4>3. /\ a + 1 \in 1..remain <=> d + 1 <= Len(buf)
                  /\ a + 1 \in 1..remain => first + (a + 1) = d + 1
                  /\ a - 0 + 1 = a + 1
                BY <1>m, <1>o, <1>p, <2>1, <2>3, <3>2
            <4>4. CASE a + 1 \in 1..remain
                <5>1. buf2[a + 1] = buf[d + 1]
                    BY <1>2, <4>3, <4>4
                <5> QED
                    BY <1>3, <4>3, <4>4, <5>1
            <4>5. CASE ~(a + 1 \in 1..remain)
                BY <1>3, <4>2, <4>3, <4>5
            <4> QED
                BY <4>4, <4>5
        <3> QED
            BY <3>1, <3>2
    <2> QED
        BY <2>4 DEF d
<1>6. spi_write(inner, 0, buf2) = RoundWrite(mem, ptr, buf)
    BY <1>4, <1>5, <1>e DEF RoundWrite
<1> QED
    BY <1>6, <1>x

\* A buffer has the bytes s from position p on.
Holds(mem, p, s) == \A k \in 1..Len(s) : mem[(p + k - 1) % MemSize] = s[k]

\* It has not changed but for n bytes from position w on.
Kept(mem, new, w, n) ==
    \A x \in Int : x < w /\ w - x + n <= MemSize => new[x % MemSize] = mem[x % MemSize]

\* What is written at position w is found there, and what was written less
\* than the buffer's size before its end is still there.
LEMMA Written ==
    ASSUME NEW mem, Memory(mem), NEW w \in Int, NEW ptr, ptr = w % PtrMod,
           NEW S, NEW buf \in Seq(S), Len(buf) <= MemSize
    PROVE  /\ Memory(RoundWrite(mem, ptr, buf))
           /\ Holds(RoundWrite(mem, ptr, buf), w, buf)
           /\ Kept(mem, RoundWrite(mem, ptr, buf), w, Len(buf))
<1>1. MemSize \in Nat \ {0} /\ Len(buf) \in Nat
    BY Sizes, LenProperties
<1>2. Memory(RoundWrite(mem, ptr, buf))
    BY DEF RoundWrite, Memory
<1>3. ASSUME NEW x \in Int
      PROVE  /\ x % MemSize \in 0..MemSize - 1
             /\ RoundWrite(mem, ptr, buf)[x % MemSize]
                = IF ((x - w) % MemSize) + 1 <= Len(buf) THEN buf[((x - w) % MemSize) + 1]
                  ELSE mem[x % MemSize]
    <2> DEFINE a == x % MemSize
               d == (x - w) % MemSize
    <2>1. a \in 0..MemSize - 1 /\ (a - ptr) % MemSize = d
        BY Addresses
    <2>2. a \in DOMAIN mem
        BY <2>1 DEF Memory
    <2>3. RoundWrite(mem, ptr, buf)[a] =
             IF ((a - ptr) % MemSize) + 1 <= Len(buf) THEN buf[((a - ptr) % MemSize) + 1] ELSE mem[a]
        BY <2>2 DEF RoundWrite
    <2> QED
        BY <2>1, <2>3
<1>4. ASSUME NEW k \in 1..Len(buf)
      PROVE  RoundWrite(mem, ptr, buf)[(w + k - 1) % MemSize] = buf[k]
    <2> DEFINE x == w + k - 1
    <2>1. x \in Int /\ x - w = k - 1 /\ k - 1 \in 0..MemSize - 1 /\ (k - 1) + 1 = k
        BY <1>1
    <2>2. (x - w) % MemSize = k - 1
        BY <1>1, <2>1, NoTurn
    <2> HIDE DEF x
    <2> DEFINE d == (x - w) % MemSize
    <2>3. RoundWrite(mem, ptr, buf)[x % MemSize]
          = IF d + 1 <= Len(buf) THEN buf[d + 1] ELSE mem[x % MemSize]
        BY <1>3, <2>1
    <2>4. d + 1 = k /\ d + 1 <= Len(buf)
        BY <1>1, <2>1, <2>2
    <2> HIDE DEF d
    <2>5. RoundWrite(mem, ptr, buf)[x % MemSize] = buf[k]
        BY <2>3, <2>4
    <2> QED
        BY <2>5 DEF x
<1>5. ASSUME NEW x \in Int, x < w, w - x + Len(buf) <= MemSize
      PROVE  RoundWrite(mem, ptr, buf)[x % MemSize] = mem[x % MemSize]
    <2> DEFINE d == x - w + MemSize
    <2>1. x - w = (-1) * MemSize + d /\ d \in 0..MemSize - 1 /\ ~(d + 1 <= Len(buf))
        BY <1>1, <1>5
    <2> HIDE DEF d
    <2>2. ((-1) * MemSize + d) % MemSize = d
        BY <1>1, <2>1, Remainder
    <2>3. (x - w) % MemSize = d
        BY <2>1, <2>2
    <2> QED
        BY <1>3, <2>1, <2>3
<1> QED
    BY <1>2, <1>4, <1>5 DEF Holds, Kept

LEMMA StillHolds ==
    ASSUME NEW mem, NEW new, NEW w \in Int, NEW n \in Int, NEW p \in Int,
           NEW S, NEW s \in Seq(S),
           Holds(mem, p, s), Kept(mem, new, w, n), p + Len(s) <= w, w - p + n <= MemSize
    PROVE  Holds(new, p, s)
<1> SUFFICES ASSUME NEW k \in 1..Len(s) PROVE new[(p + k - 1) % MemSize] = s[k]
    BY DEF Holds
<1>1. Len(s) \in Nat /\ MemSize \in Int
    BY Sizes, LenProperties
<1> DEFINE x == p + k - 1
<1>2. x \in Int /\ x < w /\ w - x + n <= MemSize
    BY <1>1
<1>3. mem[x % MemSize] = s[k]
    BY DEF Holds
<1> HIDE DEF x
<1>4. new[x % MemSize] = s[k]
    BY <1>2, <1>3 DEF Kept
<1> QED
    BY <1>4 DEF x

\* Reading from the pointer to position p is reading from that position.
LEMMA ReadFrom ==
    ASSUME NEW mem, Memory(mem), NEW p \in Int, NEW n \in Nat, NEW len \in 0..MemSize
    PROVE  /\ w5500_readbuf(mem, (p % PtrMod) + n, len) = RoundRead(mem, p + n, len)
           /\ RoundRead(mem, p % PtrMod, len) = RoundRead(mem, p, len)
<1>1. p % PtrMod \in Int
    BY Sizes, Divided
<1>2. ASSUME NEW k \in Int
      PROVE  /\ ((p % PtrMod) + n + k - 1) % MemSize = (p + n + k - 1) % MemSize
             /\ ((p % PtrMod) + k - 1) % MemSize = (p + k - 1) % MemSize
    <2> DEFINE r == p % PtrMod
    <2>1. (r + (n + k - 1)) % MemSize = (p + (n + k - 1)) % MemSize
        BY Pointers
    <2>2. (r + (k - 1)) % MemSize = (p + (k - 1)) % MemSize
        BY Pointers
    <2>3. r \in Int
        BY <1>1
    <2> HIDE DEF r
    <2>4. /\ r + (n + k - 1) = r + n + k - 1 /\ p + (n + k - 1) = p + n + k - 1
          /\ r + (k - 1) = r + k - 1 /\ p + (k - 1) = p + k - 1
        BY <2>3
    <2>5. /\ (r + n + k - 1) % MemSize = (p + n + k - 1) % MemSize
          /\ (r + k - 1) % MemSize = (p + k - 1) % MemSize
        BY <2>1, <2>2, <2>4
    <2> QED
        BY <2>5 DEF r
<1>3. RoundRead(mem, p % PtrMod, len) = RoundRead(mem, p, len)
    <2>1. \A k \in 1..len : ((p % PtrMod) + k - 1) % MemSize = (p + k - 1) % MemSize
        BY <1>2
    <2> QED
        BY <2>1 DEF RoundRead
<1>4. RoundRead(mem, (p % PtrMod) + n, len) = RoundRead(mem, p + n, len)
    <2>1. \A k \in 1..len : ((p % PtrMod) + n + k - 1) % MemSize = (p + n + k - 1) % MemSize
        BY <1>2
    <2> QED
        BY <2>1 DEF RoundRead
<1>5. w5500_readbuf(mem, (p % PtrMod) + n, len) = RoundRead(mem, (p % PtrMod) + n, len)
    BY <1>1, ReadGoesRound
<1> QED
    BY <1>3, <1>4, <1>5

-----------------------------------------------------------------------------
(* The frames in the chip's receive buffer.                                *)

\* A frame as the chip keeps it.
Stored(frame) == Header(frame.id, frame.bad) \o Payload(frame.id, RxLen[frame.id])

LEMMA StoredPlaces ==
    ASSUME NEW frame \in Frame
    PROVE  LET n == RxLen[frame.id] IN
           /\ n \in 1..MemSize - 2
           /\ Stored(frame) \in Seq(Int \X Int) /\ Len(Stored(frame)) = n + 2
           /\ Header(frame.id, frame.bad) = [k \in 1..2 |-> Stored(frame)[k]]
           /\ Payload(frame.id, n) = [k \in 1..n |-> Stored(frame)[k + 2]]
<1> DEFINE n == RxLen[frame.id]
           id == frame.id
           h == Header(id, frame.bad)
           b == Payload(id, n)
<1>1. id \in 1..MaxRx /\ id \in Int /\ frame.bad \in BOOLEAN
    BY WiznetDriverAssumption DEF Frame
<1>2. n \in 1..MemSize - 2 /\ n \in Nat
    BY <1>1, WiznetBuffersAssumption
<1>3. h \in Seq(Int \X Int) /\ Len(h) = 2
    <2>1. h = <<<<id, -3>>, <<id, -3>>>> \/ h = <<<<id, -2>>, <<id, -1>>>>
        BY DEF Header
    <2> DEFINE S == Int \X Int
               x == <<id, -3>>
               y == <<id, -2>>
               z == <<id, -1>>
    <2>2. x \in S /\ y \in S /\ z \in S
        BY <1>1
    <2>3. h = <<x, x>> \/ h = <<y, z>>
        BY <2>1
    <2> HIDE DEF S, x, y, z, h
    <2>4. <<x, x>> \in Seq(S) /\ Len(<<x, x>>) = 2
        BY <2>2
    <2>5. <<y, z>> \in Seq(S) /\ Len(<<y, z>>) = 2
        BY <2>2
    <2>6. h \in Seq(S) /\ Len(h) = 2
        BY <2>3, <2>4, <2>5
    <2> QED
        BY <2>6 DEF S
<1>4. b \in Seq(Int \X Int) /\ Len(b) = n /\ DOMAIN b = 1..n /\ b = [k \in 1..n |-> b[k]]
    <2>1. b = [k \in 1..n |-> <<id, k>>]
        BY DEF Payload
    <2>2. \A k \in 1..n : <<id, k>> \in Int \X Int
        BY <1>1
    <2> HIDE DEF b, n, id
    <2> QED
        BY <1>2, <2>1, <2>2
<1>5. Stored(frame) = h \o b
    BY DEF Stored
<1> DEFINE s == Stored(frame)
<1> HIDE DEF h, b, n, id, s
<1>6. /\ h \o b \in Seq(Int \X Int) /\ Len(h \o b) = 2 + n
      /\ \A k \in 1..2 + n : (h \o b)[k] = IF k <= 2 THEN h[k] ELSE b[k - 2]
    <2> DEFINE S == Int \X Int
    <2>1. h \in Seq(S) /\ b \in Seq(S)
        BY <1>3, <1>4
    <2> HIDE DEF S
    <2>2. /\ h \o b \in Seq(S) /\ Len(h \o b) = Len(h) + Len(b)
          /\ \A k \in 1..Len(h) + Len(b) : (h \o b)[k] = IF k <= Len(h) THEN h[k] ELSE b[k - Len(h)]
        BY <2>1, ConcatProperties
    <2> QED
        BY <1>3, <1>4, <2>2 DEF S
<1>7. s = h \o b
    BY <1>5 DEF s
<1>8. s \in Seq(Int \X Int) /\ Len(s) = n + 2
    BY <1>2, <1>6, <1>7
<1>9. h = [k \in 1..2 |-> s[k]]
    <2>1. DOMAIN h = 1..2 /\ h = [k \in 1..2 |-> h[k]]
        BY <1>3, LenProperties
    <2>2. \A k \in 1..2 : s[k] = h[k]
        BY <1>2, <1>6, <1>7
    <2> QED
        BY <2>1, <2>2
<1>10. b = [k \in 1..n |-> s[k + 2]]
    <2>1. ASSUME NEW k \in 1..n PROVE s[k + 2] = b[k]
        <3>1. k + 2 \in 1..2 + n /\ ~(k + 2 <= 2) /\ k + 2 - 2 = k
            BY <1>2
        <3> QED
            BY <1>6, <1>7, <3>1
    <2> QED
        BY <1>4, <2>1
<1> QED
    BY <1>2, <1>8, <1>9, <1>10 DEF h, b, n, id, s

\* No two headers are alike.
LEMMA HeaderTells ==
    ASSUME NEW m \in 1..MaxRx, NEW n \in 1..MaxRx, NEW bad \in BOOLEAN
    PROVE  Header(m, bad) = Header(n, FALSE) <=> (m = n /\ ~bad)
<1> DEFINE h == Header(m, bad)
           f == Header(n, FALSE)
<1>1. f = <<<<n, -2>>, <<n, -1>>>>
    BY DEF Header
<1>2. f[1] = <<n, -2>>
    BY DEF Header
<1>3. f[1][1] = n /\ f[1][2] = -2
    <2> HIDE DEF f
    <2> DEFINE y == f[1]
    <2>2. y = <<n, -2>>
        BY <1>2
    <2> HIDE DEF y
    <2>3. y[1] = n /\ y[2] = -2
        BY <2>2
    <2> QED
        BY <2>3 DEF y
<1>4. ASSUME bad PROVE h # f
    <2>1. h[1] = <<m, -3>>
        BY <1>4 DEF Header
    <2>2. h[1][2] = -3
        BY <2>1
    <2>3. -3 # -2
        OBVIOUS
    <2> QED
        BY <1>3, <2>2, <2>3
<1>5. ASSUME ~bad PROVE h = f <=> m = n
    <2>1. h = <<<<m, -2>>, <<m, -1>>>>
        BY <1>5 DEF Header
    <2>2. h[1] = <<m, -2>>
        BY <2>1
    <2>3. h[1][1] = m
        BY <2>2
    <2> QED
        BY <1>1, <1>3, <2>1, <2>3
<1> HIDE DEF h, f
<1>6. h = f <=> (m = n /\ ~bad)
    BY <1>4, <1>5
<1> QED
    BY <1>6 DEF h, f

\* The frames in the chip lie one behind the other from the driver's pointer,
\* which stands at position p[1], to the chip's, at the last.
FramesAt(p) ==
    LET last == Len(chipRx) + 1 IN
    /\ p \in [1..last -> Int]
    /\ p[1] % PtrMod = rxRd /\ p[last] % PtrMod = rxWr
    /\ p[last] <= p[1] + MemSize
    /\ \A i, j \in 1..last : i <= j => p[i] <= p[j]
    /\ \A i \in 1..Len(chipRx) :
          /\ p[i + 1] = p[i] + RxLen[chipRx[i].id] + 2
          /\ Holds(rxMem, p[i], Stored(chipRx[i]))

Payloads == Seq(Seq(Int \X Int))

RxRingInv ==
    /\ Memory(rxMem)
    /\ received \in Payloads /\ ReceivedIntact
    /\ \E p \in [1..Len(chipRx) + 1 -> Int] : FramesAt(p)

\* An exactly full buffer does not look like an empty one: the buffer of the
\* chip has 16 KB, its pointers 16 bits.
FullShows == MemSize < PtrMod

LEMMA RxSpan ==
    ASSUME chipRx \in Seq(Frame), FullShows, NEW p, FramesAt(p)
    PROVE  LET last == Len(chipRx) + 1 IN
           /\ last \in Nat \ {0} /\ p[1] \in Int /\ p[last] \in Int
           /\ p[1] <= p[last] /\ RSR = p[last] - p[1]
           /\ RSR = 0 <=> chipRx = <<>>
<1> DEFINE last == Len(chipRx) + 1
           a == p[1]
           w == p[last]
<1>1. Len(chipRx) \in Nat /\ last \in Nat \ {0} /\ 1 \in 1..last /\ last \in 1..last
    BY LenProperties
<1>2. p \in [1..last -> Int] /\ rxRd = a % PtrMod /\ rxWr = w % PtrMod /\ w <= a + MemSize
    BY DEF FramesAt
<1>3. a \in Int /\ w \in Int
    BY <1>1, <1>2
<1>4. Len(chipRx) = 0 => w = a
    BY <1>1
<1>5. ASSUME Len(chipRx) # 0 PROVE a < w
    <2>1. 1 \in 1..Len(chipRx)
        BY <1>1, <1>5
    <2>2. p[1 + 1] = p[1] + RxLen[chipRx[1].id] + 2 /\ p[1 + 1] <= p[last]
        <3>1. 1 + 1 \in 1..last /\ 1 + 1 <= last
            BY <1>1, <2>1
        <3> QED
            BY <1>1, <2>1, <3>1 DEF FramesAt
    <2>3. chipRx[1] \in Frame
        BY <2>1, ElementOfSeq
    <2>4. RxLen[chipRx[1].id] \in Nat
        <3>1. chipRx[1].id \in 1..MaxRx
            BY <2>3 DEF Frame
        <3> QED
            BY <3>1, WiznetBuffersAssumption
    <2> QED
        BY <1>3, <2>2, <2>4
<1>6. RSR = w - a
    <2> HIDE DEF a, w
    <2>1. w % PtrMod \in Int /\ a % PtrMod \in Int
        BY <1>3, Sizes, Divided
    <2> DEFINE r == a % PtrMod
               v == w % PtrMod
    <2>n. ASSUME NEW m \in Int PROVE (v + m) % PtrMod = (w + m) % PtrMod
        BY <1>3, Pointers
    <2>2. (v + (-r)) % PtrMod = (w + (-r)) % PtrMod
        <3>1. -r \in Int
            BY <2>1
        <3> HIDE DEF r, v
        <3> DEFINE m == -r
        <3> HIDE DEF m
        <3>2. (v + m) % PtrMod = (w + m) % PtrMod
            BY <2>n, <3>1 DEF m
        <3> QED
            BY <3>2 DEF m
    <2>3. (w - r) % PtrMod = (w - a) % PtrMod
        BY <1>3, Pointers
    <2>4. RSR = (v - r) % PtrMod
        BY <1>2 DEF RSR
    <2>5. w - a \in 0..PtrMod - 1
        <3>1. w >= a
            BY <1>3, <1>4, <1>5
        <3>2. w <= a + MemSize /\ MemSize < PtrMod
            BY <1>2 DEF FullShows
        <3> QED
            BY <1>3, <3>1, <3>2, Sizes
    <2>6. r \in Int /\ v \in Int
        BY <2>1
    <2> HIDE DEF r, v
    <2>7. v + (-r) = v - r /\ w + (-r) = w - r
        BY <1>3, <2>6
    <2>8. RSR = (w - a) % PtrMod
        BY <2>2, <2>3, <2>4, <2>7
    <2> DEFINE d == w - a
    <2> HIDE DEF d
    <2>9. d % PtrMod = d
        BY <2>5, Sizes, NoTurn DEF d
    <2> QED
        BY <2>8, <2>9 DEF d
<1>7. Len(chipRx) = 0 <=> chipRx = <<>>
    BY EmptySeq
<1> HIDE DEF a, w
<1>8. RSR = 0 <=> chipRx = <<>>
    BY <1>3, <1>4, <1>5, <1>6, <1>7
<1>9. a <= w
    BY <1>3, <1>4, <1>5
<1> QED
    BY <1>1, <1>3, <1>6, <1>8, <1>9 DEF a, w

\* What the driver finds in the buffer when it looks for a frame.
LEMMA FrameFound ==
    ASSUME chipRx \in Seq(Frame), Memory(rxMem), NEW p, FramesAt(p), chipRx # <<>>
    PROVE  LET f == Head(chipRx) IN
           /\ w5500_readbuf(rxMem, rxRd, 2) = Header(f.id, f.bad)
           /\ w5500_readbuf(rxMem, rxRd + 2, RxLen[f.id]) = Payload(f.id, RxLen[f.id])
<1> DEFINE f == Head(chipRx)
           n == RxLen[f.id]
           a == p[1]
<1>1. f \in Frame /\ f = chipRx[1] /\ Len(chipRx) \in Nat \ {0}
    BY EmptySeq, HeadTailProperties
<1>2. 1 \in 1..Len(chipRx) /\ 1 \in 1..Len(chipRx) + 1
    BY <1>1
<1>3. p \in [1..Len(chipRx) + 1 -> Int] /\ rxRd = a % PtrMod
    BY DEF FramesAt
<1>4. a \in Int
    BY <1>2, <1>3
<1>5. \A k \in 1..n + 2 : rxMem[(a + k - 1) % MemSize] = Stored(f)[k]
    <2>1. Holds(rxMem, a, Stored(f))
        BY <1>1, <1>2 DEF FramesAt
    <2>2. Len(Stored(f)) = n + 2
        BY <1>1, StoredPlaces
    <2> QED
        BY <2>1, <2>2 DEF Holds
<1>6. /\ n \in 1..MemSize - 2
      /\ Header(f.id, f.bad) = [k \in 1..2 |-> Stored(f)[k]]
      /\ Payload(f.id, n) = [k \in 1..n |-> Stored(f)[k + 2]]
    BY <1>1, StoredPlaces
<1>7. n \in 0..MemSize /\ 2 \in 0..MemSize
    BY <1>6, Sizes
<1> HIDE DEF f, n, a
<1>8. /\ w5500_readbuf(rxMem, rxRd, 2) = RoundRead(rxMem, a + 0, 2)
      /\ w5500_readbuf(rxMem, rxRd + 2, n) = RoundRead(rxMem, a + 2, n)
    <2>1. a % PtrMod \in Int
        BY <1>4, Sizes, Divided
    <2>2. rxRd = (a % PtrMod) + 0 /\ rxRd + 2 = (a % PtrMod) + 2
        BY <1>3, <2>1
    <2>3. /\ w5500_readbuf(rxMem, (a % PtrMod) + 0, 2) = RoundRead(rxMem, a + 0, 2)
          /\ w5500_readbuf(rxMem, (a % PtrMod) + 2, n) = RoundRead(rxMem, a + 2, n)
        BY <1>4, <1>7, ReadFrom
    <2> QED
        BY <2>2, <2>3
<1>10. ASSUME NEW k \in 1..2 PROVE rxMem[(a + 0 + k - 1) % MemSize] = Stored(f)[k]
    <2>1. k \in 1..n + 2 /\ a + 0 + k - 1 = a + k - 1
        BY <1>4, <1>6
    <2> QED
        BY <1>5, <2>1
<1>11. ASSUME NEW k \in 1..n PROVE rxMem[(a + 2 + k - 1) % MemSize] = Stored(f)[k + 2]
    <2>1. k + 2 \in 1..n + 2 /\ a + 2 + k - 1 = a + (k + 2) - 1
        BY <1>4, <1>6
    <2>2. rxMem[(a + (k + 2) - 1) % MemSize] = Stored(f)[k + 2]
        BY <1>5, <2>1
    <2> QED
        BY <2>1, <2>2
<1>12. w5500_readbuf(rxMem, rxRd, 2) = Header(f.id, f.bad)
    BY <1>6, <1>8, <1>10 DEF RoundRead
<1>13. w5500_readbuf(rxMem, rxRd + 2, n) = Payload(f.id, n)
    BY <1>6, <1>8, <1>11 DEF RoundRead
<1> QED
    BY <1>12, <1>13 DEF f, n

LEMMA FramePlaces ==
    ASSUME chipRx \in Seq(Frame), NEW p \in [1..Len(chipRx) + 1 -> Int], FramesAt(p),
           NEW i \in 1..Len(chipRx)
    PROVE  LET n == RxLen[chipRx[i].id] IN
           /\ chipRx[i] \in Frame /\ n \in Nat
           /\ p[i] \in Int /\ p[i + 1] \in Int /\ p[i + 1] = p[i] + n + 2
           /\ p[1] <= p[i] /\ p[i + 1] <= p[Len(chipRx) + 1]
           /\ Holds(rxMem, p[i], Stored(chipRx[i]))
<1>1. chipRx[i] \in Frame
    BY ElementOfSeq
<1>2. chipRx[i].id \in 1..MaxRx
    BY <1>1 DEF Frame
<1>3. RxLen[chipRx[i].id] \in Nat
    BY <1>2, WiznetBuffersAssumption
<1>4. Len(chipRx) \in Nat
    BY LenProperties
<1>5. /\ i \in 1..Len(chipRx) + 1 /\ i + 1 \in 1..Len(chipRx) + 1
      /\ 1 \in 1..Len(chipRx) + 1 /\ Len(chipRx) + 1 \in 1..Len(chipRx) + 1
      /\ 1 <= i /\ i + 1 <= Len(chipRx) + 1
    BY <1>4
<1>6. p[1] <= p[i] /\ p[i + 1] <= p[Len(chipRx) + 1]
    BY <1>5 DEF FramesAt
<1>7. p[i + 1] = p[i] + RxLen[chipRx[i].id] + 2 /\ Holds(rxMem, p[i], Stored(chipRx[i]))
    BY DEF FramesAt
<1> QED
    BY <1>1, <1>3, <1>5, <1>6, <1>7

LEMMA ArrivedStored ==
    ASSUME TypeOK, FullShows, RxRingInv, NEW bad \in BOOLEAN, RingFrameArrives(bad)
    PROVE  RxRingInv'
<1> DEFINE id == arrived + 1
           f == [id |-> id, bad |-> bad]
           n == RxLen[id] + 2
           L == Len(chipRx)
<1>1. /\ chipRx \in Seq(Frame) /\ L \in Nat
      /\ arrived \in 0..MaxRx /\ MaxRx \in Nat
    BY WiznetDriverAssumption, LenProperties DEF TypeOK
<1>2. PICK p \in [1..L + 1 -> Int] : FramesAt(p)
    BY DEF RxRingInv
<1> DEFINE a == p[1]
           w == p[L + 1]
<1>3. /\ Memory(rxMem) /\ rxWr = w % PtrMod /\ rxRd = a % PtrMod
      /\ a \in Int /\ w \in Int /\ RSR = w - a /\ a <= w
    BY <1>1, <1>2, RxSpan DEF FramesAt, RxRingInv
<1>4. /\ FrameArrives(bad)
      /\ RSR + Len(Stored(f)) <= MemSize
      /\ rxMem' = RoundWrite(rxMem, rxWr, Stored(f))
      /\ rxWr' = (rxWr + Len(Stored(f))) % PtrMod
      /\ rxRd' = rxRd /\ received' = received
    BY DEF RingFrameArrives, Stored
<1>5. f \in Frame /\ f.id = id /\ chipRx' = Append(chipRx, f) /\ ethRxQueue' = ethRxQueue
    BY <1>1, <1>4 DEF FrameArrives, Frame, driver
<1>n. n \in Int /\ RxLen[id] \in Int
    <2>1. id \in 1..MaxRx
        BY <1>5 DEF Frame
    <2> QED
        BY <2>1, WiznetBuffersAssumption
<1>6. Stored(f) \in Seq(Int \X Int) /\ Len(Stored(f)) = n /\ n \in 1..MemSize
    <2> HIDE DEF f
    <2>1. /\ RxLen[f.id] \in 1..MemSize - 2
          /\ Stored(f) \in Seq(Int \X Int) /\ Len(Stored(f)) = RxLen[f.id] + 2
        BY <1>5, StoredPlaces
    <2>2. RxLen[f.id] = RxLen[id]
        BY <1>5
    <2> QED
        BY <1>n, <2>1, <2>2, Sizes
<1>7. chipRx' \in Seq(Frame) /\ Len(chipRx') = L + 1
      /\ (\A i \in 1..L : chipRx'[i] = chipRx[i]) /\ chipRx'[L + 1] = f
    BY <1>1, <1>5
<1>8. Memory(rxMem') /\ Holds(rxMem', w, Stored(f)) /\ Kept(rxMem, rxMem', w, n)
    <2> DEFINE s == Stored(f)
               S == Int \X Int
    <2>1. s \in Seq(S) /\ Len(s) = n /\ Len(s) <= MemSize
        BY <1>6, Sizes
    <2> HIDE DEF s, S, n, w
    <2>2. /\ Memory(RoundWrite(rxMem, rxWr, s))
          /\ Holds(RoundWrite(rxMem, rxWr, s), w, s)
          /\ Kept(rxMem, RoundWrite(rxMem, rxWr, s), w, Len(s))
        BY <1>3, <2>1, Written
    <2> QED
        BY <1>4, <2>1, <2>2 DEF s
<1>9. w - a + n <= MemSize
    BY <1>3, <1>4, <1>6
<1>i. a \in Int /\ w \in Int /\ n \in Int
    BY <1>3, <1>n
<1>q. \E q \in [1..L + 2 -> Int] : q[L + 2] = w + n /\ (\A i \in 1..L + 1 : q[i] = p[i])
    <2> DEFINE q == [i \in 1..L + 2 |-> IF i = L + 2 THEN w + n ELSE p[i]]
    <2>1. q \in [1..L + 2 -> Int] /\ q[L + 2] = w + n /\ (\A i \in 1..L + 1 : q[i] = p[i])
        BY <1>1, <1>2, <1>3, <1>6
    <2> HIDE DEF q
    <2> QED
        BY <2>1
<1> HIDE DEF n, f, id, L, a, w
<1>11. PICK q \in [1..L + 2 -> Int] : q[L + 2] = w + n /\ (\A i \in 1..L + 1 : q[i] = p[i])
    BY <1>q
<1>12. FramesAt(q)'
    <2>1. q \in [1..Len(chipRx') + 1 -> Int]
        BY <1>1, <1>7, <1>11
    <2>2. q[1] % PtrMod = rxRd' /\ q[1] = a
        BY <1>1, <1>3, <1>4, <1>11 DEF a
    <2>3. q[Len(chipRx') + 1] % PtrMod = rxWr' /\ q[Len(chipRx') + 1] = w + n
        <3>1. ((w % PtrMod) + n) % PtrMod = (w + n) % PtrMod
            BY <1>3, <1>6, Pointers
        <3>2. q[Len(chipRx') + 1] = w + n
            BY <1>1, <1>7, <1>11
        <3>3. rxWr' = ((w % PtrMod) + n) % PtrMod
            BY <1>3, <1>4, <1>6
        <3> QED
            BY <3>1, <3>2, <3>3
    <2>4. w + n <= a + MemSize
        BY <1>3, <1>6, <1>9, Sizes
    <2>5. ASSUME NEW i \in 1..Len(chipRx')
          PROVE  /\ q[i + 1] = q[i] + RxLen[chipRx'[i].id] + 2
                 /\ Holds(rxMem', q[i], Stored(chipRx'[i]))
        <3>1. CASE i = L + 1
            <4>1. q[i + 1] = w + n /\ q[i] = w /\ chipRx'[i] = f
                BY <1>1, <1>7, <1>11, <3>1 DEF w
            <4>2. n = RxLen[f.id] + 2 /\ RxLen[f.id] \in Int
                BY <1>5, <1>n DEF n
            <4>3. w + n = w + RxLen[f.id] + 2
                BY <1>3, <1>n, <4>2
            <4> QED
                BY <1>3, <1>8, <4>1, <4>3
        <3>2. CASE i \in 1..L
            <4> DEFINE r == RxLen[chipRx[i].id]
                       s == Stored(chipRx[i])
            <4>1. q[i + 1] = p[i + 1] /\ q[i] = p[i] /\ chipRx'[i] = chipRx[i]
                BY <1>1, <1>7, <1>11, <3>2
            <4>2. /\ chipRx[i] \in Frame /\ r \in Nat
                  /\ p[i + 1] = p[i] + r + 2 /\ a <= p[i] /\ p[i + 1] <= w
                  /\ p[i] \in Int /\ p[i + 1] \in Int
                  /\ Holds(rxMem, p[i], s)
                BY <1>1, <1>2, <3>2, FramePlaces DEF a, w, L
            <4>3. s \in Seq(Int \X Int) /\ Len(s) = r + 2
                BY <4>2, StoredPlaces
            <4> HIDE DEF r, s
            <4>4. p[i] + Len(s) <= w /\ w - p[i] + n <= MemSize
                <5>0. p[i] \in Int /\ r \in Nat /\ p[i + 1] = p[i] + r + 2 /\ Len(s) = r + 2
                    BY <4>2, <4>3
                <5>1. p[i] + Len(s) = p[i + 1]
                    BY <5>0
                <5>2. w - p[i] <= w - a
                    BY <1>i, <4>2
                <5>3. w - p[i] + n <= w - a + n
                    BY <1>i, <4>2, <5>2
                <5>4. MemSize \in Int /\ w - a + n \in Int /\ w - p[i] + n \in Int
                    BY <1>i, <4>2, Sizes
                <5> QED
                    BY <1>9, <4>2, <5>1, <5>3, <5>4
            <4> DEFINE S == Int \X Int
            <4>5. s \in Seq(S)
                BY <4>3
            <4> HIDE DEF S
            <4>6. Holds(rxMem', p[i], s)
                BY <1>3, <1>n, <1>8, <4>2, <4>4, <4>5, StillHolds
            <4> QED
                BY <4>1, <4>2, <4>6 DEF r, s
        <3> QED
            BY <1>1, <1>7, <3>1, <3>2
    <2>6. q[Len(chipRx') + 1] <= q[1] + MemSize
        BY <2>2, <2>3, <2>4
    <2>7. ASSUME NEW i \in 1..Len(chipRx')
          PROVE  /\ q[i + 1] = q[i] + RxLen[chipRx'[i].id] + 2
                 /\ Holds(rxMem', q[i], Stored(chipRx'[i]))
        BY <2>2, <2>3, <2>5
    <2>8. ASSUME NEW i \in 1..Len(chipRx') + 1, NEW j \in 1..Len(chipRx') + 1, i <= j
          PROVE  q[i] <= q[j]
        <3>1. \A h \in 1..L + 1 : \A k \in 1..L + 1 : h <= k => p[h] <= p[k]
            BY <1>2 DEF FramesAt, L
        <3>2. CASE j = L + 2 /\ i # L + 2
            <4>1. i \in 1..L + 1 /\ L + 1 \in 1..L + 1 /\ i <= L + 1
                BY <1>1, <1>7, <3>2
            <4>2. q[i] = p[i] /\ p[i] <= w /\ q[j] = w + n /\ p[i] \in Int
                BY <1>2, <1>11, <3>1, <3>2, <4>1 DEF w, L
            <4> QED
                BY <1>3, <1>6, <4>2
        <3>3. CASE j \in 1..L + 1
            <4>1. i \in 1..L + 1
                BY <1>1, <1>7, <2>8, <3>3
            <4> QED
                BY <1>11, <2>8, <3>1, <3>3, <4>1
        <3>4. CASE i = j
            <4>1. q[i] \in Int
                BY <2>1
            <4> QED
                BY <3>4, <4>1
        <3> QED
            BY <1>1, <1>7, <2>8, <3>2, <3>3, <3>4
    <2> QED
        BY <2>1, <2>2, <2>3, <2>6, <2>7, <2>8 DEF FramesAt
<1>13. q \in [1..Len(chipRx') + 1 -> Int]
    BY <1>1, <1>7, <1>11
<1>14. ReceivedIntact' /\ received' \in Payloads
    BY <1>4, <1>5 DEF RxRingInv, ReceivedIntact, Payloads, Payload
<1>15. (\E places \in [1..Len(chipRx) + 1 -> Int] : FramesAt(places))'
    BY <1>12, <1>13
<1>16. Memory(rxMem)'
    BY <1>8 DEF Memory
<1> QED
    BY <1>14, <1>15, <1>16 DEF RxRingInv

LEMMA LengthRead ==
    ASSUME chipRx \in Seq(Frame), Memory(rxMem), NEW p, FramesAt(p),
           chipRx # <<>>, ~Head(chipRx).bad
    PROVE  rx_len = RxLen[Head(chipRx).id]
<1> DEFINE f == Head(chipRx)
           header == w5500_readbuf(rxMem, rxRd, 2)
           of == {n \in 1..MaxRx : header = Header(n, FALSE)}
<1>1. header = Header(f.id, f.bad)
    BY FrameFound
<1>2. f \in Frame
    BY HeadIn
<1>3. f.id \in 1..MaxRx /\ f.bad \in BOOLEAN
    BY <1>2 DEF Frame
<1>4. \A n \in 1..MaxRx : header = Header(n, FALSE) <=> f.id = n
    BY <1>1, <1>3, HeaderTells
<1>5. of = {f.id}
    BY <1>3, <1>4
<1>6. rx_len = IF of = {} THEN -1 ELSE RxLen[CHOOSE n \in of : TRUE]
    BY DEF rx_len
<1> HIDE DEF of, f
<1>7. of # {} /\ (CHOOSE n \in of : TRUE) = f.id
    BY <1>5
<1> QED
    BY <1>6, <1>7 DEF f

LEMMA FrameTaken ==
    ASSUME TypeOK, FullShows, RxRingInv, RingRxFrame
    PROVE  RxRingInv'
<1> DEFINE f == Head(chipRx)
           n == RxLen[f.id]
           L == Len(chipRx)
<1>1. /\ chipRx \in Seq(Frame) /\ ethRxQueue \in Seq(1..MaxRx)
      /\ Memory(rxMem) /\ received \in Payloads /\ ReceivedIntact
    BY DEF TypeOK, RxRingInv
<1>2. PICK p \in [1..L + 1 -> Int] : FramesAt(p)
    BY DEF RxRingInv
<1>3. /\ chipRx # <<>> /\ ~f.bad /\ chipRx' = Tail(chipRx)
      /\ ethRxQueue' = Append(ethRxQueue, f.id) \/ ethRxQueue' = ethRxQueue
      /\ received' = IF ethRxQueue' = ethRxQueue THEN received
                     ELSE Append(received, w5500_readbuf(rxMem, rxRd + 2, rx_len))
      /\ rxRd' = (rxRd + 2 + rx_len) % PtrMod
      /\ rxMem' = rxMem /\ rxWr' = rxWr
    BY DEF RingRxFrame, RxFrame
<1>4. /\ f \in Frame /\ f = chipRx[1] /\ L \in Nat \ {0}
      /\ chipRx' \in Seq(Frame) /\ Len(chipRx') = L - 1
      /\ \A i \in 1..L - 1 : chipRx'[i] = chipRx[i + 1]
    <2>1. L \in Nat \ {0} /\ f = chipRx[1]
        BY <1>1, <1>3, EmptySeq
    <2>2. /\ f \in Frame /\ Tail(chipRx) \in Seq(Frame) /\ Len(Tail(chipRx)) = L - 1
          /\ \A i \in 1..Len(Tail(chipRx)) : Tail(chipRx)[i] = chipRx[i + 1]
        BY <1>1, <1>3, HeadTailProperties
    <2> QED
        BY <1>3, <2>1, <2>2
<1>5. f.id \in 1..MaxRx /\ n \in Nat
    <2>1. f.id \in 1..MaxRx
        BY <1>4 DEF Frame
    <2> QED
        BY <2>1, WiznetBuffersAssumption
<1>6. rx_len = n
    BY <1>1, <1>2, <1>3, LengthRead
<1>7. w5500_readbuf(rxMem, rxRd + 2, n) = Payload(f.id, n)
    BY <1>1, <1>2, <1>3, FrameFound
<1>8. Payload(f.id, n) \in Seq(Int \X Int)
    <2> HIDE DEF n
    <2>1. f.id \in Int
        BY <1>5, WiznetDriverAssumption
    <2>2. \A k \in 1..n : <<f.id, k>> \in Int \X Int
        BY <2>1
    <2> HIDE DEF f
    <2> QED
        BY <1>5, <2>2 DEF Payload
<1>9. ReceivedIntact' /\ received' \in Payloads
    <2>1. CASE ethRxQueue' = ethRxQueue
        BY <1>1, <1>3, <2>1 DEF ReceivedIntact, Payloads, Payload
    <2>2. CASE ethRxQueue' # ethRxQueue
        <3> DEFINE b == Payload(f.id, n)
                   id == f.id
                   B == Seq(Int \X Int)
                   m == Len(ethRxQueue)
        <3>1. received' = Append(received, b) /\ ethRxQueue' = Append(ethRxQueue, id)
            BY <1>3, <1>6, <1>7, <2>2
        <3>2. b \in B /\ id \in 1..MaxRx /\ received \in Seq(B) /\ b = Payload(id, RxLen[id])
            BY <1>1, <1>5, <1>8 DEF Payloads
        <3>3. m \in Nat /\ Len(received) = m
              /\ \A i \in 1..m : received[i] = Payload(ethRxQueue[i], RxLen[ethRxQueue[i]])
            BY <1>1, LenProperties DEF ReceivedIntact
        <3> HIDE DEF b, id, B, n, f
        <3>4. received' \in Seq(B) /\ Len(received') = Len(received) + 1
              /\ received'[Len(received) + 1] = b
              /\ \A i \in 1..Len(received) : received'[i] = received[i]
            BY <3>1, <3>2
        <3>5. Len(ethRxQueue') = m + 1 /\ ethRxQueue'[m + 1] = id
              /\ \A i \in 1..m : ethRxQueue'[i] = ethRxQueue[i]
            BY <1>1, <3>1, <3>2
        <3> HIDE DEF m
        <3>6. ASSUME NEW i \in 1..Len(received')
              PROVE  received'[i] = Payload(ethRxQueue'[i], RxLen[ethRxQueue'[i]])
            <4>1. CASE i = m + 1
                BY <3>2, <3>3, <3>4, <3>5, <4>1
            <4>2. CASE i \in 1..m
                BY <3>3, <3>4, <3>5, <4>2
            <4> QED
                BY <3>3, <3>4, <4>1, <4>2
        <3>7. Len(received') = Len(ethRxQueue')
            BY <3>3, <3>4, <3>5
        <3>8. ReceivedIntact'
            BY <3>6, <3>7 DEF ReceivedIntact, Payload
        <3> QED
            BY <3>4, <3>8 DEF Payloads, B
    <2> QED
        BY <2>1, <2>2
<1> HIDE DEF f, n, L
<1>q. \E q \in [1..L -> Int] : \A i \in 1..L : q[i] = p[i + 1]
    <2> DEFINE q == [i \in 1..L |-> p[i + 1]]
    <2>1. q \in [1..L -> Int] /\ \A i \in 1..L : q[i] = p[i + 1]
        BY <1>2, <1>4
    <2> HIDE DEF q
    <2> QED
        BY <2>1
<1>10. PICK q \in [1..L -> Int] : \A i \in 1..L : q[i] = p[i + 1]
    BY <1>q
<1>11. ASSUME NEW i \in 1..L
       PROVE  LET r == RxLen[chipRx[i].id] IN
              /\ r \in Nat /\ p[i] \in Int /\ p[i + 1] \in Int
              /\ p[i + 1] = p[i] + r + 2 /\ p[1] <= p[i] /\ p[i + 1] <= p[L + 1]
              /\ Holds(rxMem, p[i], Stored(chipRx[i]))
    BY <1>1, <1>2, FramePlaces DEF L
<1>12. /\ p[1] % PtrMod = rxRd /\ p[L + 1] % PtrMod = rxWr
       /\ p[L + 1] <= p[1] + MemSize
    BY <1>2 DEF FramesAt, L
<1>13. p[1] \in Int /\ p[2] \in Int /\ p[2] = p[1] + n + 2 /\ p[2] <= p[L + 1]
    <2>1. 1 \in 1..L /\ 1 + 1 = 2
        BY <1>4
    <2> QED
        BY <1>4, <1>11, <2>1 DEF n
<1>14. q[1] = p[2] /\ q[L] = p[L + 1] /\ p[L + 1] \in Int
    <2>1. 1 \in 1..L /\ 1 + 1 = 2 /\ L \in 1..L
        BY <1>4
    <2> QED
        BY <1>10, <1>11, <2>1
<1>15. FramesAt(q)'
    <2>1. q \in [1..Len(chipRx') + 1 -> Int] /\ Len(chipRx') + 1 = L
        BY <1>4, <1>10
    <2>2. q[1] % PtrMod = rxRd'
        <3> DEFINE a == p[1]
                   r == a % PtrMod
                   m == n + 2
        <3>0. a \in Int /\ m \in Int /\ n \in Int /\ r = rxRd
            BY <1>5, <1>12, <1>13
        <3> HIDE DEF a, m
        <3>1. (r + m) % PtrMod = (a + m) % PtrMod
            BY <3>0, Pointers
        <3>2. r \in Int /\ r = rxRd /\ n \in Int
            BY <3>0, Sizes, Divided
        <3>3. a + m = p[2] /\ r + m = rxRd + 2 + n
            BY <1>13, <3>2 DEF a, m
        <3> HIDE DEF r, m
        <3>4. (rxRd + 2 + n) % PtrMod = p[2] % PtrMod
            BY <3>1, <3>3
        <3> QED
            BY <1>3, <1>6, <1>14, <3>4
    <2>3. q[Len(chipRx') + 1] % PtrMod = rxWr'
        BY <1>3, <1>12, <1>14, <2>1
    <2>4. q[Len(chipRx') + 1] <= q[1] + MemSize
        BY <1>5, <1>12, <1>13, <1>14, <2>1, Sizes
    <2>5. ASSUME NEW i \in 1..Len(chipRx')
          PROVE  /\ q[i + 1] = q[i] + RxLen[chipRx'[i].id] + 2
                 /\ Holds(rxMem', q[i], Stored(chipRx'[i]))
        <3>1. i \in 1..L - 1 /\ i \in 1..L /\ i + 1 \in 1..L
            BY <1>4
        <3>2. q[i] = p[i + 1] /\ q[i + 1] = p[i + 1 + 1] /\ chipRx'[i] = chipRx[i + 1]
            BY <1>4, <1>10, <3>1
        <3> DEFINE r == RxLen[chipRx[i + 1].id]
                   j == i + 1
        <3>3. /\ p[j + 1] = p[j] + RxLen[chipRx[j].id] + 2 /\ p[j + 1] <= p[L + 1]
              /\ Holds(rxMem, p[j], Stored(chipRx[j]))
            BY <1>11, <3>1
        <3> QED
            BY <1>3, <3>2, <3>3
    <2>6. ASSUME NEW i \in 1..Len(chipRx') + 1, NEW j \in 1..Len(chipRx') + 1, i <= j
          PROVE  q[i] <= q[j]
        <3>1. \A h \in 1..L + 1 : \A k \in 1..L + 1 : h <= k => p[h] <= p[k]
            BY <1>2 DEF FramesAt, L
        <3>2. i + 1 \in 1..L + 1 /\ j + 1 \in 1..L + 1 /\ i + 1 <= j + 1 /\ i \in 1..L /\ j \in 1..L
            BY <1>4, <2>1, <2>6
        <3> QED
            BY <1>10, <3>1, <3>2
    <2> QED
        BY <2>1, <2>2, <2>3, <2>4, <2>5, <2>6 DEF FramesAt
<1>16. (\E places \in [1..Len(chipRx) + 1 -> Int] : FramesAt(places))'
    <2>1. Len(chipRx') + 1 = L
        BY <1>4
    <2> QED
        BY <1>10, <1>15, <2>1
<1>17. Memory(rxMem)'
    BY <1>1, <1>3 DEF Memory
<1> QED
    BY <1>9, <1>16, <1>17 DEF RxRingInv

LEMMA RxRingInitially == RingInit => RxRingInv
<1> SUFFICES ASSUME RingInit PROVE RxRingInv
    OBVIOUS
<1>1. /\ chipRx = <<>> /\ ethRxQueue = <<>> /\ received = <<>>
      /\ rxRd = 0 /\ rxWr = 0 /\ rxMem = [a \in 0..MemSize - 1 |-> <<0, 0>>]
    BY DEF RingInit, Init
<1>2. Memory(rxMem)
    BY <1>1 DEF Memory
<1>3. received \in Payloads /\ ReceivedIntact
    BY <1>1 DEF Payloads, ReceivedIntact
<1> DEFINE p == [i \in 1..1 |-> 0]
<1>4. Len(chipRx) = 0 /\ Len(chipRx) + 1 = 1
    BY <1>1
<1>5. p \in [1..1 -> Int] /\ p[1] = 0
    OBVIOUS
<1>6. 0 % PtrMod = 0 /\ 0 <= 0 + MemSize
    BY Sizes
<1> HIDE DEF p
<1>7. FramesAt(p)
    BY <1>1, <1>4, <1>5, <1>6 DEF FramesAt
<1> QED
    BY <1>2, <1>3, <1>4, <1>5, <1>7 DEF RxRingInv

LEMMA RxRingSame ==
    RxRingInv /\ UNCHANGED <<rxMem, rxRd, rxWr, received, chipRx, ethRxQueue>> => RxRingInv'
<1> SUFFICES ASSUME RxRingInv, UNCHANGED <<rxMem, rxRd, rxWr, received, chipRx, ethRxQueue>>
             PROVE  RxRingInv'
    OBVIOUS
<1>1. Memory(rxMem)' /\ received' \in Payloads
    BY DEF RxRingInv, Memory
<1>2. ReceivedIntact'
    BY DEF RxRingInv, ReceivedIntact
<1>3. PICK p \in [1..Len(chipRx) + 1 -> Int] : FramesAt(p)
    BY DEF RxRingInv
<1>4. FramesAt(p)'
    BY <1>3 DEF FramesAt
<1>5. (\E places \in [1..Len(chipRx) + 1 -> Int] : FramesAt(places))'
    BY <1>4
<1> QED
    BY <1>1, <1>2, <1>5 DEF RxRingInv

LEMMA RxRingNext == TypeOK /\ FullShows /\ RxRingInv /\ [RingNext]_allVars => RxRingInv'
<1> SUFFICES ASSUME TypeOK, FullShows, RxRingInv, [RingNext]_allVars PROVE RxRingInv'
    OBVIOUS
<1> DEFINE same == UNCHANGED <<rxMem, rxRd, rxWr, received, chipRx, ethRxQueue>>
<1>0. ASSUME same PROVE RxRingInv'
    BY <1>0, RxRingSame
<1>1. CASE InitStep
    BY <1>0, <1>1 DEF InitStep, vars, driver, rxRing
<1>2. CASE RingSetRxCallback
    BY <1>0, <1>2 DEF RingSetRxCallback, LeanWiznet_SetRxCallback, rxRing
<1>3. ASSUME NEW bad \in BOOLEAN, RingFrameArrives(bad) PROVE RxRingInv'
    BY <1>3, ArrivedStored
<1>4. CASE RingRxThread
    <2>1. CASE RingRxFrame
        BY <2>1, FrameTaken
    <2>2. CASE RingRxNothing
        BY <1>0, <2>2 DEF RingRxNothing, RxNothing, RxReturn, rxRing
    <2>3. CASE (RxWake \/ RxIdle \/ RxReadIr \/ RxClearIr) /\ UNCHANGED <<start, rxRing, txRing>>
        BY <1>0, <2>3 DEF RxWake, RxIdle, RxReadIr, RxClearIr, driver, rxRing
    <2>4. CASE (RxService \/ RxLock) /\ UNCHANGED <<start, rxRing, txRing>>
        BY <1>0, <2>4 DEF RxService, RxLock, rxRing
    <2> QED
        BY <1>4, <2>1, <2>2, <2>3, <2>4 DEF RingRxThread
<1>5. CASE RingEnqueueEthTx
    BY <1>0, <1>5 DEF RingEnqueueEthTx, EnqueueEthTx, rxRing
<1>6. CASE RingTxThread
    <2>1. rxRing' = rxRing
        BY <1>6 DEF RingTxThread, RingTxSend, RingTxWriteFails
    <2>2. TxThread
        BY <1>6 DEF RingTxThread, RingTxSend, RingTxWriteFails, TxThread
    <2>3. chipRx' = chipRx /\ ethRxQueue' = ethRxQueue
        BY <2>2 DEF TxThread, TxGet, TxLock, TxWriteFails, TxSend, TxTake, TxTimeout,
                    TxReturn, driver
    <2> QED
        BY <1>0, <2>1, <2>3 DEF rxRing
<1>7. CASE RingDatagramSent
    BY <1>0, <1>7 DEF RingDatagramSent, DatagramSent, driver, rxRing
<1>8. CASE UNCHANGED allVars
    BY <1>0, <1>8 DEF allVars, vars, driver, rxRing
<1> QED
    BY <1>1, <1>2, <1>3, <1>4, <1>5, <1>6, <1>7, <1>8 DEF RingNext

\* The driver and the chip agree where the next frame lies and what its header
\* says, and what w5500_rx puts on ethRxQueue is the frame as it came, whatever
\* the sizes, wherever the buffer ends and however often the pointers overflow.
THEOREM FramesReadIntact == FullShows => (RingSpec => []FramesIntact)
<1> SUFFICES ASSUME FullShows PROVE RingSpec => []FramesIntact
    OBVIOUS
<1>1. TypeOK /\ RxRingInv => FramesIntact
    <2> SUFFICES ASSUME TypeOK, RxRingInv PROVE FramesIntact
        OBVIOUS
    <2>1. chipRx \in Seq(Frame) /\ Memory(rxMem) /\ ReceivedIntact
        BY DEF TypeOK, RxRingInv
    <2>2. PICK p \in [1..Len(chipRx) + 1 -> Int] : FramesAt(p)
        BY DEF RxRingInv
    <2>3. RSR = 0 <=> chipRx = <<>>
        BY <2>1, <2>2, RxSpan
    <2>4. chipRx # <<>> => w5500_readbuf(rxMem, rxRd, 2) = Header(Head(chipRx).id, Head(chipRx).bad)
        BY <2>1, <2>2, FrameFound
    <2> QED
        BY <2>1, <2>3, <2>4 DEF FramesIntact, HeaderFound
<1>2. TypeOK /\ RxRingInv /\ [RingNext]_allVars => RxRingInv'
    BY RxRingNext
<1> QED
    BY <1>1, <1>2, RxRingInitially, BuffersInvariants, PTL DEF RingSpec

-----------------------------------------------------------------------------
(* The datagrams in the chip's transmit buffer.                            *)

LEMMA ProductGrows ==
    ASSUME NEW a \in Int, NEW b \in Int, NEW m \in Nat, a <= b
    PROVE  a * m <= b * m
<1>1. b - a \in Nat
    OBVIOUS
<1>2. (b - a) * m \in Nat
    BY <1>1
<1>3. b * m = a * m + (b - a) * m
    BY <1>1
<1>4. a * m \in Int /\ b * m \in Int
    OBVIOUS
<1> QED
    BY <1>2, <1>3, <1>4

LEMMA LongestIs ==
    ASSUME NEW d \in 1..MaxTx
    PROVE  /\ Longest \in Nat /\ TxLen[d] \in 1..MemSize /\ TxLen[d] \in Nat
           /\ TxLen[d] <= Longest
<1> DEFINE S == {TxLen[n] : n \in 1..MaxTx}
           T == {MemSize - x : x \in S}
<1>1. S \subseteq 1..MemSize /\ TxLen[d] \in S /\ MemSize \in Nat
    BY Sizes, WiznetBuffersAssumption
<1> HIDE DEF S
<1>2. T \subseteq Nat /\ T # {}
    BY <1>1
<1>3. PICK m \in T : \A y \in T : ~ (<<y, m>> \in OpToRel(<, Nat))
    BY <1>2, NatLessThanWellFounded, WFMin
<1>4. \A y \in T : m <= y
    <2>1. OpToRel(<, Nat) = {ss \in Nat \X Nat : ss[1] < ss[2]}
        BY Zenon DEF OpToRel
    <2>2. ASSUME NEW y \in T, y < m PROVE FALSE
        <3>1. <<y, m>> \in {ss \in Nat \X Nat : ss[1] < ss[2]}
            BY <1>2, <1>3, <2>2
        <3>2. <<y, m>> \in OpToRel(<, Nat)
            BY <2>1, <3>1, Zenon
        <3> QED
            BY <1>3, <3>2, Zenon
    <2>3. m \in Nat /\ T \subseteq Nat
        BY <1>2, <1>3
    <2> HIDE DEF T
    <2> QED
        BY <2>2, <2>3
<1>5. PICK x \in S : m = MemSize - x
    BY <1>3
<1>6. \A y \in S : x >= y
    <2>1. ASSUME NEW y \in S PROVE x >= y
        <3>1. MemSize - y \in T
            OBVIOUS
        <3>2. m <= MemSize - y
            BY <1>4, <3>1
        <3> QED
            BY <1>1, <1>5, <3>2
    <2> QED
        BY <2>1
<1>7. Longest \in S /\ \A y \in S : Longest >= y
    BY <1>6, Zenon DEF Longest, Max, S
<1> HIDE DEF T
<1>8. Longest \in 1..MemSize /\ TxLen[d] \in 1..MemSize /\ Longest >= TxLen[d]
    BY <1>1, <1>7
<1> QED
    BY <1>1, <1>8

\* As DatagramsIntact says it: the TX thread gave up so seldom that what may
\* then be in the buffer fits it.
Room == (2 + timeouts) * Longest <= MemSize

\* The bytes of a datagram.
Bytes(d) == Payload(d, TxLen[d])

LEMMA BytesOf ==
    ASSUME NEW d \in 1..MaxTx, NEW len \in Nat
    PROVE  /\ Payload(d, len) \in Seq(Int \X Int) /\ Len(Payload(d, len)) = len
           /\ Payload(d, len) = [k \in 1..len |-> Payload(d, len)[k]]
<1>1. d \in Int
    BY WiznetDriverAssumption
<1>2. \A k \in 1..len : <<d, k>> \in Int \X Int
    BY <1>1
<1> QED
    BY <1>2 DEF Payload

\* The datagrams in the chip lie one behind the other from the chip's pointer,
\* which stands at position p[1], to the driver's, at the last.
DatagramsAt(p) ==
    LET last == Len(chipTx) + 1 IN
    /\ p \in [1..last -> Int]
    /\ p[1] % PtrMod = txRd /\ p[last] % PtrMod = txWr
    /\ \A i, j \in 1..last : i <= j => p[i] <= p[j]
    /\ \A i \in 1..Len(chipTx) : p[last] - p[i] <= (last - i) * Longest
    /\ \A i \in 1..Len(chipTx) :
          /\ p[i + 1] = p[i] + TxLen[chipTx[i]]
          /\ Holds(txMem, p[i], Bytes(chipTx[i]))

SentIntact == \A i \in 1..Len(sent) : sent[i].bytes = Bytes(sent[i].id)
Datagrams == Seq([id : 1..MaxTx, bytes : Seq(Int \X Int)])

TxRingInv ==
    /\ Memory(txMem)
    /\ Room => /\ sent \in Datagrams /\ SentIntact
               /\ \E p \in [1..Len(chipTx) + 1 -> Int] : DatagramsAt(p)

\* What is written behind the datagrams leaves them as they are.
LEMMA DatagramsStay ==
    ASSUME chipTx \in Seq(1..MaxTx), timeouts \in Nat, Len(chipTx) <= timeouts + 1, Room,
           NEW p, DatagramsAt(p),
           NEW n \in Nat, n <= Longest, NEW new, Kept(txMem, new, p[Len(chipTx) + 1], n)
    PROVE  \A i \in 1..Len(chipTx) : Holds(new, p[i], Bytes(chipTx[i]))
<1> SUFFICES ASSUME NEW i \in 1..Len(chipTx) PROVE Holds(new, p[i], Bytes(chipTx[i]))
    OBVIOUS
<1> DEFINE last == Len(chipTx) + 1
           d == chipTx[i]
           s == Bytes(d)
           w == p[last]
           x == p[i]
<1>1. last \in Nat /\ i \in Nat /\ i \in 1..last /\ i + 1 \in 1..last /\ last \in 1..last
    BY LenProperties
<1>2. d \in 1..MaxTx
    BY ElementOfSeq
<1>3. TxLen[d] \in Nat /\ TxLen[d] <= Longest /\ Longest \in Nat
    BY <1>2, LongestIs
<1>4. s \in Seq(Int \X Int) /\ Len(s) = TxLen[d]
    BY <1>2, <1>3, BytesOf DEF Bytes
<1>5. x \in Int /\ w \in Int /\ p[i + 1] \in Int
    BY <1>1 DEF DatagramsAt
<1>6. p[i + 1] = x + TxLen[d] /\ Holds(txMem, x, s)
    BY DEF DatagramsAt
<1>7. p[i + 1] <= w
    BY <1>1 DEF DatagramsAt
<1>8. w - x <= (last - i) * Longest
    BY <1>1 DEF DatagramsAt
<1> HIDE DEF d, s, w, x
<1>9. (last - i) * Longest + Longest <= (2 + timeouts) * Longest
    <2>1. last - i \in Int /\ last - i + 1 <= 2 + timeouts
        BY <1>1
    <2> DEFINE m == last - i
    <2>2. m \in Int /\ m + 1 <= 2 + timeouts
        BY <2>1
    <2> HIDE DEF m
    <2>3. (m + 1) * Longest <= (2 + timeouts) * Longest
        BY <1>3, <2>2, ProductGrows
    <2>4. (m + 1) * Longest = m * Longest + Longest
        BY <1>3, <2>2
    <2> QED
        BY <2>3, <2>4 DEF m
<1>10. (last - i) * Longest \in Int /\ (2 + timeouts) * Longest \in Int /\ MemSize \in Int
    BY <1>1, <1>3, Sizes
<1> DEFINE big == (last - i) * Longest
           all == (2 + timeouts) * Longest
<1>11. /\ w - x <= big /\ big + Longest <= all /\ all <= MemSize
       /\ big \in Int /\ all \in Int
    BY <1>8, <1>9, <1>10 DEF Room
<1> HIDE DEF big, all, last
<1>12. w - x + n <= MemSize
    BY <1>3, <1>5, <1>10, <1>11
<1>13. x + Len(s) <= w
    BY <1>4, <1>6, <1>7
<1> DEFINE S == Int \X Int
<1>14. s \in Seq(S)
    BY <1>4
<1> HIDE DEF S
<1>15. Kept(txMem, new, w, n)
    BY DEF w, last
<1>16. Holds(new, x, s)
    BY <1>5, <1>6, <1>12, <1>13, <1>14, <1>15, StillHolds
<1> QED
    BY <1>16 DEF x, s, d

LEMMA StaysMemory ==
    ASSUME NEW mem, Memory(mem), NEW ptr, NEW buf
    PROVE  Memory(w5500_writebuf(mem, ptr, buf)) /\ Memory(spi_write(mem, ptr, buf))
BY DEF Memory, w5500_writebuf, spi_write

LEMMA DatagramWritten ==
    ASSUME TypeInv, ChipNotOverrun, TxRingInv, RingTxSend
    PROVE  TxRingInv'
<1> DEFINE d == txPkt
           n == TxLen[d]
           s == Bytes(d)
           L == Len(chipTx)
<1>1. /\ chipTx \in Seq(1..MaxTx) /\ L \in Nat /\ timeouts \in Nat /\ tx_sem \in Nat
      /\ Memory(txMem)
    BY LenProperties DEF TypeInv, TypeOK, TxRingInv
<1>2. /\ txPc = "send" /\ chipTx' = Append(chipTx, d) /\ timeouts' = timeouts
      /\ txMem' = w5500_writebuf(txMem, txWr, s) /\ txWr' = (txWr + n) % PtrMod
      /\ txRd' = txRd /\ sent' = sent
    BY DEF RingTxSend, TxSend, Bytes
<1>3. d \in 1..MaxTx
    BY <1>2 DEF TypeInv, Counted
<1>4. n \in Nat /\ n <= Longest /\ n \in 1..MemSize /\ Longest \in Nat
    BY <1>3, LongestIs
<1>5. s \in Seq(Int \X Int) /\ Len(s) = n
    BY <1>3, <1>4, BytesOf DEF Bytes
<1>6. Memory(txMem)'
    BY <1>1, <1>2, StaysMemory DEF Memory
<1>7. ASSUME Room
      PROVE  /\ (sent \in Datagrams /\ SentIntact)'
             /\ (\E places \in [1..Len(chipTx) + 1 -> Int] : DatagramsAt(places))'
    <2>1. sent \in Datagrams /\ SentIntact
        BY <1>7 DEF TxRingInv
    <2>2. (sent \in Datagrams /\ SentIntact)'
        BY <1>2, <2>1 DEF Datagrams, SentIntact, Bytes, Payload
    <2>3. PICK p \in [1..L + 1 -> Int] : DatagramsAt(p)
        BY <1>7 DEF TxRingInv
    <2> DEFINE w == p[L + 1]
    <2>4. w \in Int /\ txWr = w % PtrMod /\ txRd = p[1] % PtrMod
        BY <1>1, <2>3 DEF DatagramsAt
    <2>5. L <= timeouts + 1
        BY <1>1, <1>2 DEF ChipNotOverrun
    <2>6. Holds(txMem', w, s) /\ Kept(txMem, txMem', w, n)
        <3> DEFINE S == Int \X Int
                   mem == RoundWrite(txMem, txWr, s)
        <3>1. s \in Seq(S) /\ Len(s) = n /\ Len(s) <= MemSize
            BY <1>4, <1>5, Sizes
        <3>2. txWr \in Int
            BY <2>4, Sizes, Divided
        <3> HIDE DEF s, S, w, n
        <3>3. txMem' = mem
            BY <1>1, <1>2, <3>1, <3>2, WriteGoesRound
        <3>4. Holds(mem, w, s) /\ Kept(txMem, mem, w, Len(s))
            BY <1>1, <2>4, <3>1, Written
        <3> QED
            BY <3>1, <3>3, <3>4
    <2>7. /\ Len(chipTx') = L + 1 /\ chipTx'[L + 1] = d
          /\ \A i \in 1..L : chipTx'[i] = chipTx[i]
        BY <1>1, <1>2, <1>3
    <2>q. \E q \in [1..L + 2 -> Int] : q[L + 2] = w + n /\ (\A i \in 1..L + 1 : q[i] = p[i])
        <3> DEFINE q == [i \in 1..L + 2 |-> IF i = L + 2 THEN w + n ELSE p[i]]
        <3>1. q \in [1..L + 2 -> Int] /\ q[L + 2] = w + n /\ (\A i \in 1..L + 1 : q[i] = p[i])
            BY <1>1, <1>4, <2>3, <2>4
        <3> HIDE DEF q
        <3> QED
            BY <3>1
    <2>8. PICK q \in [1..L + 2 -> Int] : q[L + 2] = w + n /\ (\A i \in 1..L + 1 : q[i] = p[i])
        BY <2>q
    <2>9. \A i \in 1..L : Holds(txMem', p[i], Bytes(chipTx[i]))
        BY <1>1, <1>4, <1>7, <2>3, <2>5, <2>6, DatagramsStay
    <2>10. /\ \A i \in 1..L : p[i + 1] = p[i] + TxLen[chipTx[i]]
           /\ \A i, j \in 1..L + 1 : i <= j => p[i] <= p[j]
           /\ \A i \in 1..L : w - p[i] <= (L + 1 - i) * Longest
        BY <2>3 DEF DatagramsAt
    <2> HIDE DEF w, n, s, d, L
    <2>11. DatagramsAt(q)'
        <3>1. Len(chipTx') + 1 = L + 2 /\ L \in Nat
            BY <1>1, <2>7
        <3>2. q[1] % PtrMod = txRd'
            <4>1. q[1] = p[1]
                BY <1>1, <2>8
            <4> QED
                BY <1>2, <2>4, <4>1
        <3>3. q[L + 2] % PtrMod = txWr'
            <4>1. ((w % PtrMod) + n) % PtrMod = (w + n) % PtrMod
                BY <1>4, <2>4, Pointers
            <4> QED
                BY <1>2, <2>4, <2>8, <4>1
        <3>4. ASSUME NEW i \in 1..L + 2, NEW j \in 1..L + 2, i <= j PROVE q[i] <= q[j]
            <4>1. CASE j = L + 2 /\ i # L + 2
                <5>1. i \in 1..L + 1 /\ L + 1 \in 1..L + 1 /\ i <= L + 1
                    BY <3>1, <4>1
                <5>2. q[i] = p[i] /\ p[i] <= w /\ q[j] = w + n /\ p[i] \in Int
                    BY <2>3, <2>8, <2>10, <4>1, <5>1 DEF w, L
                <5> QED
                    BY <1>4, <2>4, <5>2
            <4>2. CASE j \in 1..L + 1
                <5>1. i \in 1..L + 1
                    BY <3>1, <3>4, <4>2
                <5> QED
                    BY <2>8, <2>10, <3>4, <4>2, <5>1
            <4>3. CASE i = j
                <5>1. q[i] \in Int
                    BY <2>8
                <5> QED
                    BY <4>3, <5>1
            <4> QED
                BY <3>1, <3>4, <4>1, <4>2, <4>3
        <3>5. ASSUME NEW i \in 1..L + 1 PROVE q[L + 2] - q[i] <= (L + 2 - i) * Longest
            <4>1. CASE i = L + 1
                <5>1. L + 2 - i = 1 /\ q[L + 2] - q[i] = n
                    BY <1>4, <2>4, <2>8, <3>1, <4>1 DEF w
                <5>2. 1 * Longest = Longest
                    BY <1>4
                <5> QED
                    BY <1>4, <5>1, <5>2
            <4>2. CASE i \in 1..L
                <5> DEFINE m == L + 1 - i
                <5>1. m \in Int /\ L + 2 - i = m + 1
                    BY <3>1
                <5>2. w - p[i] <= m * Longest /\ q[i] = p[i] /\ p[i] \in Int
                    BY <2>3, <2>8, <2>10, <4>2 DEF L
                <5> HIDE DEF m
                <5>3. (m + 1) * Longest = m * Longest + Longest /\ m * Longest \in Int
                    BY <1>4, <5>1
                <5>4. (w + n) - p[i] <= m * Longest + Longest
                    BY <1>4, <2>4, <5>2, <5>3
                <5>5. q[L + 2] - q[i] <= m * Longest + Longest
                    <6>1. q[L + 2] = w + n /\ q[i] = p[i]
                        BY <2>8, <5>2
                    <6> QED
                        BY <5>4, <6>1, Zenon
                <5>6. (L + 2 - i) * Longest = (m + 1) * Longest
                    BY <5>1
                <5> QED
                    BY <5>3, <5>5, <5>6
            <4> QED
                BY <3>1, <4>1, <4>2
        <3>6. ASSUME NEW i \in 1..L + 1
              PROVE  q[i + 1] = q[i] + TxLen[chipTx'[i]] /\ Holds(txMem', q[i], Bytes(chipTx'[i]))
            <4>1. CASE i = L + 1
                <5>1. q[i + 1] = w + n /\ q[i] = w /\ chipTx'[i] = d
                    BY <2>7, <2>8, <3>1, <4>1 DEF w
                <5> QED
                    BY <2>6, <5>1 DEF n, s
            <4>2. CASE i \in 1..L
                <5>1. i + 1 \in 1..L + 1
                    BY <3>1, <4>2
                <5>2. q[i + 1] = p[i + 1] /\ q[i] = p[i] /\ chipTx'[i] = chipTx[i]
                    BY <2>7, <2>8, <4>2, <5>1
                <5> QED
                    BY <2>9, <2>10, <4>2, <5>2
            <4> QED
                BY <3>1, <4>1, <4>2
        <3>7. Len(chipTx') = L + 1
            BY <2>7
        <3>8. q \in [1..Len(chipTx') + 1 -> Int]
            BY <2>8, <3>1
        <3>9. \A i \in 1..Len(chipTx') :
                 q[Len(chipTx') + 1] - q[i] <= (Len(chipTx') + 1 - i) * Longest
            <4> DEFINE e == Len(chipTx') + 1
            <4>1. e = L + 2
                BY <3>1
            <4>2. \A i \in 1..L + 1 : q[L + 2] - q[i] <= (L + 2 - i) * Longest
                BY <3>5
            <4> HIDE DEF e
            <4>3. \A i \in 1..Len(chipTx') : q[e] - q[i] <= (e - i) * Longest
                <5> SUFFICES ASSUME NEW i \in 1..Len(chipTx') PROVE q[e] - q[i] <= (e - i) * Longest
                    OBVIOUS
                <5>1. i \in 1..L + 1
                    BY <3>7
                <5>2. q[L + 2] - q[i] <= (L + 2 - i) * Longest
                    BY <4>2, <5>1, Zenon
                <5> DEFINE g == (L + 2 - i) * Longest
                           h == (e - i) * Longest
                <5>3. g = h
                    <6> DEFINE u == L + 2 - i
                               v == e - i
                    <6>1. u = v
                        BY <3>1, <4>1
                    <6> HIDE DEF u, v
                    <6>2. u * Longest = v * Longest
                        BY <6>1
                    <6> QED
                        BY <6>2 DEF u, v
                <5>4. q[e] = q[L + 2]
                    BY <4>1
                <5>5. q[L + 2] - q[i] <= g
                    BY <5>2
                <5> HIDE DEF g, h
                <5>6. q[e] - q[i] <= h
                    BY <5>3, <5>4, <5>5
                <5> QED
                    BY <5>6 DEF h
            <4> QED
                BY <4>3 DEF e
        <3>10. \A i, j \in 1..Len(chipTx') + 1 : i <= j => q[i] <= q[j]
            BY <3>1, <3>4
        <3>11. q[Len(chipTx') + 1] % PtrMod = txWr'
            BY <3>1, <3>3
        <3> QED
            BY <3>2, <3>6, <3>7, <3>8, <3>9, <3>10, <3>11 DEF DatagramsAt
    <2>12. q \in [1..Len(chipTx') + 1 -> Int]
        BY <1>1, <2>7, <2>8
    <2> QED
        BY <2>2, <2>11, <2>12
<1>8. Room' => Room
    BY <1>2 DEF Room
<1> QED
    BY <1>6, <1>7, <1>8 DEF TxRingInv

\* With the room still there if it is there afterwards.
LEMMA TxRingSame ==
    ASSUME TypeInv, TxRingInv, Room' => Room,
           UNCHANGED <<txRd, txWr, sent, chipTx>>, Memory(txMem'),
           \/ txMem' = txMem
           \/ \A p : Room /\ DatagramsAt(p) =>
                 \A i \in 1..Len(chipTx) : Holds(txMem', p[i], Bytes(chipTx[i]))
    PROVE  TxRingInv'
<1>1. Memory(txMem)'
    BY DEF Memory
<1>2. ASSUME Room
      PROVE  /\ (sent \in Datagrams /\ SentIntact)'
             /\ (\E places \in [1..Len(chipTx) + 1 -> Int] : DatagramsAt(places))'
    <2>1. (sent \in Datagrams /\ SentIntact)'
        BY <1>2 DEF TxRingInv, Datagrams, SentIntact, Bytes, Payload
    <2>2. PICK p \in [1..Len(chipTx) + 1 -> Int] : DatagramsAt(p)
        BY <1>2 DEF TxRingInv
    <2>3. \A i \in 1..Len(chipTx) : Holds(txMem', p[i], Bytes(chipTx[i]))
        <3>1. CASE txMem' = txMem
            BY <2>2, <3>1 DEF DatagramsAt
        <3>2. CASE txMem' # txMem
            BY <1>2, <2>2, <3>2
        <3> QED
            BY <3>1, <3>2
    <2>4. DatagramsAt(p)'
        BY <2>2, <2>3 DEF DatagramsAt
    <2> QED
        BY <2>1, <2>2, <2>4
<1> QED
    BY <1>1, <1>2 DEF TxRingInv

LEMMA PartWritten ==
    ASSUME TypeInv, ChipNotOverrun, TxRingInv, RingTxWriteFails
    PROVE  TxRingInv'
<1> DEFINE d == txPkt
           n == TxLen[d]
           offset == txWr % MemSize
           first == AtEnd(offset, n).first
           s == Payload(d, first)
           L == Len(chipTx)
<1>1. /\ chipTx \in Seq(1..MaxTx) /\ L \in Nat /\ timeouts \in Nat /\ tx_sem \in Nat
      /\ Memory(txMem)
    BY LenProperties DEF TypeInv, TypeOK, TxRingInv
<1>2. /\ txPc = "send" /\ timeouts' = timeouts
      /\ UNCHANGED <<txRd, txWr, sent, chipTx>>
      /\ txMem' = txMem \/ txMem' = spi_write(txMem, offset, s)
    BY DEF RingTxWriteFails, TxWriteFails
<1>3. d \in 1..MaxTx
    BY <1>2 DEF TypeInv, Counted
<1>4. n \in Nat /\ n <= Longest /\ n \in 0..MemSize /\ Longest \in Nat
    BY <1>3, Sizes, LongestIs
<1>5. Memory(txMem')
    BY <1>1, <1>2, StaysMemory
<1>6. L <= timeouts + 1
    BY <1>1, <1>2 DEF ChipNotOverrun
<1>7. Room' => Room
    BY <1>2 DEF Room
<1>8. ASSUME NEW p, Room, DatagramsAt(p), txMem' # txMem
      PROVE  \A i \in 1..L : Holds(txMem', p[i], Bytes(chipTx[i]))
    <2> DEFINE w == p[L + 1]
    <2>1. w \in Int /\ txWr = w % PtrMod
        BY <1>1, <1>8 DEF DatagramsAt
    <2>2. txWr \in Int
        BY <2>1, Sizes, Divided
    <2>3. offset \in 0..MemSize - 1
        BY <2>2, Sizes, Divided
    <2>4. first \in 0..n /\ offset + first <= MemSize
        BY <1>4, <2>3, Split
    <2>5. first \in Nat /\ first <= Longest
        BY <1>4, <2>4
    <2> HIDE DEF first, offset, n
    <2>6. s \in Seq(Int \X Int) /\ Len(s) = first
        BY <1>3, <2>5, BytesOf
    <2> DEFINE S == Int \X Int
    <2>7. s \in Seq(S) /\ Len(s) <= MemSize /\ (txWr % MemSize) + Len(s) <= MemSize
        BY <2>3, <2>4, <2>5, <2>6, Sizes DEF offset
    <2> HIDE DEF S, s, w
    <2>8. txMem' = RoundWrite(txMem, txWr, s)
        <3>1. spi_write(txMem, txWr % MemSize, s) = RoundWrite(txMem, txWr, s)
            BY <1>1, <2>2, <2>7, PartGoesRound
        <3> QED
            BY <1>2, <1>8, <3>1 DEF offset
    <2>9. Kept(txMem, RoundWrite(txMem, txWr, s), w, Len(s))
        BY <1>1, <2>1, <2>7, Written
    <2>10. Kept(txMem, txMem', w, first)
        BY <2>6, <2>8, <2>9
    <2> QED
        BY <1>1, <1>6, <1>8, <2>5, <2>10, DatagramsStay DEF w
<1> QED
    BY <1>2, <1>5, <1>7, <1>8, TxRingSame

LEMMA DatagramGone ==
    ASSUME TypeInv, TxRingInv, RingDatagramSent
    PROVE  TxRingInv'
<1> DEFINE d == Head(chipTx)
           n == TxLen[d]
           L == Len(chipTx)
<1>1. chipTx \in Seq(1..MaxTx) /\ Memory(txMem)
    BY DEF TypeInv, TypeOK, TxRingInv
<1>2. /\ chipTx # <<>> /\ chipTx' = Tail(chipTx) /\ timeouts' = timeouts
      /\ sent' = Append(sent, [id |-> d, bytes |-> RoundRead(txMem, txRd, n)])
      /\ txRd' = (txRd + n) % PtrMod /\ txMem' = txMem /\ txWr' = txWr
    BY DEF RingDatagramSent, DatagramSent, txThread
<1>3. /\ L \in Nat \ {0} /\ d = chipTx[1] /\ d \in 1..MaxTx /\ 1 \in 1..L
      /\ chipTx' \in Seq(1..MaxTx) /\ Len(chipTx') = L - 1
      /\ \A i \in 1..L - 1 : chipTx'[i] = chipTx[i + 1]
    <2>1. L \in Nat \ {0} /\ d = chipTx[1]
        BY <1>1, <1>2, EmptySeq
    <2>2. /\ d \in 1..MaxTx /\ Tail(chipTx) \in Seq(1..MaxTx) /\ Len(Tail(chipTx)) = L - 1
          /\ \A i \in 1..Len(Tail(chipTx)) : Tail(chipTx)[i] = chipTx[i + 1]
        BY <1>1, <1>2, HeadTailProperties
    <2> QED
        BY <1>2, <2>1, <2>2
<1>4. n \in Nat /\ n \in 1..MemSize /\ n \in 0..MemSize /\ Longest \in Nat
    BY <1>3, Sizes, LongestIs
<1>5. /\ Bytes(d) \in Seq(Int \X Int) /\ Len(Bytes(d)) = n
      /\ Bytes(d) = [k \in 1..n |-> Bytes(d)[k]]
    BY <1>3, <1>4, BytesOf DEF Bytes
<1>6. Memory(txMem)'
    BY <1>1, <1>2 DEF Memory
<1> HIDE DEF L, n, d
<1>7. ASSUME Room
      PROVE  /\ (sent \in Datagrams /\ SentIntact)'
             /\ (\E places \in [1..Len(chipTx) + 1 -> Int] : DatagramsAt(places))'
    <2>1. sent \in Datagrams /\ SentIntact
        BY <1>7 DEF TxRingInv
    <2>2. PICK p \in [1..L + 1 -> Int] : DatagramsAt(p)
        BY <1>7 DEF TxRingInv, L
    <2>3. /\ \A i \in 1..L : p[i + 1] = p[i] + TxLen[chipTx[i]] /\ Holds(txMem, p[i], Bytes(chipTx[i]))
          /\ \A i, j \in 1..L + 1 : i <= j => p[i] <= p[j]
          /\ \A i \in 1..L : p[L + 1] - p[i] <= (L + 1 - i) * Longest
          /\ txWr = p[L + 1] % PtrMod /\ txRd = p[1] % PtrMod
        BY <2>2 DEF DatagramsAt, L
    <2> DEFINE a == p[1]
    <2>4. 1 \in 1..L /\ 1 \in 1..L + 1 /\ 2 \in 1..L + 1 /\ L + 1 \in 1..L + 1 /\ 1 + 1 = 2
        BY <1>3
    <2>5. a \in Int /\ p[2] \in Int /\ p[2] = a + n /\ Holds(txMem, a, Bytes(d))
        BY <1>3, <2>2, <2>3, <2>4 DEF n
    <2> HIDE DEF a
    <2>6. RoundRead(txMem, txRd, n) = Bytes(d)
        <3>1. RoundRead(txMem, a % PtrMod, n) = RoundRead(txMem, a, n)
            BY <1>1, <1>4, <2>5, ReadFrom
        <3>2. \A k \in 1..n : txMem[(a + k - 1) % MemSize] = Bytes(d)[k]
            BY <1>5, <2>5 DEF Holds
        <3>3. RoundRead(txMem, a, n) = [k \in 1..n |-> Bytes(d)[k]]
            BY <3>2 DEF RoundRead
        <3> QED
            BY <1>5, <2>3, <3>1, <3>3 DEF a
    <2>7. (sent \in Datagrams /\ SentIntact)'
        <3> DEFINE D == [id : 1..MaxTx, bytes : Seq(Int \X Int)]
                   e == [id |-> d, bytes |-> Bytes(d)]
        <3>1. e \in D /\ e.id = d /\ e.bytes = Bytes(d)
            BY <1>3, <1>5
        <3>2. sent \in Seq(D) /\ sent' = Append(sent, e)
            BY <1>2, <2>1, <2>6 DEF Datagrams
        <3> HIDE DEF D, e
        <3>3. /\ sent' \in Seq(D) /\ Len(sent') = Len(sent) + 1 /\ Len(sent) \in Nat
              /\ sent'[Len(sent) + 1] = e /\ \A i \in 1..Len(sent) : sent'[i] = sent[i]
            BY <3>1, <3>2
        <3>4. ASSUME NEW i \in 1..Len(sent') PROVE sent'[i].bytes = Bytes(sent'[i].id)
            <4>1. CASE i = Len(sent) + 1
                BY <3>1, <3>3, <4>1
            <4>2. CASE i \in 1..Len(sent)
                BY <2>1, <3>3, <4>2 DEF SentIntact
            <4> QED
                BY <3>3, <4>1, <4>2
        <3>5. SentIntact'
            BY <3>4 DEF SentIntact
        <3> QED
            BY <3>3, <3>5 DEF Datagrams, D
    <2>q. \E q \in [1..L -> Int] : \A i \in 1..L : q[i] = p[i + 1]
        <3> DEFINE q == [i \in 1..L |-> p[i + 1]]
        <3>1. q \in [1..L -> Int] /\ \A i \in 1..L : q[i] = p[i + 1]
            BY <1>3, <2>2
        <3> HIDE DEF q
        <3> QED
            BY <3>1
    <2>8. PICK q \in [1..L -> Int] : \A i \in 1..L : q[i] = p[i + 1]
        BY <2>q
    <2>9. Len(chipTx') + 1 = L
        BY <1>3
    <2>10. q[1] = p[2] /\ q[L] = p[L + 1] /\ L \in 1..L
        BY <1>3, <2>4, <2>8
    <2>11. DatagramsAt(q)'
        <3>1. q[1] % PtrMod = txRd'
            <4>1. ((a % PtrMod) + n) % PtrMod = (a + n) % PtrMod
                BY <1>4, <2>5, Pointers
            <4> QED
                BY <1>2, <2>3, <2>5, <2>10, <4>1 DEF a
        <3>2. q[L] % PtrMod = txWr'
            BY <1>2, <2>3, <2>10
        <3>3. ASSUME NEW i \in 1..L, NEW j \in 1..L, i <= j PROVE q[i] <= q[j]
            <4>1. i + 1 \in 1..L + 1 /\ j + 1 \in 1..L + 1 /\ i + 1 <= j + 1
                BY <1>3, <3>3
            <4> QED
                BY <2>3, <2>8, <4>1
        <3>4. ASSUME NEW i \in 1..L - 1 PROVE q[L] - q[i] <= (L - i) * Longest
            <4>1. i + 1 \in 1..L /\ i \in 1..L
                BY <1>3
            <4>2. p[L + 1] - p[i + 1] <= (L + 1 - (i + 1)) * Longest
                BY <2>3, <4>1
            <4>3. L + 1 - (i + 1) = L - i
                BY <1>3
            <4>4. q[L] = p[L + 1] /\ q[i] = p[i + 1]
                BY <2>8, <2>10, <4>1
            <4> QED
                BY <4>2, <4>3, <4>4, Zenon
        <3>5. ASSUME NEW i \in 1..L - 1
              PROVE  q[i + 1] = q[i] + TxLen[chipTx'[i]] /\ Holds(txMem', q[i], Bytes(chipTx'[i]))
            <4>1. i \in 1..L /\ i + 1 \in 1..L
                BY <1>3
            <4>2. q[i] = p[i + 1] /\ q[i + 1] = p[(i + 1) + 1] /\ chipTx'[i] = chipTx[i + 1]
                BY <1>3, <2>8, <4>1
            <4>3. /\ p[(i + 1) + 1] = p[i + 1] + TxLen[chipTx[i + 1]]
                  /\ Holds(txMem, p[i + 1], Bytes(chipTx[i + 1]))
                BY <2>3, <4>1
            <4> QED
                BY <1>2, <4>2, <4>3
        <3> DEFINE e == Len(chipTx') + 1
        <3>6. e = L /\ Len(chipTx') = L - 1
            BY <1>3, <2>9
        <3> HIDE DEF e
        <3>7. /\ q \in [1..e -> Int] /\ q[1] % PtrMod = txRd' /\ q[e] % PtrMod = txWr'
              /\ \A i, j \in 1..e : i <= j => q[i] <= q[j]
            BY <2>8, <3>1, <3>2, <3>3, <3>6
        <3>8. ASSUME NEW i \in 1..Len(chipTx') PROVE q[e] - q[i] <= (e - i) * Longest
            <4>1. i \in 1..L - 1
                BY <3>6
            <4>2. q[L] - q[i] <= (L - i) * Longest
                BY <3>4, <4>1
            <4>3. q[e] = q[L] /\ e - i = L - i
                BY <3>6
            <4> QED
                BY <4>2, <4>3, Zenon
        <3> QED
            BY <3>5, <3>6, <3>7, <3>8 DEF DatagramsAt, e
    <2>12. q \in [1..Len(chipTx') + 1 -> Int]
        BY <2>8, <2>9
    <2> QED
        BY <2>7, <2>11, <2>12
<1>8. Room' => Room
    BY <1>2 DEF Room
<1> QED
    BY <1>6, <1>7, <1>8 DEF TxRingInv

LEMMA TxRingInitially == RingInit => TxRingInv
<1> SUFFICES ASSUME RingInit PROVE TxRingInv
    OBVIOUS
<1>1. /\ chipTx = <<>> /\ sent = <<>> /\ txRd = 0 /\ txWr = 0
      /\ txMem = [a \in 0..MemSize - 1 |-> <<0, 0>>]
    BY DEF RingInit, Init
<1>2. Memory(txMem)
    BY <1>1 DEF Memory
<1>3. sent \in Datagrams /\ SentIntact
    BY <1>1 DEF Datagrams, SentIntact
<1> DEFINE p == [i \in 1..1 |-> 0]
<1>4. Len(chipTx) = 0 /\ Len(chipTx) + 1 = 1
    BY <1>1
<1>5. p \in [1..1 -> Int] /\ p[1] = 0
    OBVIOUS
<1>6. 0 % PtrMod = 0
    BY Sizes
<1> HIDE DEF p
<1>8. DatagramsAt(p)
    BY <1>1, <1>4, <1>5, <1>6 DEF DatagramsAt
<1> QED
    BY <1>2, <1>3, <1>4, <1>5, <1>8 DEF TxRingInv

LEMMA TxRingNext ==
    TypeInv /\ ChipNotOverrun /\ TxRingInv /\ [RingNext]_allVars => TxRingInv'
<1> SUFFICES ASSUME TypeInv, ChipNotOverrun, TxRingInv, [RingNext]_allVars PROVE TxRingInv'
    OBVIOUS
<1> DEFINE same == UNCHANGED <<txMem, txRd, txWr, sent, chipTx>>
<1>0. ASSUME same, Room' => Room PROVE TxRingInv'
    BY <1>0, TxRingSame DEF TxRingInv
<1>r. ASSUME UNCHANGED timeouts PROVE Room' => Room
    BY <1>r DEF Room
<1>1. CASE InitStep
    BY <1>0, <1>r, <1>1 DEF InitStep, vars, txThread, txRing
<1>2. CASE RingSetRxCallback
    BY <1>0, <1>r, <1>2 DEF RingSetRxCallback, LeanWiznet_SetRxCallback, txThread, txRing
<1>3. ASSUME NEW bad \in BOOLEAN, RingFrameArrives(bad) PROVE TxRingInv'
    BY <1>0, <1>r, <1>3 DEF RingFrameArrives, FrameArrives, txThread, txRing
<1>4. CASE RingRxThread
    <2>1. txRing' = txRing
        BY <1>4 DEF RingRxThread, RingRxFrame, RingRxNothing
    <2>2. RxThread
        BY <1>4 DEF RingRxThread, RingRxFrame, RingRxNothing, RxThread
    <2>3. chipTx' = chipTx /\ txThread' = txThread
        BY <2>2 DEF RxThread, RxWake, RxIdle, RxReadIr, RxClearIr, RxService, RxLock,
                    RxNothing, RxFrame, RxReturn
    <2> QED
        BY <1>0, <1>r, <2>1, <2>3 DEF txRing, txThread
<1>5. CASE RingEnqueueEthTx
    BY <1>0, <1>r, <1>5 DEF RingEnqueueEthTx, EnqueueEthTx, txThread, txRing
<1>6. CASE RingTxThread
    <2>1. CASE RingTxSend
        BY <2>1, DatagramWritten
    <2>2. CASE RingTxWriteFails
        BY <2>2, PartWritten
    <2>3. CASE (TxGet \/ TxLock \/ TxTake) /\ UNCHANGED <<start, rxRing, txRing>>
        BY <1>0, <1>r, <2>3 DEF TxGet, TxLock, TxTake, TxReturn, txRing
    <2>4. CASE TxTimeout /\ UNCHANGED <<start, rxRing, txRing>>
        <3>1. same /\ timeouts' = timeouts + 1 /\ txPc = "wait"
            BY <2>4 DEF TxTimeout, TxReturn, txRing
        <3>2. txPkt \in 1..MaxTx /\ timeouts \in Nat
            BY <3>1 DEF TypeInv, TypeOK, Counted
        <3>3. Longest \in Nat
            BY <3>2, LongestIs
        <3>4. Room' => Room
            <4> DEFINE m == 2 + timeouts
            <4>1. m \in Int /\ m + 1 \in Int /\ m <= m + 1 /\ 2 + timeouts' = m + 1
                BY <3>1, <3>2
            <4> HIDE DEF m
            <4>2. m * Longest <= (m + 1) * Longest /\ m * Longest \in Int
                  /\ (m + 1) * Longest \in Int
                BY <3>3, <4>1, ProductGrows
            <4>3. MemSize \in Int
                BY Sizes
            <4>4. (m + 1) * Longest <= MemSize => m * Longest <= MemSize
                BY <4>2, <4>3
            <4>5. Room' <=> (m + 1) * Longest <= MemSize
                BY <4>1, Zenon DEF Room
            <4>6. Room <=> m * Longest <= MemSize
                BY DEF Room, m
            <4> QED
                BY <4>4, <4>5, <4>6
        <3> QED
            BY <1>0, <3>1, <3>4
    <2> QED
        BY <1>6, <2>1, <2>2, <2>3, <2>4 DEF RingTxThread
<1>7. CASE RingDatagramSent
    BY <1>7, DatagramGone
<1>8. CASE UNCHANGED allVars
    BY <1>0, <1>r, <1>8 DEF allVars, vars, txThread, txRing
<1> QED
    BY <1>1, <1>2, <1>3, <1>4, <1>5, <1>6, <1>7, <1>8 DEF RingNext

\* What the chip puts on Ethernet is what w5500_tx was given, byte for byte,
\* although the free space of the buffer is never asked for and a failed write
\* leaves part of a datagram behind, as long as the TX thread gave up waiting
\* so seldom that what may then be unsent fits the buffer.
THEOREM DatagramsSentIntact == RingSpec => []DatagramsIntact
<1>1. TypeInv /\ TxRingInv => DatagramsIntact
    BY DEF TxRingInv, DatagramsIntact, Room, SentIntact, Bytes
<1>2. Spec => []TypeInv
    BY TypeInit, TypeNext, PTL DEF Spec
<1> QED
    BY <1>1, <1>2, TxRingInitially, TxRingNext, BuffersImplementDriver, BuffersInvariants, PTL
    DEF RingSpec
=============================================================================
