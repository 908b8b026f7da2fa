-------------------------- MODULE SlotTiming_proofs --------------------------
(***************************************************************************)
(* Proofs about SlotTiming: for every length of a slot, a headroom and a    *)
(* latency, any number of slots in a frame and any delays of the events --  *)
(* within the budget SlotTiming states, where the two devices are to meet.  *)
(***************************************************************************)
EXTENDS SlotTiming, WellFoundedInduction, TLAPS

-----------------------------------------------------------------------------
(* The inductive invariants.                                               *)

\* The FT's downlinks and windows lie on a grid from the beacon.
FtGrid ==
    /\ ul = dl + S + HalfH + L
    /\ next = "beacon" => dl = beacon + S + H + L + HalfH

\* Products: one of them is a sum of delays, Times(n, x) that of n of x.
Times(n, x) == n * x

\* From the event of a downlink to the event of the next, but for its delay;
\* the first downlink after the beacon; and a frame, with events that all
\* take m ticks.
SlotLength == S + S + L + L + H + HalfH
FirstDl == S + H + L + HalfH
FrameLength(m) == FirstDl + Times(Ops - 1, SlotLength + m) + (S + m + L + H + S + H + L)

\* How far a frame is, and how long the previous ones were, if the events
\* take m to m + j ticks.
Course(m, j) ==
    /\ next = "dl" =>
          /\ frames >= 1
          /\ beacon + S + m <= lastBeaconCplt /\ lastBeaconCplt <= beacon + S + m + j
          /\ beacon + FirstDl + Times(Ops - ftSlot, SlotLength + m) <= dl
          /\ dl <= beacon + FirstDl + Times(Ops - ftSlot, SlotLength + m) + Times(Ops - ftSlot, j)
    /\ next = "beacon" /\ frames >= 1 =>
          /\ lastBeaconCplt + FrameLength(m) <= beacon + S + m + j
          /\ beacon + S + m <= lastBeaconCplt + FrameLength(m) + Times(Ops, j)
    /\ next = "dl" /\ frames >= 2 =>
          /\ FrameLength(m) - j <= beaconDelta
          /\ beaconDelta <= FrameLength(m) + Times(Ops, j) + j
    /\ next = "beacon" /\ frames >= 2 =>
          /\ FrameLength(m) - j <= announced
          /\ announced <= FrameLength(m) + Times(Ops, j) + j

\* Where the PT's windows are.
PtGrid == ptState # "WAIT_FOR_BEACON" => tx = rx + Window + L + HalfH

\* A PT that has synchronised is about to meet the FT: it has a frame to wait
\* for the beacon, or the windows are those of the next packets.
Meeting(m, j) ==
    settled =>
        /\ ptState = "WAIT_FOR_LATCH_BEACON" /\ next = "dl" =>
              /\ rx = latch + Window + L
              /\ beacon + FrameLength(m) + Times(Ops, j) <= latch + HalfH
              /\ latch <= beacon + FrameLength(m)
        /\ \/ ptState = "WAIT_FOR_LATCH_BEACON" /\ next = "beacon"
           \/ ptState \in {"SCHEDULED_DOWNLINK", "SCHEDULED_UPLINK"}
           => /\ InWindow(dl, rx)
              /\ next = "beacon" => InWindow(beacon, latch)
        /\ ptState = "SCHEDULED_UPLINK" =>
              /\ InWindow(lastTx, lastUl)
              /\ ptSlot # 0 => lastTx + S + L <= rx
              /\ ptSlot = 0 => lastTx + S + L <= latch /\ latch + Window + L <= rx

-----------------------------------------------------------------------------
(* Types, and the slots of a frame.                                        *)

LEMMA ConstantFacts ==
    /\ S \in Nat /\ S >= 1 /\ HalfH \in Nat /\ L \in Nat /\ Ops \in Nat /\ Ops >= 1
    /\ FtDelays \subseteq Nat /\ PtDelays \subseteq Nat /\ MaxFrames \in Nat
    /\ H \in Nat /\ Window \in Nat /\ H = HalfH + HalfH /\ Window = S + H
    /\ GuessedPeriod \in Int /\ Base \in Int
<1>1. /\ S \in Nat /\ S >= 1 /\ HalfH \in Nat /\ L \in Nat /\ Ops \in Nat /\ Ops >= 1
      /\ FtDelays \subseteq Nat /\ PtDelays \subseteq Nat /\ MaxFrames \in Nat
    BY SlotTimingAssumption
<1>2. /\ H \in Nat /\ Window \in Nat /\ H = HalfH + HalfH /\ Window = S + H
    BY <1>1 DEF H, Window
<1>3. GuessedPeriod \in Int /\ Base \in Int
    <2>1. \A x, y \in Int : x * y \in Int
        OBVIOUS
    <2>2. 2 * Ops \in Int /\ S + H + L \in Int /\ 1000 * S \in Int
        BY <1>1, <1>2
    <2> QED
        BY <2>1, <2>2 DEF GuessedPeriod, Base
<1> QED
    BY <1>1, <1>2, <1>3

\* The times are numbers, and the rest one by one.
TimesOK ==
    /\ beacon \in Int /\ dl \in Int /\ ul \in Int /\ lastUl \in Int /\ announced \in Int
    /\ lastBeaconCplt \in Int /\ beaconDelta \in Int
    /\ latch \in Int /\ rx \in Int /\ tx \in Int /\ lastTx \in Int
CountsOK ==
    /\ ftSlot \in 1..Ops /\ next \in {"beacon", "dl"} /\ frames \in 0..MaxFrames
    /\ ptState \in PtStates /\ ptSlot \in 0..Ops /\ settled \in BOOLEAN

LEMMA TypeSplit == TypeOK <=> TimesOK /\ CountsOK
BY DEF TypeOK, TimesOK, CountsOK

LEMMA TypeJoin == TimesOK' /\ CountsOK' => TypeOK'
BY DEF TypeOK, TimesOK, CountsOK

LEMMA FtDownlinkFacts ==
    ASSUME CountsOK, NEW t, FtTxComplete(t)
    PROVE  /\ ftSlot = 1 => next' = "beacon" /\ ftSlot' = Ops
           /\ ftSlot # 1 => next' = next /\ ftSlot' = ftSlot - 1 /\ ftSlot' \in 1..Ops
           /\ frames' = frames
<1>1. Ops \in Nat /\ ftSlot \in 1..Ops
    BY ConstantFacts DEF CountsOK
<1>2. CASE FtNextSlot(t)
    BY <1>1, <1>2 DEF FtNextSlot, FtTxComplete
<1>3. CASE FtNextFrame(t)
    BY <1>1, <1>3 DEF FtNextFrame, FtTxComplete
<1> QED
    BY <1>2, <1>3 DEF FtTxComplete

\* The steps taken apart.
LEMMA Steps ==
    ASSUME [Next]_vars
    PROVE  \/ \E a \in FtDelays, b \in PtDelays : BeaconOnAir(a, b) \/ DownlinkOnAir(a, b)
           \/ PtTxComplete
           \/ UNCHANGED vars
BY DEF Next

LEMMA TimesNext == TimesOK /\ [Next]_vars => TimesOK'
<1> SUFFICES ASSUME TimesOK, [Next]_vars PROVE TimesOK'
    OBVIOUS
<1>c. S \in Int /\ HalfH \in Int /\ L \in Int /\ H \in Int /\ Window \in Int /\ GuessedPeriod \in Int
    BY ConstantFacts
<1> DEFINE FtTimes == /\ beacon \in Int /\ dl \in Int /\ ul \in Int /\ lastUl \in Int
                      /\ announced \in Int /\ lastBeaconCplt \in Int /\ beaconDelta \in Int
           PtTimes == latch \in Int /\ rx \in Int /\ tx \in Int /\ lastTx \in Int
<1>j. FtTimes' /\ PtTimes' => TimesOK'
    BY DEF TimesOK
<1>t. FtTimes /\ PtTimes
    BY DEF TimesOK
<1>1. ASSUME NEW m \in Int, PtFirstBeacon(m) PROVE PtTimes'
    <2>1. latch' = m + announced - (S + H) /\ rx' = latch' + S + H + L /\ tx' = rx' + S + H + L + HalfH
          /\ lastTx' = lastTx
        BY <1>1 DEF PtFirstBeacon
    <2>2. latch' \in Int
        BY <1>c, <1>t, <2>1
    <2>3. rx' \in Int
        BY <1>c, <2>1, <2>2
    <2>4. tx' \in Int
        BY <1>c, <2>1, <2>3
    <2> QED
        BY <1>t, <2>1, <2>2, <2>3, <2>4
<1>2. ASSUME NEW m \in Int, PtDownlink(m) PROVE PtTimes'
    <2>1. lastTx' \in Int
        BY <1>2, <1>t DEF PtDownlink
    <2>2. CASE PtNextSlot(m)
        <3>1. rx' = m + L + Window + L /\ tx' = rx' + Window + L + HalfH /\ latch' = latch
            BY <2>2 DEF PtNextSlot
        <3>2. rx' \in Int
            BY <1>c, <3>1
        <3>3. tx' \in Int
            BY <1>c, <3>1, <3>2
        <3> QED
            BY <1>t, <2>1, <3>1, <3>2, <3>3
    <2>3. CASE PtNextFrame(m)
        <3>1. /\ latch' = m + L + Window + L
              /\ rx' = latch' + Window + L + H
              /\ tx' = rx' + Window + L + HalfH
            BY <2>3 DEF PtNextFrame
        <3>2. latch' \in Int
            BY <1>c, <3>1
        <3>3. rx' \in Int
            BY <1>c, <3>1, <3>2
        <3>4. tx' \in Int
            BY <1>c, <3>1, <3>3
        <3> QED
            BY <2>1, <3>2, <3>3, <3>4
    <2> QED
        BY <1>2, <2>2, <2>3 DEF PtDownlink
<1>3. ASSUME NEW t \in Int, FtBeaconComplete(t) PROVE FtTimes'
    BY <1>3, <1>t DEF FtBeaconComplete
<1>4. ASSUME NEW t \in Int, FtTxComplete(t) PROVE FtTimes'
    <2>1. lastUl' \in Int /\ lastBeaconCplt' \in Int /\ beaconDelta' \in Int
        BY <1>4, <1>t DEF FtTxComplete
    <2>2. CASE FtNextSlot(t)
        <3>1. /\ dl' = t + L + H + S + L + HalfH
              /\ ul' = t + L + H + S + L + S + H + L
              /\ beacon' = beacon /\ announced' = announced
            BY <2>2 DEF FtNextSlot
        <3>2. dl' \in Int /\ ul' \in Int
            BY <1>c, <3>1
        <3> QED
            BY <1>t, <2>1, <3>1, <3>2
    <2>3. CASE FtNextFrame(t)
        <3>1. /\ beacon' = t + L + H + S + H + L
              /\ dl' = beacon' + S + H + L + HalfH
              /\ ul' = beacon' + S + H + L + S + H + L
              /\ announced' \in {beaconDelta, GuessedPeriod}
            BY <2>3 DEF FtNextFrame
        <3>2. beacon' \in Int
            BY <1>c, <3>1
        <3>3. dl' \in Int /\ ul' \in Int
            BY <1>c, <3>1, <3>2
        <3>4. announced' \in Int
            BY <1>c, <1>t, <3>1
        <3> QED
            BY <2>1, <3>2, <3>3, <3>4
    <2> QED
        BY <1>4, <2>2, <2>3 DEF FtTxComplete
<1>5. ASSUME UNCHANGED ptVars PROVE PtTimes'
    BY <1>5, <1>t DEF ptVars
<1>6. ASSUME PtLatch \/ PtResync PROVE PtTimes'
    BY <1>6, <1>t DEF PtLatch, PtResync
<1>7. ASSUME NEW a \in FtDelays, NEW b \in PtDelays
      PROVE  beacon + S + a \in Int /\ beacon + S + b \in Int /\ dl + S + a \in Int /\ dl + S + b \in Int
    BY <1>c, <1>t, ConstantFacts
<1> HIDE DEF FtTimes, PtTimes
<1>8. ASSUME NEW a \in FtDelays, NEW b \in PtDelays, BeaconOnAir(a, b) PROVE TimesOK'
    <2>1. FtTimes'
        BY <1>3, <1>7, <1>8 DEF BeaconOnAir
    <2>2. PtTimes'
        BY <1>1, <1>5, <1>6, <1>7, <1>8 DEF BeaconOnAir
    <2> QED
        BY <1>j, <2>1, <2>2
<1>9. ASSUME NEW a \in FtDelays, NEW b \in PtDelays, DownlinkOnAir(a, b) PROVE TimesOK'
    <2>1. FtTimes'
        BY <1>4, <1>7, <1>9 DEF DownlinkOnAir
    <2>2. PtTimes'
        BY <1>2, <1>5, <1>6, <1>7, <1>9 DEF DownlinkOnAir
    <2> QED
        BY <1>j, <2>1, <2>2
<1>10. CASE PtTxComplete
    BY <1>10 DEF PtTxComplete, ftVars, TimesOK
<1>11. CASE UNCHANGED vars
    BY <1>11 DEF vars, ftVars, ptVars, TimesOK
<1> QED
    BY <1>8, <1>9, <1>10, <1>11, Steps

\* Types and counters keep each other.
LEMMA CountsInit == Init => TypeOK /\ SlotsAgree
<1> SUFFICES ASSUME Init PROVE TimesOK /\ CountsOK /\ SlotsAgree
    BY TypeSplit
<1>1. CountsOK /\ SlotsAgree
    <2>1. Ops \in Nat /\ Ops >= 1 /\ MaxFrames \in Nat
        BY ConstantFacts
    <2>2. ftSlot \in 1..Ops /\ frames \in 0..MaxFrames /\ ptSlot \in 0..Ops
        BY <2>1 DEF Init
    <2>3. ptState \in PtStates /\ next \in {"beacon", "dl"}
        BY DEF Init, PtStates
    <2>4. settled \in BOOLEAN
        BY DEF Init
    <2>5. CountsOK
        BY <2>2, <2>3, <2>4 DEF CountsOK
    <2>6. SlotsAgree
        BY DEF Init, SlotsAgree
    <2> QED
        BY <2>5, <2>6
<1>2. TimesOK
    <2>c. S \in Int /\ HalfH \in Int /\ L \in Int /\ H \in Int /\ Window \in Int
          /\ GuessedPeriod \in Int /\ Base \in Int
        BY ConstantFacts
    <2>1. beacon \in Int /\ announced \in Int
        BY <2>c DEF Init
    <2>2. dl \in Int
        BY <2>c DEF Init
    <2>3. ul \in Int
        BY <2>c DEF Init
    <2>4. lastUl \in Int
        BY <2>c DEF Init
    <2>5. lastBeaconCplt \in Int /\ beaconDelta \in Int
        BY DEF Init
    <2>6. latch \in Int /\ rx \in Int /\ tx \in Int /\ lastTx \in Int
        BY DEF Init
    <2> QED
        BY <2>1, <2>2, <2>3, <2>4, <2>5, <2>6 DEF TimesOK
<1> QED
    BY <1>1, <1>2

\* The four states of the PT.
LEMMA PtStateFacts ==
    CountsOK => ptState \in {"WAIT_FOR_BEACON", "WAIT_FOR_LATCH_BEACON", "SCHEDULED_DOWNLINK",
                             "SCHEDULED_UPLINK"}
BY DEF CountsOK, PtStates

LEMMA CountsBeacon ==
    ASSUME CountsOK, SlotsAgree, NEW a, NEW b, BeaconOnAir(a, b)
    PROVE  CountsOK' /\ SlotsAgree'
<1>0. Ops \in Nat /\ Ops >= 1 /\ MaxFrames \in Nat
    BY ConstantFacts
<1>1. next = "beacon" /\ next' = "dl" /\ ftSlot' = ftSlot /\ ftSlot = Ops
    BY DEF BeaconOnAir, FtBeaconComplete, SlotsAgree
<1>2. frames' \in 0..MaxFrames
    <2>1. frames' = frames + 1 /\ frames < MaxFrames /\ frames \in 0..MaxFrames
        BY DEF BeaconOnAir, FtBeaconComplete, CountsOK
    <2> QED
        BY <1>0, <2>1
<1>3. \/ ptState' = "WAIT_FOR_LATCH_BEACON" /\ ptSlot' = Ops
      \/ ptState' = "WAIT_FOR_BEACON" /\ ptSlot' = ptSlot
      \/ ptState = "WAIT_FOR_LATCH_BEACON" /\ ptState' = "SCHEDULED_DOWNLINK" /\ ptSlot' = ptSlot
    BY DEF BeaconOnAir, PtFirstBeacon, PtLatch, PtResync, ptVars
<1>4. settled' \in BOOLEAN
    <2>1. CASE PtFirstBeacon(beacon + S + b)
        BY <2>1 DEF PtFirstBeacon
    <2>2. CASE settled' = settled
        BY <2>2 DEF CountsOK
    <2> QED
        BY <2>1, <2>2 DEF BeaconOnAir, PtLatch, PtResync, ptVars
<1>5. ptState' \in PtStates
    BY <1>3 DEF PtStates
<1>6. ftSlot' \in 1..Ops /\ ptSlot' \in 0..Ops
    BY <1>0, <1>1, <1>3 DEF CountsOK
<1>7. CountsOK'
    BY <1>1, <1>2, <1>4, <1>5, <1>6 DEF CountsOK
<1>8. SlotsAgree'
    BY <1>1, <1>3 DEF SlotsAgree
<1> QED
    BY <1>7, <1>8

LEMMA CountsDownlink ==
    ASSUME CountsOK, SlotsAgree, NEW a, NEW b, DownlinkOnAir(a, b)
    PROVE  CountsOK' /\ SlotsAgree'
<1>0. Ops \in Nat /\ Ops >= 1 /\ ftSlot \in 1..Ops /\ ptSlot \in 0..Ops
    BY ConstantFacts DEF CountsOK
<1>1. /\ next = "dl"
      /\ ftSlot = 1 => next' = "beacon" /\ ftSlot' = Ops
      /\ ftSlot # 1 => next' = "dl" /\ ftSlot' = ftSlot - 1 /\ ftSlot' \in 1..Ops
      /\ frames' = frames
    BY FtDownlinkFacts DEF DownlinkOnAir
<1>2. /\ settled' = settled
      /\ \/ ptState \in {"WAIT_FOR_BEACON", "WAIT_FOR_LATCH_BEACON"} /\ ptState' = ptState /\ ptSlot' = ptSlot
         \/ ptState = "SCHEDULED_DOWNLINK" /\ ptState' = "SCHEDULED_UPLINK" /\ ptSlot' = ptSlot - 1
         \/ ptState' = "WAIT_FOR_BEACON" /\ ptSlot' = ptSlot
    BY DEF DownlinkOnAir, PtDownlink, PtResync, ptVars
<1>3. ptState = "SCHEDULED_DOWNLINK" => ptSlot = ftSlot
    BY DEF SlotsAgree
<1>4. ftSlot' \in 1..Ops /\ next' \in {"beacon", "dl"}
    BY <1>0, <1>1
<1>5. ptSlot' \in 0..Ops
    BY <1>0, <1>2, <1>3
<1>6. ptState' \in PtStates
    BY <1>2 DEF PtStates
<1>7. CountsOK'
    BY <1>1, <1>2, <1>4, <1>5, <1>6 DEF CountsOK
<1>8. SlotsAgree'
    <2>1. CASE ptState' = "SCHEDULED_UPLINK"
        <3>1. ptSlot' = ftSlot - 1
            BY <1>2, <1>3, <2>1
        <3> QED
            BY <1>0, <1>1, <2>1, <3>1 DEF SlotsAgree
    <2>2. CASE ptState' # "SCHEDULED_UPLINK"
        <3>1. ptState' = "WAIT_FOR_BEACON" \/ (ptState' = "WAIT_FOR_LATCH_BEACON" /\ ptSlot' = Ops)
            BY <1>2, <2>2 DEF SlotsAgree
        <3> QED
            BY <1>1, <3>1 DEF SlotsAgree
    <2> QED
        BY <2>1, <2>2
<1> QED
    BY <1>7, <1>8

LEMMA CountsUplink ==
    ASSUME CountsOK, SlotsAgree, PtTxComplete
    PROVE  CountsOK' /\ SlotsAgree'
<1>0. Ops \in Nat /\ Ops >= 1 /\ ftSlot \in 1..Ops /\ ptSlot \in 0..Ops
    BY ConstantFacts DEF CountsOK
<1>1. UNCHANGED <<ftSlot, next, frames, settled>>
    BY DEF PtTxComplete, ftVars
<1>2. /\ ptState = "SCHEDULED_UPLINK"
      /\ ptSlot # 0 => ptState' = "SCHEDULED_DOWNLINK" /\ ptSlot' = ptSlot
      /\ ptSlot = 0 => ptState' = "WAIT_FOR_LATCH_BEACON" /\ ptSlot' = Ops
    BY DEF PtTxComplete
<1>3. CountsOK'
    <2>1. ptState' \in PtStates /\ ptSlot' \in 0..Ops
        BY <1>0, <1>2 DEF PtStates
    <2> QED
        BY <1>1, <2>1 DEF CountsOK
<1>4. SlotsAgree'
    <2>1. next = "beacon" => ptSlot = 0 /\ ftSlot = Ops
        BY <1>2 DEF SlotsAgree
    <2>2. next # "beacon" => ptSlot = ftSlot /\ next = "dl"
        BY <1>2 DEF SlotsAgree, CountsOK
    <2>3. CASE ptSlot # 0
        BY <1>1, <1>2, <2>1, <2>2, <2>3 DEF SlotsAgree
    <2>4. CASE ptSlot = 0
        BY <1>1, <1>2, <2>1, <2>4 DEF SlotsAgree
    <2> QED
        BY <2>3, <2>4
<1> QED
    BY <1>3, <1>4

LEMMA CountsNext == TypeOK /\ SlotsAgree /\ [Next]_vars => TypeOK' /\ SlotsAgree'
<1> SUFFICES ASSUME TimesOK, CountsOK, SlotsAgree, [Next]_vars PROVE TypeOK' /\ SlotsAgree'
    BY TypeSplit
<1>1. TimesOK'
    BY TimesNext
<1>2. CountsOK' /\ SlotsAgree'
    <2>1. CASE UNCHANGED vars
        BY <2>1 DEF vars, ftVars, ptVars, CountsOK, SlotsAgree
    <2> QED
        BY <2>1, CountsBeacon, CountsDownlink, CountsUplink, Steps
<1> QED
    BY <1>1, <1>2, TypeJoin

\* Every variable keeps its type; that ptSlot does rests on the next theorem:
\* the PT counts down only where the FT does.
THEOREM SlotTypes == Spec => []TypeOK
BY CountsInit, CountsNext, PTL DEF Spec

\* The PT counts the slots of a frame as the FT does, whenever it follows it,
\* whatever the delays: they turn to the next beacon together.
THEOREM SlotsCounted == Spec => []SlotsAgree
BY CountsInit, CountsNext, PTL DEF Spec

-----------------------------------------------------------------------------
(* The FT's own spacing.                                                   *)

LEMMA FtTimes ==
    ASSUME CountsOK, NEW t, FtTxComplete(t)
    PROVE  /\ lastUl' = ul /\ lastBeaconCplt' = lastBeaconCplt /\ beaconDelta' = beaconDelta
           /\ ftSlot = 1 =>
                 /\ beacon' = t + L + H + S + H + L
                 /\ dl' = beacon' + S + H + L + HalfH
                 /\ ul' = beacon' + S + H + L + S + H + L
                 /\ announced' = IF beaconDelta # 0 THEN beaconDelta ELSE GuessedPeriod
           /\ ftSlot # 1 =>
                 /\ dl' = t + L + H + S + L + HalfH
                 /\ ul' = t + L + H + S + L + S + H + L
                 /\ beacon' = beacon /\ announced' = announced
<1>1. Ops \in Nat /\ ftSlot \in 1..Ops
    BY ConstantFacts DEF CountsOK
<1>2. CASE FtNextSlot(t)
    <2>1. ftSlot # 1
        BY <1>1, <1>2 DEF FtNextSlot
    <2> QED
        BY <1>2, <2>1 DEF FtNextSlot, FtTxComplete
<1>3. CASE FtNextFrame(t)
    <2>1. ftSlot = 1
        BY <1>1, <1>3 DEF FtNextFrame
    <2> QED
        BY <1>3, <2>1 DEF FtNextFrame, FtTxComplete
<1> QED
    BY <1>2, <1>3 DEF FtTxComplete

LEMMA FtSpacedInit == Init => FtGrid /\ FtSpaced
<1> SUFFICES ASSUME Init PROVE FtGrid /\ FtSpaced
    OBVIOUS
<1>0. S \in Nat /\ HalfH \in Nat /\ L \in Nat /\ Base \in Int /\ H = HalfH + HalfH /\ Window = S + H
      /\ 0 <= Base
    <2>1. \A x \in Nat : 0 <= 1000 * x
        OBVIOUS
    <2> QED
        BY <2>1, ConstantFacts DEF Base
<1>1. /\ beacon = Base /\ dl = Base + S + H + L + HalfH /\ next = "beacon"
      /\ ul = Base + S + H + L + S + H + L /\ lastUl = 0 - Window - L
    BY DEF Init
<1>2. FtGrid
    BY <1>0, <1>1 DEF FtGrid
<1>3. FtSpaced
    BY <1>0, <1>1 DEF FtSpaced
<1> QED
    BY <1>2, <1>3

LEMMA FtSpacedDownlink ==
    ASSUME TimesOK, CountsOK, FtGrid, FtSpaced, NEW a \in Nat, FtTxComplete(dl + S + a),
           next = "dl"
    PROVE  FtGrid' /\ FtSpaced'
<1>0. /\ S \in Nat /\ HalfH \in Nat /\ L \in Nat /\ H = HalfH + HalfH /\ Window = S + H
      /\ dl \in Int /\ ul \in Int /\ ul = dl + S + HalfH + L
    BY ConstantFacts DEF TimesOK, FtGrid
<1>1. lastUl' = ul
    BY FtTimes
<1>2. CASE ftSlot = 1
    <2>1. next' = "beacon"
        BY <1>2, FtDownlinkFacts
    <2>2. /\ beacon' = (dl + S + a) + L + H + S + H + L
          /\ dl' = beacon' + S + H + L + HalfH
          /\ ul' = beacon' + S + H + L + S + H + L
        BY <1>2, FtTimes
    <2>3. beacon' \in Int /\ lastUl' + Window + L <= beacon'
        BY <1>0, <1>1, <2>2
    <2>4. beacon' + S + L <= dl' /\ dl' \in Int
        BY <1>0, <2>2, <2>3
    <2>5. ul' = dl' + S + HalfH + L /\ dl' + S + L <= ul'
        BY <1>0, <2>2, <2>3, <2>4
    <2> QED
        BY <2>1, <2>2, <2>3, <2>4, <2>5 DEF FtGrid, FtSpaced
<1>3. CASE ftSlot # 1
    <2>1. next' = "dl"
        BY <1>3, FtDownlinkFacts
    <2>2. /\ dl' = (dl + S + a) + L + H + S + L + HalfH
          /\ ul' = (dl + S + a) + L + H + S + L + S + H + L
        BY <1>3, FtTimes
    <2>3. dl' \in Int /\ lastUl' + Window + L <= dl'
        BY <1>0, <1>1, <2>2
    <2>4. ul' = dl' + S + HalfH + L /\ dl' + S + L <= ul'
        BY <1>0, <2>2, <2>3
    <2> QED
        BY <2>1, <2>3, <2>4 DEF FtGrid, FtSpaced
<1> QED
    BY <1>2, <1>3

LEMMA FtSpacedNext ==
    TypeOK /\ FtGrid /\ FtSpaced /\ [Next]_vars => FtGrid' /\ FtSpaced'
<1> SUFFICES ASSUME TimesOK, CountsOK, FtGrid, FtSpaced, [Next]_vars PROVE FtGrid' /\ FtSpaced'
    BY TypeSplit
<1>1. ASSUME NEW a \in FtDelays, NEW b \in PtDelays, BeaconOnAir(a, b) PROVE FtGrid' /\ FtSpaced'
    <2>1. /\ next = "beacon" /\ next' = "dl"
          /\ UNCHANGED <<beacon, dl, ul, lastUl>>
        BY <1>1 DEF BeaconOnAir, FtBeaconComplete
    <2>2. lastUl + Window + L <= dl
        <3>1. /\ S \in Nat /\ L \in Nat /\ Window \in Nat
              /\ lastUl \in Int /\ beacon \in Int /\ dl \in Int
            BY ConstantFacts DEF TimesOK
        <3>2. lastUl + Window + L <= beacon /\ beacon + S + L <= dl
            BY <2>1 DEF FtSpaced
        <3> QED
            BY <3>1, <3>2
    <2> QED
        BY <2>1, <2>2 DEF FtGrid, FtSpaced
<1>2. ASSUME NEW a \in FtDelays, NEW b \in PtDelays, DownlinkOnAir(a, b) PROVE FtGrid' /\ FtSpaced'
    <2>1. a \in Nat /\ FtTxComplete(dl + S + a) /\ next = "dl"
        BY <1>2, ConstantFacts DEF DownlinkOnAir
    <2> QED
        BY <2>1, FtSpacedDownlink
<1>3. CASE PtTxComplete
    BY <1>3 DEF PtTxComplete, ftVars, FtGrid, FtSpaced
<1>4. CASE UNCHANGED vars
    BY <1>4 DEF vars, ftVars, FtGrid, FtSpaced
<1> QED
    BY <1>1, <1>2, <1>3, <1>4, Steps

\* Between its windows, beacons and downlinks the FT always leaves the ticks
\* the modem needs, whatever the delays of the events.
THEOREM FtLeavesGaps == Spec => []FtSpaced
BY SlotTypes, FtSpacedInit, FtSpacedNext, PTL DEF Spec

-----------------------------------------------------------------------------
(* How long a frame is.                                                    *)

LEMMA TimesFacts ==
    \A n, x \in Int :
        /\ Times(n, x) \in Int /\ Times(0, x) = 0 /\ Times(n + 1, x) = Times(n, x) + x
        /\ n >= 0 /\ x >= 0 => Times(n, x) >= 0
<1>1. \A n, x \in Int : n * x \in Int /\ 0 * x = 0
    OBVIOUS
<1>2. \A n, x \in Int : (n + 1) * x = n * x + x
    OBVIOUS
<1>3. \A n, x \in Int : n >= 0 /\ x >= 0 => n * x >= 0
    OBVIOUS
<1> QED
    BY <1>1, <1>2, <1>3 DEF Times

\* The delays of the FT's events: all from m to m + j ticks.
Within(m, j) == \A a \in FtDelays : m <= a /\ a <= m + j

LEMMA LengthFacts ==
    ASSUME NEW m \in Nat, NEW j \in Nat
    PROVE  /\ SlotLength + m \in Nat /\ FirstDl \in Nat
           /\ Times(Ops - 1, SlotLength + m) \in Nat /\ Times(Ops - 1, j) \in Nat
           /\ Times(Ops, j) \in Nat /\ Times(Ops, j) = Times(Ops - 1, j) + j
           /\ FrameLength(m) \in Nat /\ H < FrameLength(m)
<1>1. S \in Nat /\ S >= 1 /\ HalfH \in Nat /\ L \in Nat /\ Ops \in Nat /\ Ops >= 1 /\ H \in Nat
    BY ConstantFacts
<1>2. SlotLength + m \in Nat /\ FirstDl \in Nat
    BY <1>1 DEF SlotLength, FirstDl
<1>3. Ops - 1 \in Int /\ Ops - 1 >= 0 /\ (Ops - 1) + 1 = Ops
    BY <1>1
<1>4. Times(Ops - 1, SlotLength + m) \in Nat
    <2>1. SlotLength + m \in Int /\ SlotLength + m >= 0
        BY <1>2
    <2>2. Times(Ops - 1, SlotLength + m) \in Int /\ Times(Ops - 1, SlotLength + m) >= 0
        BY <1>3, <2>1, TimesFacts
    <2> QED
        BY <2>2
<1>5. Times(Ops - 1, j) \in Nat
    <2>0. j \in Int /\ j >= 0
        OBVIOUS
    <2>1. Times(Ops - 1, j) \in Int /\ Times(Ops - 1, j) >= 0
        BY <1>3, <2>0, TimesFacts
    <2> QED
        BY <2>1
<1>6. Times((Ops - 1) + 1, j) = Times(Ops - 1, j) + j
    BY <1>3, TimesFacts
<1>7. Times(Ops, j) \in Nat /\ Times(Ops, j) = Times(Ops - 1, j) + j
    BY <1>3, <1>5, <1>6
<1>8. FrameLength(m) \in Nat /\ H < FrameLength(m)
    BY <1>1, <1>2, <1>4 DEF FrameLength
<1> QED
    BY <1>2, <1>4, <1>5, <1>7, <1>8

\* What Budget gives for one delay of a reception.
LEMMA BudgetFacts ==
    ASSUME NEW j \in Nat, Budget(j), NEW b \in PtDelays
    PROVE  /\ HalfH + Times(Ops, j) + j <= b /\ b + Times(Ops, j) + j <= H
           /\ j <= HalfH
           /\ \A a \in FtDelays : a <= b /\ b <= a + HalfH
<1>1. /\ \A a \in FtDelays : a <= b /\ b <= a + HalfH
      /\ HalfH + Drift(j) <= b /\ b <= H - Drift(j)
    BY DEF Budget
<1>2. Ops \in Int /\ j \in Int
    BY ConstantFacts
<1>3. Times(Ops + 1, j) = Times(Ops, j) + j
    BY <1>2, TimesFacts
<1>4. Drift(j) = Times(Ops, j) + j /\ Times(Ops, j) \in Nat
    BY <1>3, LengthFacts DEF Drift, Times
<1>5. HalfH \in Nat /\ H = HalfH + HalfH /\ b \in Nat
    BY ConstantFacts
<1>6. HalfH + Times(Ops, j) + j <= b /\ b + Times(Ops, j) + j <= H
    BY <1>1, <1>4, <1>5
<1>7. j <= HalfH
    BY <1>4, <1>5, <1>6
<1> QED
    BY <1>1, <1>6, <1>7

\* A frame from one beacon to the next.
LEMMA FrameBounds ==
    ASSUME TimesOK, CountsOK, NEW m \in Nat, NEW j \in Nat, Course(m, j),
           NEW a \in Nat, m <= a, a <= m + j, FtTxComplete(dl + S + a), next = "dl", ftSlot = 1
    PROVE  /\ beacon + FrameLength(m) <= beacon'
           /\ beacon' <= beacon + FrameLength(m) + Times(Ops, j)
           /\ beacon' \in Int
<1>0. /\ S \in Nat /\ L \in Nat /\ H \in Nat /\ FirstDl \in Nat /\ beacon \in Int /\ dl \in Int
      /\ Times(Ops - 1, SlotLength + m) \in Nat /\ Times(Ops - 1, j) \in Nat
      /\ Times(Ops, j) = Times(Ops - 1, j) + j
    BY ConstantFacts, LengthFacts DEF TimesOK
<1>1. beacon' = (dl + S + a) + L + H + S + H + L
    BY FtTimes
<1>2. /\ beacon + FirstDl + Times(Ops - 1, SlotLength + m) <= dl
      /\ dl <= beacon + FirstDl + Times(Ops - 1, SlotLength + m) + Times(Ops - 1, j)
    BY DEF Course
<1>3. FrameLength(m) = FirstDl + Times(Ops - 1, SlotLength + m) + (S + m + L + H + S + H + L)
    BY DEF FrameLength
<1> QED
    BY <1>0, <1>1, <1>2, <1>3

LEMMA CourseInit == \A m, j : Init => Course(m, j)
BY DEF Init, Course

LEMMA CourseBeacon ==
    ASSUME TimesOK, CountsOK, SlotsAgree, FtGrid, NEW m \in Nat, NEW j \in Nat, Course(m, j),
           NEW a \in Nat, m <= a, a <= m + j, FtBeaconComplete(beacon + S + a), next = "beacon"
    PROVE  Course(m, j)'
<1>0. /\ S \in Nat /\ FirstDl \in Nat /\ FrameLength(m) \in Nat /\ Times(Ops, j) \in Nat
      /\ beacon \in Int /\ lastBeaconCplt \in Int /\ frames \in Nat /\ Ops \in Nat
      /\ HalfH \in Nat /\ L \in Nat /\ H \in Nat
    BY ConstantFacts, LengthFacts DEF TimesOK, CountsOK
<1>1. /\ next' = "dl" /\ beaconDelta' = (beacon + S + a) - lastBeaconCplt
      /\ lastBeaconCplt' = beacon + S + a /\ frames' = frames + 1
      /\ UNCHANGED <<ftSlot, beacon, dl, announced>>
    BY DEF FtBeaconComplete
<1>2. ftSlot = Ops /\ dl = beacon + FirstDl
    <2>1. dl = beacon + S + H + L + HalfH
        BY DEF FtGrid
    <2> QED
        BY <1>0, <2>1 DEF SlotsAgree, FirstDl
<1>3. /\ frames' >= 1
      /\ beacon' + S + m <= lastBeaconCplt' /\ lastBeaconCplt' <= beacon' + S + m + j
    BY <1>0, <1>1
<1>4. Times(Ops - ftSlot', SlotLength + m) = 0 /\ Times(Ops - ftSlot', j) = 0
    <2>1. Ops - ftSlot' = 0 /\ SlotLength + m \in Int /\ j \in Int
        BY <1>0, <1>1, <1>2, LengthFacts
    <2> QED
        BY <2>1, TimesFacts
<1>5. /\ beacon' + FirstDl + Times(Ops - ftSlot', SlotLength + m) <= dl'
      /\ dl' <= beacon' + FirstDl + Times(Ops - ftSlot', SlotLength + m) + Times(Ops - ftSlot', j)
    BY <1>0, <1>1, <1>2, <1>4
<1>6. ASSUME frames' >= 2
      PROVE  /\ FrameLength(m) - j <= beaconDelta'
             /\ beaconDelta' <= FrameLength(m) + Times(Ops, j) + j
    <2>1. frames >= 1
        BY <1>0, <1>1, <1>6
    <2>2. /\ lastBeaconCplt + FrameLength(m) <= beacon + S + m + j
          /\ beacon + S + m <= lastBeaconCplt + FrameLength(m) + Times(Ops, j)
        BY <2>1 DEF Course
    <2> QED
        BY <1>0, <1>1, <2>2
<1> QED
    BY <1>1, <1>3, <1>5, <1>6 DEF Course

LEMMA CourseDownlink ==
    ASSUME TimesOK, CountsOK, NEW m \in Nat, NEW j \in Nat, j <= HalfH, Course(m, j),
           NEW a \in Nat, m <= a, a <= m + j, FtTxComplete(dl + S + a), next = "dl"
    PROVE  Course(m, j)'
<1>0. /\ S \in Nat /\ FirstDl \in Nat /\ FrameLength(m) \in Nat /\ Times(Ops, j) \in Nat
      /\ beacon \in Int /\ dl \in Int /\ lastBeaconCplt \in Int /\ beaconDelta \in Int
      /\ ftSlot \in 1..Ops /\ Ops \in Nat
      /\ HalfH \in Nat /\ L \in Nat /\ H \in Nat /\ H = HalfH + HalfH /\ H < FrameLength(m)
    BY ConstantFacts, LengthFacts DEF TimesOK, CountsOK
<1>c. /\ frames >= 1
      /\ beacon + S + m <= lastBeaconCplt /\ lastBeaconCplt <= beacon + S + m + j
      /\ beacon + FirstDl + Times(Ops - ftSlot, SlotLength + m) <= dl
      /\ dl <= beacon + FirstDl + Times(Ops - ftSlot, SlotLength + m) + Times(Ops - ftSlot, j)
      /\ frames >= 2 => /\ FrameLength(m) - j <= beaconDelta
                        /\ beaconDelta <= FrameLength(m) + Times(Ops, j) + j
    BY DEF Course
<1>1. UNCHANGED <<frames, lastBeaconCplt, beaconDelta>>
    BY FtTimes, FtDownlinkFacts
<1>2. CASE ftSlot = 1
    <2>1. next' = "beacon"
        BY <1>2, FtDownlinkFacts
    <2>2. /\ beacon + FrameLength(m) <= beacon'
          /\ beacon' <= beacon + FrameLength(m) + Times(Ops, j)
          /\ beacon' \in Int
        BY <1>2, FrameBounds
    <2>3. /\ lastBeaconCplt' + FrameLength(m) <= beacon' + S + m + j
          /\ beacon' + S + m <= lastBeaconCplt' + FrameLength(m) + Times(Ops, j)
        BY <1>0, <1>1, <1>c, <2>2
    <2>4. ASSUME frames' >= 2
          PROVE  /\ FrameLength(m) - j <= announced'
                 /\ announced' <= FrameLength(m) + Times(Ops, j) + j
        <3>1. /\ FrameLength(m) - j <= beaconDelta
              /\ beaconDelta <= FrameLength(m) + Times(Ops, j) + j
            BY <1>1, <1>c, <2>4
        <3>2. beaconDelta # 0
            BY <1>0, <3>1
        <3>3. announced' = beaconDelta
            BY <1>2, <3>2, FtTimes
        <3> QED
            BY <3>1, <3>3
    <2> QED
        BY <2>1, <2>3, <2>4 DEF Course
<1>3. CASE ftSlot # 1
    <2>1. next' = "dl" /\ ftSlot' = ftSlot - 1
        BY <1>3, FtDownlinkFacts
    <2>2. dl' = (dl + S + a) + L + H + S + L + HalfH /\ beacon' = beacon
        BY <1>3, FtTimes
    <2>3. dl' = dl + SlotLength + a /\ SlotLength \in Int
        BY <1>0, <2>2 DEF SlotLength
    <2>4. /\ Times(Ops - ftSlot', SlotLength + m) = Times(Ops - ftSlot, SlotLength + m) + (SlotLength + m)
          /\ Times(Ops - ftSlot', j) = Times(Ops - ftSlot, j) + j
          /\ Times(Ops - ftSlot, SlotLength + m) \in Int /\ Times(Ops - ftSlot, j) \in Int
        <3>1. Ops - ftSlot \in Int /\ Ops - ftSlot' = (Ops - ftSlot) + 1
            BY <1>0, <2>1
        <3>2. SlotLength + m \in Int /\ j \in Int
            BY LengthFacts
        <3> QED
            BY <3>1, <3>2, TimesFacts
    <2>5. /\ beacon' + FirstDl + Times(Ops - ftSlot', SlotLength + m) <= dl'
          /\ dl' <= beacon' + FirstDl + Times(Ops - ftSlot', SlotLength + m) + Times(Ops - ftSlot', j)
        BY <1>0, <1>c, <2>2, <2>3, <2>4
    <2> QED
        BY <1>1, <1>c, <2>1, <2>2, <2>5 DEF Course
<1> QED
    BY <1>2, <1>3

LEMMA CourseNext ==
    ASSUME NEW m \in Nat, NEW j \in Nat, Within(m, j), Budget(j),
           TypeOK, SlotsAgree, FtGrid, Course(m, j), [Next]_vars
    PROVE  Course(m, j)'
<1>0. TimesOK /\ CountsOK /\ FtDelays \subseteq Nat
    BY TypeSplit, ConstantFacts
<1>1. ASSUME NEW a \in FtDelays, NEW b \in PtDelays, BeaconOnAir(a, b) PROVE Course(m, j)'
    <2>1. a \in Nat /\ m <= a /\ a <= m + j
        BY <1>0 DEF Within
    <2>2. FtBeaconComplete(beacon + S + a) /\ next = "beacon"
        BY <1>1 DEF BeaconOnAir
    <2> QED
        BY <1>0, <2>1, <2>2, CourseBeacon
<1>2. ASSUME NEW a \in FtDelays, NEW b \in PtDelays, DownlinkOnAir(a, b) PROVE Course(m, j)'
    <2>1. a \in Nat /\ m <= a /\ a <= m + j
        BY <1>0 DEF Within
    <2>2. FtTxComplete(dl + S + a) /\ next = "dl"
        BY <1>2 DEF DownlinkOnAir
    <2>3. j <= HalfH
        BY BudgetFacts
    <2> QED
        BY <1>0, <2>1, <2>2, <2>3, CourseDownlink
<1>3. CASE PtTxComplete
    BY <1>3 DEF PtTxComplete, ftVars, Course
<1>4. CASE UNCHANGED vars
    BY <1>4 DEF vars, ftVars, Course
<1> QED
    BY <1>1, <1>2, <1>3, <1>4, Steps

-----------------------------------------------------------------------------
(* The devices meet.                                                       *)

\* The windows of a PT that follows are where the FT's next packets are; the
\* parts of Meeting by name.
Awaiting(m, j) ==
    /\ rx = latch + Window + L
    /\ beacon + FrameLength(m) + Times(Ops, j) <= latch + HalfH
    /\ latch <= beacon + FrameLength(m)
Facing == InWindow(dl, rx) /\ (next = "beacon" => InWindow(beacon, latch))
Sending ==
    /\ InWindow(lastTx, lastUl)
    /\ ptSlot # 0 => lastTx + S + L <= rx
    /\ ptSlot = 0 => lastTx + S + L <= latch /\ latch + Window + L <= rx

LEMMA MeetingSplit ==
    ASSUME NEW m, NEW j
    PROVE  Meeting(m, j) <=>
              (settled =>
                 /\ ptState = "WAIT_FOR_LATCH_BEACON" /\ next = "dl" => Awaiting(m, j)
                 /\ ptState = "WAIT_FOR_LATCH_BEACON" /\ next = "beacon" => Facing
                 /\ ptState = "SCHEDULED_DOWNLINK" => Facing
                 /\ ptState = "SCHEDULED_UPLINK" => Facing /\ Sending)
BY DEF Meeting, Awaiting, Facing, Sending

LEMMA MeetingJoin ==
    ASSUME NEW m, NEW j,
           settled' =>
              /\ ptState' = "WAIT_FOR_LATCH_BEACON" /\ next' = "dl" => Awaiting(m, j)'
              /\ ptState' = "WAIT_FOR_LATCH_BEACON" /\ next' = "beacon" => Facing'
              /\ ptState' = "SCHEDULED_DOWNLINK" => Facing'
              /\ ptState' = "SCHEDULED_UPLINK" => Facing' /\ Sending'
    PROVE  Meeting(m, j)'
BY DEF Meeting, Awaiting, Facing, Sending

LEMMA InWindowFacts ==
    ASSUME NEW p \in Int, NEW w \in Int
    PROVE  InWindow(p, w) <=> w <= p /\ p <= w + H
<1>1. S \in Nat /\ H \in Nat /\ Window = S + H
    BY ConstantFacts
<1> QED
    BY <1>1 DEF InWindow

LEMMA TxInit == Init => PtGrid
BY DEF Init, PtGrid

LEMMA TxNext == TypeOK /\ PtGrid /\ [Next]_vars => PtGrid'
<1> SUFFICES ASSUME TimesOK, PtGrid, [Next]_vars PROVE PtGrid'
    BY TypeSplit
<1>0. S \in Int /\ H \in Int /\ Window \in Int /\ Window = S + H /\ HalfH \in Int /\ L \in Int
    BY ConstantFacts
<1>1. ASSUME NEW m \in Int, PtFirstBeacon(m), rx' \in Int PROVE PtGrid'
    <2>1. tx' = rx' + S + H + L + HalfH
        BY <1>1 DEF PtFirstBeacon
    <2>2. tx' = rx' + Window + L + HalfH
        BY <1>0, <1>1, <2>1
    <2> QED
        BY <2>2 DEF PtGrid
<1>2. ASSUME NEW m \in Int, PtDownlink(m) PROVE PtGrid'
    BY <1>2 DEF PtDownlink, PtNextSlot, PtNextFrame, PtGrid
<1>3. ASSUME PtLatch PROVE PtGrid'
    BY <1>3 DEF PtLatch, PtGrid
<1>4. ASSUME PtResync PROVE PtGrid'
    BY <1>4 DEF PtResync, PtGrid
<1>5. ASSUME UNCHANGED ptVars PROVE PtGrid'
    BY <1>5 DEF ptVars, PtGrid
<1>6. rx' \in Int
    BY TimesNext DEF TimesOK
<1>7. ASSUME NEW a \in FtDelays, NEW b \in PtDelays
      PROVE  beacon + S + b \in Int /\ dl + S + b \in Int
    BY <1>0, ConstantFacts DEF TimesOK
<1>8. ASSUME NEW a \in FtDelays, NEW b \in PtDelays, BeaconOnAir(a, b) PROVE PtGrid'
    BY <1>1, <1>3, <1>4, <1>5, <1>6, <1>7, <1>8 DEF BeaconOnAir
<1>9. ASSUME NEW a \in FtDelays, NEW b \in PtDelays, DownlinkOnAir(a, b) PROVE PtGrid'
    BY <1>2, <1>4, <1>5, <1>7, <1>9 DEF DownlinkOnAir
<1>10. CASE PtTxComplete
    BY <1>10 DEF PtTxComplete, PtGrid
<1>11. CASE UNCHANGED vars
    BY <1>11 DEF vars, ptVars, PtGrid
<1> QED
    BY <1>8, <1>9, <1>10, <1>11, Steps

LEMMA MeetingInit == \A m, j : Init => Meeting(m, j)
BY DEF Init, Meeting

\* The first beacon: a whole frame is to come.
LEMMA MeetingFirst ==
    ASSUME TimesOK, NEW m \in Nat, NEW j \in Nat, Budget(j), Course(m, j), NEW b \in PtDelays,
           PtFirstBeacon(beacon + S + b), next = "beacon", frames >= 2, beacon' = beacon
    PROVE  Awaiting(m, j)'
<1>0. /\ S \in Nat /\ L \in Nat /\ H \in Nat /\ HalfH \in Nat /\ H = HalfH + HalfH /\ Window = S + H
      /\ beacon \in Int /\ announced \in Int /\ b \in Nat
      /\ FrameLength(m) \in Nat /\ Times(Ops, j) \in Nat
    BY ConstantFacts, LengthFacts DEF TimesOK
<1>1. /\ latch' = (beacon + S + b) + announced - (S + H)
      /\ rx' = latch' + S + H + L
    BY DEF PtFirstBeacon
<1>2. /\ FrameLength(m) - j <= announced
      /\ announced <= FrameLength(m) + Times(Ops, j) + j
    BY DEF Course
<1>3. HalfH + Times(Ops, j) + j <= b /\ b + Times(Ops, j) + j <= H
    BY BudgetFacts
<1>4. latch' = beacon + b + announced - H /\ latch' \in Int
    BY <1>0, <1>1
<1>5. rx' = latch' + Window + L
    BY <1>0, <1>1, <1>4
<1>6. latch' <= beacon + FrameLength(m)
    BY <1>0, <1>2, <1>3, <1>4
<1>7. beacon + FrameLength(m) + Times(Ops, j) <= latch' + HalfH
    BY <1>0, <1>2, <1>3, <1>4
<1>8. /\ rx' = latch' + Window + L
      /\ beacon' + FrameLength(m) + Times(Ops, j) <= latch' + HalfH
      /\ latch' <= beacon' + FrameLength(m)
    BY <1>5, <1>6, <1>7
<1> QED
    BY <1>8 DEF Awaiting

LEMMA MeetingBeacon ==
    ASSUME TimesOK, CountsOK, NEW m \in Nat, NEW j \in Nat, Budget(j), Course(m, j), Meeting(m, j),
           NEW a \in FtDelays, NEW b \in PtDelays, BeaconOnAir(a, b)
    PROVE  Meeting(m, j)'
<1>1. next = "beacon" /\ next' = "dl" /\ UNCHANGED <<beacon, dl>> /\ frames \in Nat
    BY DEF BeaconOnAir, FtBeaconComplete, CountsOK
<1>2. CASE PtFirstBeacon(beacon + S + b)
    <2>1. ptState' = "WAIT_FOR_LATCH_BEACON" /\ settled' = (frames >= 2)
        BY <1>2 DEF PtFirstBeacon
    <2>2. settled' => Awaiting(m, j)'
        BY <1>1, <1>2, <2>1, MeetingFirst
    <2> QED
        BY <1>1, <2>1, <2>2, MeetingJoin
<1>3. CASE ptState' = "WAIT_FOR_BEACON"
    BY <1>3, MeetingJoin
<1>4. CASE PtLatch
    <2>1. /\ ptState = "WAIT_FOR_LATCH_BEACON" /\ ptState' = "SCHEDULED_DOWNLINK"
          /\ UNCHANGED <<latch, rx, settled>>
        BY <1>4 DEF PtLatch
    <2>2. settled => Facing
        BY <1>1, <2>1, MeetingSplit
    <2>3. settled' => Facing'
        BY <1>1, <2>1, <2>2 DEF Facing, InWindow
    <2> QED
        BY <2>1, <2>3, MeetingJoin
<1>5. \/ PtFirstBeacon(beacon + S + b) \/ ptState' = "WAIT_FOR_BEACON" \/ PtLatch
    BY DEF BeaconOnAir, PtResync, ptVars
<1> QED
    BY <1>2, <1>3, <1>4, <1>5

\* The end of the frame that a PT waits for.
LEMMA MeetingEndOfFrame ==
    ASSUME TimesOK, CountsOK, NEW m \in Nat, NEW j \in Nat, Course(m, j), Awaiting(m, j),
           NEW a \in Nat, m <= a, a <= m + j, FtTxComplete(dl + S + a), next = "dl", ftSlot = 1,
           UNCHANGED <<latch, rx>>
    PROVE  Facing'
<1>0. /\ S \in Nat /\ L \in Nat /\ H \in Nat /\ HalfH \in Nat /\ H = HalfH + HalfH /\ Window = S + H
      /\ beacon \in Int /\ latch \in Int /\ rx \in Int
      /\ FrameLength(m) \in Nat /\ Times(Ops, j) \in Nat
    BY ConstantFacts, LengthFacts DEF TimesOK
<1>1. /\ beacon + FrameLength(m) <= beacon'
      /\ beacon' <= beacon + FrameLength(m) + Times(Ops, j)
      /\ beacon' \in Int
    BY FrameBounds
<1>2. dl' = beacon' + S + H + L + HalfH
    BY FtTimes
<1>3. /\ rx = latch + Window + L
      /\ beacon + FrameLength(m) + Times(Ops, j) <= latch + HalfH
      /\ latch <= beacon + FrameLength(m)
    BY DEF Awaiting
<1>4. latch <= beacon' /\ beacon' <= latch + HalfH
    BY <1>0, <1>1, <1>3
<1>5. beacon' <= latch + H
    BY <1>0, <1>1, <1>4
<1>6. InWindow(beacon', latch')
    BY <1>0, <1>1, <1>4, <1>5, InWindowFacts
<1>7. dl' \in Int /\ rx <= dl' /\ dl' <= rx + H
    <2>1. dl' \in Int
        BY <1>0, <1>1, <1>2
    <2>2. rx = latch + S + H + L
        BY <1>0, <1>3
    <2>3. dl' = (rx + HalfH) + (beacon' - latch)
        BY <1>0, <1>1, <1>2, <2>2
    <2>4. /\ beacon' - latch \in Int
          /\ 0 <= beacon' - latch
          /\ beacon' - latch <= HalfH
        <3>1. latch \in Int /\ beacon' \in Int /\ HalfH \in Int
            BY <1>0, <1>1
        <3>2. \A x, y, z \in Int : x <= y /\ y <= x + z => 0 <= y - x /\ y - x <= z /\ y - x \in Int
            OBVIOUS
        <3> QED
            BY <1>4, <3>1, <3>2
    <2> QED
        BY <1>0, <2>1, <2>3, <2>4
<1>8. InWindow(dl', rx')
    BY <1>0, <1>7, InWindowFacts
<1> QED
    BY <1>6, <1>8 DEF Facing, InWindow

\* A downlink heard: both schedule the next packets from it.
LEMMA MeetingHeard ==
    ASSUME TimesOK, CountsOK, SlotsAgree, FtGrid, PtGrid, NEW j \in Nat, Budget(j), Facing,
           NEW a \in FtDelays, NEW b \in PtDelays, FtTxComplete(dl + S + a), PtDownlink(dl + S + b),
           next = "dl"
    PROVE  Facing' /\ Sending'
<1>0. /\ S \in Nat /\ L \in Nat /\ H \in Nat /\ HalfH \in Nat /\ H = HalfH + HalfH /\ Window = S + H
      /\ dl \in Int /\ rx \in Int /\ tx \in Int /\ ul \in Int /\ a \in Nat /\ b \in Nat
      /\ ftSlot \in 1..Ops /\ Ops \in Nat
    BY ConstantFacts DEF TimesOK, CountsOK
<1>1. rx <= dl /\ dl <= rx + H
    BY <1>0, InWindowFacts DEF Facing
<1>2. a <= b /\ b <= a + HalfH /\ HalfH <= b
    <2>1. HalfH + Times(Ops, j) + j <= b /\ a <= b /\ b <= a + HalfH /\ Times(Ops, j) \in Nat
        BY BudgetFacts, LengthFacts
    <2> QED
        BY <1>0, <2>1
<1>3. /\ ptState = "SCHEDULED_DOWNLINK" /\ ptSlot = ftSlot /\ ptSlot' = ptSlot - 1
      /\ lastTx' = tx /\ lastUl' = ul
      /\ tx = rx + Window + L + HalfH /\ ul = dl + S + HalfH + L
    BY FtTimes DEF PtDownlink, SlotsAgree, PtGrid, FtGrid
<1>4. InWindow(lastTx', lastUl')
    <2>1. ul <= tx /\ tx <= ul + H
        BY <1>0, <1>1, <1>3
    <2> QED
        BY <1>0, <1>3, <2>1, InWindowFacts
<1>5. CASE ftSlot = 1
    <2>1. next' = "beacon" /\ ptSlot' = 0
        BY <1>0, <1>3, <1>5, FtDownlinkFacts
    <2>2. /\ beacon' = (dl + S + a) + L + H + S + H + L
          /\ dl' = beacon' + S + H + L + HalfH
        BY <1>5, FtTimes
    <2>3. /\ latch' = (dl + S + b) + L + Window + L
          /\ rx' = latch' + Window + L + H
        BY <2>1 DEF PtDownlink, PtNextSlot, PtNextFrame
    <2>4. beacon' \in Int /\ latch' \in Int
        BY <1>0, <2>2, <2>3
    <2>5. latch' <= beacon' /\ beacon' <= latch' + H
        BY <1>0, <1>2, <2>2, <2>3
    <2>6. dl' \in Int /\ rx' \in Int
        BY <1>0, <2>2, <2>3, <2>4
    <2>7. rx' <= dl' /\ dl' <= rx' + H
        <3>1. beacon' = latch' + H + a - b
            BY <1>0, <2>2, <2>3
        <3> QED
            BY <1>0, <1>2, <2>2, <2>3, <2>4, <3>1
    <2>8. Facing'
        <3>1. InWindow(beacon', latch') /\ InWindow(dl', rx')
            BY <2>4, <2>5, <2>6, <2>7, InWindowFacts
        <3> QED
            BY <3>1 DEF Facing, InWindow
    <2>9. lastTx' + S + L <= latch' /\ latch' + Window + L <= rx'
        <3>1. lastTx' + S + L <= latch'
            BY <1>0, <1>1, <1>2, <1>3, <2>3
        <3>2. latch' + Window + L <= rx'
            BY <1>0, <2>3, <2>4
        <3> QED
            BY <3>1, <3>2
    <2> QED
        BY <1>4, <2>1, <2>8, <2>9 DEF Sending, InWindow
<1>6. CASE ftSlot # 1
    <2>1. next' = "dl" /\ ptSlot' # 0
        BY <1>0, <1>3, <1>6, FtDownlinkFacts
    <2>2. dl' = (dl + S + a) + L + H + S + L + HalfH
        BY <1>6, FtTimes
    <2>3. rx' = (dl + S + b) + L + Window + L
        BY <2>1 DEF PtDownlink, PtNextSlot, PtNextFrame
    <2>4. dl' \in Int /\ rx' \in Int
        BY <1>0, <2>2, <2>3
    <2>5. rx' <= dl' /\ dl' <= rx' + H
        BY <1>0, <1>2, <2>2, <2>3
    <2>6. Facing'
        <3>1. InWindow(dl', rx')
            BY <2>4, <2>5, InWindowFacts
        <3> QED
            BY <2>1, <3>1 DEF Facing, InWindow
    <2>7. lastTx' + S + L <= rx'
        BY <1>0, <1>1, <1>2, <1>3, <2>3
    <2> QED
        BY <1>4, <2>1, <2>6, <2>7 DEF Sending, InWindow
<1> QED
    BY <1>5, <1>6

LEMMA MeetingDownlink ==
    ASSUME TimesOK, CountsOK, SlotsAgree, FtGrid, PtGrid,
           NEW m \in Nat, NEW j \in Nat, Within(m, j), Budget(j), Course(m, j), Meeting(m, j),
           NEW a \in FtDelays, NEW b \in PtDelays, DownlinkOnAir(a, b)
    PROVE  Meeting(m, j)'
<1>1. next = "dl" /\ FtTxComplete(dl + S + a) /\ next \in {"beacon", "dl"}
    BY DEF DownlinkOnAir
<1>2. CASE ptState' = "WAIT_FOR_BEACON"
    BY <1>2, MeetingJoin
<1>3. CASE ptState = "WAIT_FOR_LATCH_BEACON" /\ UNCHANGED ptVars
    <2>1. /\ ptState' = "WAIT_FOR_LATCH_BEACON"
          /\ UNCHANGED <<latch, rx, settled>>
        BY <1>3 DEF ptVars
    <2>2. settled => Awaiting(m, j)
        BY <1>1, <1>3, MeetingSplit
    <2>3. CASE ftSlot = 1
        <3>1. next' = "beacon"
            BY <1>1, <2>3, FtDownlinkFacts
        <3>2. a \in Nat /\ m <= a /\ a <= m + j
            BY ConstantFacts DEF Within
        <3>3. settled' => Facing'
            BY <1>1, <2>1, <2>2, <2>3, <3>2, MeetingEndOfFrame
        <3> QED
            BY <2>1, <3>1, <3>3, MeetingJoin
    <2>4. CASE ftSlot # 1
        <3>1. next' = "dl" /\ beacon' = beacon
            BY <1>1, <2>4, FtDownlinkFacts, FtTimes
        <3>2. settled' => Awaiting(m, j)'
            BY <2>1, <2>2, <3>1 DEF Awaiting
        <3> QED
            BY <2>1, <3>1, <3>2, MeetingJoin
    <2> QED
        BY <2>3, <2>4
<1>4. CASE PtDownlink(dl + S + b)
    <2>1. /\ ptState = "SCHEDULED_DOWNLINK" /\ ptState' = "SCHEDULED_UPLINK"
          /\ settled' = settled
        BY <1>4 DEF PtDownlink
    <2>2. settled => Facing
        BY <2>1, MeetingSplit
    <2>3. settled' => Facing' /\ Sending'
        BY <1>1, <1>4, <2>1, <2>2, MeetingHeard
    <2> QED
        BY <2>1, <2>3, MeetingJoin
<1>5. \/ ptState' = "WAIT_FOR_BEACON"
      \/ ptState = "WAIT_FOR_LATCH_BEACON" /\ UNCHANGED ptVars
      \/ PtDownlink(dl + S + b)
    BY DEF DownlinkOnAir, PtResync, ptVars
<1> QED
    BY <1>2, <1>3, <1>4, <1>5

LEMMA MeetingUplink ==
    ASSUME CountsOK, SlotsAgree, NEW m, NEW j, Meeting(m, j), PtTxComplete
    PROVE  Meeting(m, j)'
<1>1. /\ ptState = "SCHEDULED_UPLINK"
      /\ ptSlot # 0 => ptState' = "SCHEDULED_DOWNLINK"
      /\ ptSlot = 0 => ptState' = "WAIT_FOR_LATCH_BEACON"
      /\ UNCHANGED <<next, dl, beacon, latch, rx, settled>>
    BY DEF PtTxComplete, ftVars
<1>2. settled' => Facing'
    <2>1. settled => Facing
        BY <1>1, MeetingSplit
    <2> QED
        BY <1>1, <2>1 DEF Facing, InWindow
<1>3. ptSlot = 0 => next' = "beacon"
    <2>1. Ops \in Nat /\ ftSlot \in 1..Ops /\ next \in {"beacon", "dl"}
        BY ConstantFacts DEF CountsOK
    <2>2. next # "beacon" => ptSlot = ftSlot
        BY <1>1 DEF SlotsAgree
    <2> QED
        BY <1>1, <2>1, <2>2
<1> QED
    BY <1>1, <1>2, <1>3, MeetingJoin

LEMMA MeetingNext ==
    ASSUME NEW m \in Nat, NEW j \in Nat, Within(m, j), Budget(j),
           TypeOK, SlotsAgree, FtGrid, PtGrid, Course(m, j), Meeting(m, j), [Next]_vars
    PROVE  Meeting(m, j)'
<1>0. TimesOK /\ CountsOK
    BY TypeSplit
<1>1. ASSUME NEW a \in FtDelays, NEW b \in PtDelays, BeaconOnAir(a, b) PROVE Meeting(m, j)'
    BY <1>0, <1>1, MeetingBeacon
<1>2. ASSUME NEW a \in FtDelays, NEW b \in PtDelays, DownlinkOnAir(a, b) PROVE Meeting(m, j)'
    BY <1>0, <1>2, MeetingDownlink
<1>3. CASE PtTxComplete
    BY <1>0, <1>3, MeetingUplink
<1>4. CASE UNCHANGED vars
    BY <1>4 DEF vars, ftVars, ptVars, Meeting, InWindow
<1> QED
    BY <1>1, <1>2, <1>3, <1>4, Steps

\* The shortest delay of an event of the FT.
LEMMA ShortestDelay == \A j \in Nat : Budget(j) => \E m \in Nat : Within(m, j)
<1> SUFFICES ASSUME NEW j \in Nat, Budget(j) PROVE \E m \in Nat : Within(m, j)
    OBVIOUS
<1>1. CASE FtDelays = {}
    BY <1>1 DEF Within
<1>2. CASE FtDelays # {}
    <2>1. FtDelays \subseteq Nat
        BY ConstantFacts
    <2>2. PICK m \in FtDelays : \A a \in FtDelays : ~ (<<a, m>> \in OpToRel(<, Nat))
        BY <1>2, <2>1, NatLessThanWellFounded, WFMin
    <2>3. \A a \in FtDelays : m <= a
        <3>1. OpToRel(<, Nat) = {ss \in Nat \X Nat : ss[1] < ss[2]}
            BY Zenon DEF OpToRel
        <3>2. ASSUME NEW a \in FtDelays, a < m PROVE FALSE
            <4>1. <<a, m>> \in {ss \in Nat \X Nat : ss[1] < ss[2]}
                BY <2>1, <3>2
            <4>2. <<a, m>> \in OpToRel(<, Nat)
                BY <3>1, <4>1, Zenon
            <4> QED
                BY <2>2, <4>2, Zenon
        <3> QED
            BY <2>1, <3>2
    <2>4. \A a \in FtDelays : a <= m + j
        BY DEF Budget
    <2> QED
        BY <2>1, <2>3, <2>4 DEF Within
<1> QED
    BY <1>1, <1>2

Shortest(j) == CHOOSE m \in Nat : Within(m, j)

\* All of it together is inductive.
SyncInv(m, j) == TypeOK /\ SlotsAgree /\ FtGrid /\ FtSpaced /\ PtGrid /\ Course(m, j) /\ Meeting(m, j)

LEMMA SyncInvariant ==
    ASSUME NEW CONSTANT m \in Nat, NEW CONSTANT j \in Nat, Within(m, j), Budget(j)
    PROVE  /\ Init => SyncInv(m, j)
           /\ SyncInv(m, j) /\ [Next]_vars => SyncInv(m, j)'
<1>1. Init => SyncInv(m, j)
    BY CountsInit, FtSpacedInit, TxInit, CourseInit, MeetingInit DEF SyncInv
<1>2. SyncInv(m, j) /\ [Next]_vars => SyncInv(m, j)'
    <2> SUFFICES ASSUME SyncInv(m, j), [Next]_vars PROVE SyncInv(m, j)'
        OBVIOUS
    <2>1. TypeOK' /\ SlotsAgree'
        BY CountsNext DEF SyncInv
    <2>2. FtGrid' /\ FtSpaced'
        BY FtSpacedNext DEF SyncInv
    <2>3. PtGrid'
        BY TxNext DEF SyncInv
    <2>4. Course(m, j)'
        BY CourseNext DEF SyncInv
    <2>5. Meeting(m, j)'
        BY MeetingNext DEF SyncInv
    <2> QED
        BY <2>1, <2>2, <2>3, <2>4, <2>5 DEF SyncInv
<1> QED
    BY <1>1, <1>2

LEMMA SyncSpaced ==
    ASSUME NEW m \in Nat, NEW j \in Nat, SyncInv(m, j)
    PROVE  Spaced
<1>0. /\ HalfH \in Nat /\ L \in Nat /\ Window \in Nat /\ rx \in Int
    BY ConstantFacts, TypeSplit DEF TimesOK, SyncInv
<1>1. ASSUME settled, ptState \in {"SCHEDULED_DOWNLINK", "WAIT_FOR_LATCH_BEACON"}
      PROVE  rx + Window + L <= tx
    <2>1. tx = rx + Window + L + HalfH
        BY <1>1 DEF PtGrid, SyncInv
    <2> QED
        BY <1>0, <2>1
<1>2. ASSUME settled, ptState = "SCHEDULED_UPLINK" PROVE Sending
    BY <1>2, MeetingSplit DEF SyncInv
<1>3. PtSpaced
    BY <1>1, <1>2 DEF PtSpaced, Sending
<1> QED
    BY <1>3 DEF Spaced, SyncInv

LEMMA SyncAligned ==
    ASSUME NEW m \in Nat, NEW j \in Nat, SyncInv(m, j)
    PROVE  Aligned
<1>0. /\ S \in Nat /\ L \in Nat /\ H \in Nat /\ HalfH \in Nat /\ H = HalfH + HalfH /\ Window = S + H
      /\ dl \in Int /\ rx \in Int /\ tx \in Int /\ ul \in Int
    BY ConstantFacts, TypeSplit DEF TimesOK, SyncInv
<1>1. ASSUME settled, ptState = "SCHEDULED_DOWNLINK" PROVE InWindow(dl, rx) /\ InWindow(tx, ul)
    <2>1. InWindow(dl, rx)
        BY <1>1, MeetingSplit DEF SyncInv, Facing
    <2>2. tx = rx + Window + L + HalfH /\ ul = dl + S + HalfH + L
        BY <1>1 DEF PtGrid, FtGrid, SyncInv
    <2>3. rx <= dl /\ dl <= rx + H
        BY <1>0, <2>1, InWindowFacts
    <2>4. ul <= tx /\ tx <= ul + H
        BY <1>0, <2>2, <2>3
    <2> QED
        BY <1>0, <2>1, <2>4, InWindowFacts
<1>2. ASSUME settled, ptState = "SCHEDULED_UPLINK" PROVE InWindow(lastTx, lastUl)
    BY <1>2, MeetingSplit DEF SyncInv, Sending
<1>3. ASSUME settled, ptState = "WAIT_FOR_LATCH_BEACON", next = "beacon"
      PROVE  InWindow(beacon, latch)
    BY <1>3, MeetingSplit DEF SyncInv, Facing
<1> QED
    BY <1>1, <1>2, <1>3 DEF Aligned, DownlinkAligned, UplinkAligned, BeaconAligned

LEMMA SyncStays ==
    ASSUME NEW m \in Nat, NEW j \in Nat, SyncInv(m, j), [Next]_vars
    PROVE  settled /\ ptState # "WAIT_FOR_BEACON" => ptState' # "WAIT_FOR_BEACON"
<1> SUFFICES ASSUME settled, ptState # "WAIT_FOR_BEACON" PROVE ptState' # "WAIT_FOR_BEACON"
    OBVIOUS
<1>0. ptState \in PtStates
    BY DEF SyncInv, TypeOK
<1>1. ASSUME NEW a \in FtDelays, NEW b \in PtDelays, BeaconOnAir(a, b)
      PROVE  ptState' # "WAIT_FOR_BEACON"
    <2>1. ptState = "WAIT_FOR_LATCH_BEACON" /\ next = "beacon" => InWindow(beacon, latch)
        BY MeetingSplit DEF SyncInv, Facing
    <2> QED
        BY <1>1, <2>1 DEF BeaconOnAir, PtFirstBeacon, PtLatch
<1>2. ASSUME NEW a \in FtDelays, NEW b \in PtDelays, DownlinkOnAir(a, b)
      PROVE  ptState' # "WAIT_FOR_BEACON"
    <2>1. ptState = "SCHEDULED_DOWNLINK" => InWindow(dl, rx)
        BY MeetingSplit DEF SyncInv, Facing
    <2> QED
        BY <1>2, <2>1 DEF DownlinkOnAir, PtDownlink, ptVars
<1>3. CASE PtTxComplete
    BY <1>3 DEF PtTxComplete
<1>4. CASE UNCHANGED vars
    BY <1>4 DEF vars, ptVars
<1> QED
    BY <1>1, <1>2, <1>3, <1>4, Steps

\* Neither device schedules an operation that does not fit between the others
\* it has -- the FT ever, the PT once it was told a measured time for the next
\* beacon -- as long as the delays of their events stay in the budget.
THEOREM OperationsSpaced ==
    ASSUME NEW CONSTANT j \in Nat, Budget(j)
    PROVE  Spec => []Spaced
<1>1. Shortest(j) \in Nat /\ Within(Shortest(j), j)
    BY ShortestDelay DEF Shortest
<1> DEFINE I == SyncInv(Shortest(j), j)
<1>2. Init => I
    BY <1>1, SyncInvariant
<1>3. I /\ [Next]_vars => I'
    BY <1>1, SyncInvariant
<1>4. I => Spaced
    BY <1>1, SyncSpaced
<1> QED
    BY <1>2, <1>3, <1>4, PTL DEF Spec

\* Within the budget, every packet falls into the window the other device
\* opens for it.
THEOREM WindowsAligned ==
    ASSUME NEW CONSTANT j \in Nat, Budget(j)
    PROVE  Spec => []Aligned
<1>1. Shortest(j) \in Nat /\ Within(Shortest(j), j)
    BY ShortestDelay DEF Shortest
<1> DEFINE I == SyncInv(Shortest(j), j)
<1>2. Init => I
    BY <1>1, SyncInvariant
<1>3. I /\ [Next]_vars => I'
    BY <1>1, SyncInvariant
<1>4. I => Aligned
    BY <1>1, SyncAligned
<1> QED
    BY <1>2, <1>3, <1>4, PTL DEF Spec

\* Within the budget, a PT that has synchronised on a measured frame never
\* loses the FT.
THEOREM SyncKept ==
    ASSUME NEW CONSTANT j \in Nat, Budget(j)
    PROVE  Spec => StaysInSync
<1>1. Shortest(j) \in Nat /\ Within(Shortest(j), j)
    BY ShortestDelay DEF Shortest
<1> DEFINE I == SyncInv(Shortest(j), j)
<1>2. Init => I
    BY <1>1, SyncInvariant
<1>3. I /\ [Next]_vars => I'
    BY <1>1, SyncInvariant
<1>4. I /\ [Next]_vars
      => [settled /\ ptState # "WAIT_FOR_BEACON" => ptState' # "WAIT_FOR_BEACON"]_vars
    BY <1>1, SyncStays
<1> QED
    BY <1>2, <1>3, <1>4, PTL DEF Spec, StaysInSync
=============================================================================
