----------------------------- MODULE SlotTiming -----------------------------
(***************************************************************************)
(* When the two devices use the radio.  Neither has a common clock or a    *)
(* fixed grid: each schedules its next operations from the modem time of   *)
(* the event that ends the current one -- the FT in mock_complete of       *)
(* src/phy_impl/ft.c, the PT in mock_pdc and mock_complete of              *)
(* src/phy_impl/pt.c -- and the constants added there have to make the     *)
(* operations of one device fit between each other and into the receive    *)
(* windows of the other.                                                   *)
(*                                                                         *)
(* The radio loses nothing here (module PtLoop is about losses): what a    *)
(* receive window contains is received.  One step is one packet of the FT  *)
(* on the air with the two handlers it triggers, which share no state, so  *)
(* that their order does not matter.                                       *)
(***************************************************************************)
EXTENDS Integers

CONSTANTS
    S,              \* DECT_SLOT_DURATION_TICK
    HalfH,          \* DECT_HALF_HEADROOM
    L,              \* opTransitionLatency
    Ops,            \* DECT_OPS_PER_BEACON
    FtDelays,       \* ticks from the end of an FT transmission to the time
                    \* its completion event carries
    PtDelays,       \* the same for the packet a PT reception ends with
    MaxFrames       \* bound: beacons after which the model stops

H == HalfH + HalfH  \* DECT_HEADROOM
Window == S + H     \* genericRxDuration, dlRxDuration

ASSUME SlotTimingAssumption ==
    /\ S \in Nat \ {0} /\ HalfH \in Nat /\ L \in Nat
    /\ Ops \in Nat \ {0}
    /\ FtDelays \subseteq Nat /\ PtDelays \subseteq Nat
    /\ MaxFrames \in Nat

VARIABLES
    \* the FT
    ftSlot,         \* its slotCounter
    next,           \* the packet it sends next: "beacon" or "dl"
    beacon,         \* beaconSchedule
    dl,             \* dlSchedule
    ul,             \* ulSchedule
    lastUl,         \* the window of the slot before, still to come or open
    announced,      \* master_beacon.modem_ticks_until_next_beacon
    lastBeaconCplt,
    beaconDelta,
    frames,         \* beacons sent
    \* the PT
    ptState,        \* DectPtState_e
    ptSlot,         \* its slotCounter
    latch,          \* start of the BEACON_LATCH_RX_HANDLE window
    rx,             \* start of the downlink window
    tx,             \* start of the uplink transmission
    lastTx,         \* that of the slot before
    settled         \* history: the last first beacon announced a measured time

ftVars == <<ftSlot, next, beacon, dl, ul, lastUl, announced, lastBeaconCplt,
            beaconDelta, frames>>
ptVars == <<ptState, ptSlot, latch, rx, tx, lastTx, settled>>
vars == <<ftVars, ptVars>>

PtStates == {"WAIT_FOR_BEACON", "WAIT_FOR_LATCH_BEACON", "SCHEDULED_DOWNLINK",
             "SCHEDULED_UPLINK"}

\* What the first beacon announces, no beacon having completed (beaconDelta
\* is 0): a guess of the length of a frame.
GuessedPeriod == (2 * Ops) * (S + H + L)

\* mock_time_get with modem time 0: the first frame.
Base == 1000 * S
Init ==
    /\ ftSlot = Ops /\ next = "beacon"
    /\ beacon = Base
    /\ dl = Base + S + H + L + HalfH
    /\ ul = Base + S + H + L + S + H + L
    /\ lastUl = 0 - Window - L
    /\ announced = GuessedPeriod
    /\ lastBeaconCplt = 0 /\ beaconDelta = 0 /\ frames = 0
    /\ ptState = "WAIT_FOR_BEACON" /\ ptSlot = 0
    /\ latch = 0 /\ rx = 0 /\ tx = 0 /\ lastTx = 0 /\ settled = FALSE

-----------------------------------------------------------------------------
(* The FT: mock_complete with modem time t.                                *)

FtBeaconComplete(t) ==
    /\ next' = "dl"
    /\ beaconDelta' = t - lastBeaconCplt
    /\ lastBeaconCplt' = t
    /\ frames' = frames + 1
    /\ UNCHANGED <<ftSlot, beacon, dl, ul, lastUl, announced>>

\* The next downlink and the window after it; the window "ul" is open now.
FtNextSlot(t) ==
    /\ ftSlot' = ftSlot - 1
    /\ ftSlot' # 0
    /\ dl' = t + L + H + S + L + HalfH
    /\ ul' = t + L + H + S + L + S + H + L
    /\ UNCHANGED <<next, beacon, announced>>

\* Mutants: the counter is not reset; the downlink after a beacon has no
\* headroom before it.
FtNextFrameNoReset(t) ==
    /\ ftSlot - 1 = 0
    /\ ftSlot' = ftSlot - 1
    /\ next' = "beacon"
    /\ beacon' = t + L + H + S + H + L
    /\ dl' = beacon' + S + H + L + HalfH
    /\ ul' = beacon' + S + H + L + S + H + L
    /\ announced' = IF beaconDelta # 0 THEN beaconDelta ELSE GuessedPeriod

FtNextFrameNoHeadroom(t) ==
    /\ ftSlot - 1 = 0
    /\ ftSlot' = Ops
    /\ next' = "beacon"
    /\ beacon' = t + L + H + S + H + L
    /\ dl' = beacon' + S + H + L
    /\ ul' = beacon' + S + H + L + S + H + L
    /\ announced' = IF beaconDelta # 0 THEN beaconDelta ELSE GuessedPeriod

\* The last downlink of the frame: the next frame, beacon first.
FtNextFrame(t) ==
    /\ ftSlot - 1 = 0
    /\ ftSlot' = Ops
    /\ next' = "beacon"
    /\ beacon' = t + L + H + S + H + L
    /\ dl' = beacon' + S + H + L + HalfH
    /\ ul' = beacon' + S + H + L + S + H + L
    /\ announced' = IF beaconDelta # 0 THEN beaconDelta ELSE GuessedPeriod

FtTxComplete(t) ==
    /\ FtNextSlot(t) \/ FtNextFrame(t)
    /\ lastUl' = ul
    /\ UNCHANGED <<lastBeaconCplt, beaconDelta, frames>>

-----------------------------------------------------------------------------
(* The PT: mock_pdc with modem time m, and the completion of an uplink.    *)

\* A beacon out of the blue: one window for the next beacon, one for the
\* downlink after it and one uplink.
PtFirstBeacon(m) ==
    /\ ptState = "WAIT_FOR_BEACON"
    /\ ptState' = "WAIT_FOR_LATCH_BEACON"
    /\ ptSlot' = Ops
    /\ latch' = m + announced - (S + H)
    /\ rx' = latch' + S + H + L
    /\ tx' = rx' + S + H + L + HalfH
    /\ settled' = (frames >= 2)
    /\ UNCHANGED lastTx

PtLatch ==
    /\ ptState = "WAIT_FOR_LATCH_BEACON"
    /\ ptState' = "SCHEDULED_DOWNLINK"
    /\ UNCHANGED <<ptSlot, latch, rx, tx, lastTx, settled>>

\* Mutants: the window forgets the headroom of the one before, or leaves none
\* for the beacon's.
PtNextSlotTooSoon(m) ==
    /\ ptSlot' # 0
    /\ rx' = m + L + S + L
    /\ tx' = rx' + Window + L + HalfH
    /\ UNCHANGED latch

PtNextFrameNoHeadroom(m) ==
    /\ ptSlot' = 0
    /\ latch' = m + L + Window + L
    /\ rx' = latch' + Window + L
    /\ tx' = rx' + Window + L + HalfH

PtNextSlot(m) ==
    /\ ptSlot' # 0
    /\ rx' = m + L + Window + L
    /\ tx' = rx' + Window + L + HalfH
    /\ UNCHANGED latch

PtNextFrame(m) ==
    /\ ptSlot' = 0
    /\ latch' = m + L + Window + L
    /\ rx' = latch' + Window + L + H
    /\ tx' = rx' + Window + L + HalfH

PtDownlink(m) ==
    /\ ptState = "SCHEDULED_DOWNLINK"
    /\ ptState' = "SCHEDULED_UPLINK"
    /\ ptSlot' = ptSlot - 1
    /\ lastTx' = tx
    /\ PtNextSlot(m) \/ PtNextFrame(m)
    /\ UNCHANGED settled

\* Mutant: the counter is not reset at the end of the frame.
PtTxCompleteNoReset ==
    /\ ptState = "SCHEDULED_UPLINK"
    /\ ptState' = IF ptSlot # 0 THEN "SCHEDULED_DOWNLINK" ELSE "WAIT_FOR_LATCH_BEACON"
    /\ UNCHANGED <<ftVars, ptSlot, latch, rx, tx, lastTx, settled>>

\* The uplink "lastTx" is over (mock_complete).
PtTxComplete ==
    /\ ptState = "SCHEDULED_UPLINK"
    /\ IF ptSlot # 0
       THEN ptState' = "SCHEDULED_DOWNLINK" /\ UNCHANGED ptSlot
       ELSE ptState' = "WAIT_FOR_LATCH_BEACON" /\ ptSlot' = Ops
    /\ UNCHANGED <<ftVars, latch, rx, tx, lastTx, settled>>

\* A window without a packet, and the resynchronisation that follows.
PtResync ==
    /\ ptState' = "WAIT_FOR_BEACON"
    /\ UNCHANGED <<ptSlot, latch, rx, tx, lastTx, settled>>

-----------------------------------------------------------------------------
(* A packet on the air.                                                    *)

\* The packet that starts at p falls into the window that starts at w.
InWindow(p, w) == w <= p /\ p + S <= w + Window

\* A beacon.  The PT hears it in its window, or when it listens for any; it
\* may also not be listening yet.
BeaconOnAir(a, b) ==
    /\ next = "beacon"
    /\ ptState # "SCHEDULED_UPLINK"
    /\ frames < MaxFrames
    /\ FtBeaconComplete(beacon + S + a)
    /\ \/ PtFirstBeacon(beacon + S + b)
       \/ ptState = "WAIT_FOR_BEACON" /\ UNCHANGED ptVars
       \/ InWindow(beacon, latch) /\ PtLatch
       \/ /\ ptState = "WAIT_FOR_LATCH_BEACON" /\ ~InWindow(beacon, latch)
          /\ PtResync

\* A downlink.  A PT that waits for the next frame's beacon ignores it.
DownlinkOnAir(a, b) ==
    /\ next = "dl"
    /\ ptState # "SCHEDULED_UPLINK"
    /\ FtTxComplete(dl + S + a)
    /\ \/ ptState \in {"WAIT_FOR_BEACON", "WAIT_FOR_LATCH_BEACON"} /\ UNCHANGED ptVars
       \/ InWindow(dl, rx) /\ PtDownlink(dl + S + b)
       \/ /\ ptState = "SCHEDULED_DOWNLINK" /\ ~InWindow(dl, rx)
          /\ PtResync

Next ==
    \/ \E a \in FtDelays, b \in PtDelays : BeaconOnAir(a, b) \/ DownlinkOnAir(a, b)
    \/ PtTxComplete

Spec == Init /\ [][Next]_vars

-----------------------------------------------------------------------------
(* Correctness.                                                            *)

\* Every variable has its type.
TypeOK ==
    /\ ftSlot \in 1..Ops /\ next \in {"beacon", "dl"} /\ frames \in 0..MaxFrames
    /\ {beacon, dl, ul, lastUl, announced, lastBeaconCplt, beaconDelta} \subseteq Int
    /\ ptState \in PtStates /\ ptSlot \in 0..Ops
    /\ {latch, rx, tx, lastTx} \subseteq Int /\ settled \in BOOLEAN

\* The two devices count the slots of a frame alike, so that both take the
\* same slot for its last and turn to the beacon together.
SlotsAgree ==
    /\ ptState = "SCHEDULED_DOWNLINK" => next = "dl" /\ ptSlot = ftSlot
    /\ ptState = "SCHEDULED_UPLINK" =>
          IF next = "beacon" THEN ptSlot = 0 ELSE ptSlot = ftSlot
    /\ ptState = "WAIT_FOR_LATCH_BEACON" => ptSlot = Ops
    /\ next = "beacon" => ftSlot = Ops

\* What the delays of the events have to satisfy.  A frame's length varies by
\* what the delays of its events vary by, and the PT has only what the
\* previous beacons measured.
Drift(j) == (Ops + 1) * j
Budget(j) ==
    /\ \A a, c \in FtDelays : a <= c + j
    /\ \A a \in FtDelays, b \in PtDelays : a <= b /\ b <= a + HalfH
    /\ \A b \in PtDelays : HalfH + Drift(j) <= b /\ b <= H - Drift(j)

\* The modem needs L ticks between two scheduled operations.  The FT always
\* leaves them between its window, its beacon, its downlink and the next
\* window; so does the PT, once the time it was told for the next beacon is a
\* measured one: its uplink is over L ticks before its next window opens.
FtSpaced ==
    /\ next = "beacon" => lastUl + Window + L <= beacon /\ beacon + S + L <= dl
    /\ next = "dl" => lastUl + Window + L <= dl
    /\ dl + S + L <= ul

PtSpaced ==
    settled =>
        /\ ptState \in {"SCHEDULED_DOWNLINK", "WAIT_FOR_LATCH_BEACON"} => rx + Window + L <= tx
        /\ ptState = "SCHEDULED_UPLINK" =>
              /\ ptSlot # 0 => lastTx + S + L <= rx
              /\ ptSlot = 0 => lastTx + S + L <= latch /\ latch + Window + L <= rx

Spaced == FtSpaced /\ PtSpaced

\* The devices meet in each other's windows.  The next downlink falls into the
\* window of a PT that has latched; whatever the PT sends, it sends into the
\* FT's window of the same slot; and the beacon falls into the window opened
\* for it, at the end of every frame and after the first beacon, where a
\* whole frame lies between the announcement and the beacon.
DownlinkAligned ==
    ptState = "SCHEDULED_DOWNLINK" => InWindow(dl, rx)

UplinkAligned ==
    /\ ptState = "SCHEDULED_DOWNLINK" => InWindow(tx, ul)
    /\ ptState = "SCHEDULED_UPLINK" => InWindow(lastTx, lastUl)

BeaconAligned ==
    ptState = "WAIT_FOR_LATCH_BEACON" /\ next = "beacon" => InWindow(beacon, latch)

Aligned == settled => DownlinkAligned /\ UplinkAligned /\ BeaconAligned

\* A PT that has synchronised on a measured frame length stays synchronised.
StaysInSync == [][settled /\ ptState # "WAIT_FOR_BEACON" => ptState' # "WAIT_FOR_BEACON"]_vars
=============================================================================
