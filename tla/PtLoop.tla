------------------------------- MODULE PtLoop -------------------------------
(***************************************************************************)
(* How the PT finds the FT, follows it and finds it again after a loss:    *)
(* the event handlers of src/phy_impl/pt.c, which run when the modem says  *)
(* so, against the main thread in Pt_InfiniteLoop.  They share ptState,    *)
(* slotCounter, warmedUp and four binary semaphores.                       *)
(*                                                                         *)
(* The modem (external) executes the operations scheduled on it in order   *)
(* and reports what a reception hears, the end of every operation, a       *)
(* cancellation and the time.  Module SlotTiming is about the times; here  *)
(* an operation is its handle and its place in the order.                  *)
(***************************************************************************)
EXTENDS Integers, Sequences, SequencesExt

CONSTANTS
    SlotsPerFrame,  \* ops_per_beacon, as the FT's beacon announces it
    CounterRange,   \* values of slotCounter (2^32 in the code)
    MaxOps,         \* bound: operations the modem has at a time ...
    MaxFaultyOps,   \* ... and one that has faults
    FaultSets       \* the modems considered, each by the faults it has

FaultKinds == {
    "schedule",         \* DectPhy_Receive or DectPhy_Transmit returns an error
    "early_error"}      \* an operation fails before its turn has come

ASSUME PtLoopAssumption ==
    /\ SlotsPerFrame \in Nat \ {0}
    /\ CounterRange \in Nat /\ SlotsPerFrame < CounterRange
    /\ MaxOps \in Nat /\ MaxFaultyOps \in 0..MaxOps
    /\ FaultSets \subseteq SUBSET FaultKinds

VARIABLES
    \* shared by the main thread and the handlers
    ptState,        \* DectPtState_e
    slotCounter,    \* operations left in this frame
    warmedUp,
    time_sem, resync_sem, cancel_sem,   \* semaphores: their counts, 0 or 1
    \* the main thread
    pc,             \* where it is, named for what comes next
    \* the modem
    ops,            \* the operations it has, in the order it executes them
    cancelling,     \* TRUE from nrf_modem_dect_phy_cancel to its event
    timeAsked,      \* TRUE from nrf_modem_dect_phy_time_get to its event
    faults,         \* what may go wrong with it; never changes
    \* history
    timedOut        \* "WAIT FOR BEACON TIMED OUT" since LoopState

sems == <<time_sem, resync_sem, cancel_sem>>
vars == <<ptState, slotCounter, warmedUp, sems, pc, ops, cancelling, timeAsked, faults,
          timedOut>>

States == {"IDLE", "WAIT_FOR_BEACON", "WAIT_FOR_LATCH_BEACON",
           "SCHEDULED_DOWNLINK", "SCHEDULED_UPLINK"}
PCs == {"main", "top", "state", "listen", "resync", "cancel", "cancelled",
        "cold", "sleep"}

\* BEACON_RX_HANDLE, BEACON_LATCH_RX_HANDLE, and the ranges that start at
\* PT_RX_HANDLE and PT_TX_HANDLE.
Handles == {"BEACON_RX", "BEACON_LATCH_RX", "PT_RX", "PT_TX"}

\* The macros of phy_main.h: the latch handle is of neither kind.
IS_RX_HANDLE(h) == h \in {"BEACON_RX", "PT_RX"}
IS_TX_HANDLE(h) == h = "PT_TX"

\* heard: its packet has been reported.  doomed: it is being cancelled.
Op == [handle : Handles, heard : BOOLEAN, doomed : BOOLEAN]
NewOp(h) == [handle |-> h, heard |-> FALSE, doomed |-> FALSE]

Init ==
    /\ ptState = "IDLE" /\ slotCounter = 0 /\ warmedUp = FALSE
    /\ time_sem = 0 /\ resync_sem = 0 /\ cancel_sem = 0
    /\ pc = "main"
    /\ ops = <<>> /\ cancelling = FALSE
    /\ timeAsked = TRUE     \* DectPhy_Main has asked
    /\ faults \in FaultSets /\ timedOut = FALSE

-----------------------------------------------------------------------------
(* Scheduling.                                                             *)

\* The calls of a handler, each for an operation: the modem takes those in
\* "taken".
Accepts(calls) == {taken \in SUBSET calls : taken # calls => "schedule" \in faults}

Taken(h, taken) == IF h \in taken THEN <<NewOp(h)>> ELSE <<>>

\* A slot, and the last one of a frame with the beacon before the next.
SlotCalls == {"PT_RX", "PT_TX"}
FrameCalls == {"BEACON_LATCH_RX"} \union SlotCalls

\* The handlers make these calls in this order, and the last of them is for
\* the uplink; the operations go behind those of "q".
Scheduled(q, taken) ==
    q \o Taken("BEACON_LATCH_RX", taken) \o Taken("PT_RX", taken) \o Taken("PT_TX", taken)

HasRoom == Len(ops') <= IF faults = {} THEN MaxOps ELSE MaxFaultyOps

Schedule(q, taken) ==
    /\ ops' = Scheduled(q, taken)
    /\ HasRoom

\* DectPhy_Receive(BEACON_RX_HANDLE, ..., 0): at once, that is before the
\* operations that wait for their time; "q" is the one under way, if any.
ListenNow(q, waiting) ==
    \E taken \in Accepts({"BEACON_RX"}) :
        /\ ops' = q \o Taken("BEACON_RX", taken) \o waiting
        /\ HasRoom

-----------------------------------------------------------------------------
(* mock_pdc: the reception at the head of ops has heard a packet.          *)

Heard == [ops EXCEPT ![1].heard = TRUE]

\* Mutant: the state is advanced whatever the result.
ScheduleFromRegardless(calls, next) ==
    \E taken \in Accepts(calls) :
        /\ Schedule(Heard, taken)
        /\ ptState' = next
        /\ resync_sem' = IF "PT_TX" \in taken THEN resync_sem ELSE 1

\* "err" holds the result of the last of the calls only.
ScheduleFrom(calls, next) ==
    \E taken \in Accepts(calls) :
        /\ Schedule(Heard, taken)
        /\ IF "PT_TX" \in taken
           THEN ptState' = next /\ UNCHANGED resync_sem
           ELSE resync_sem' = 1 /\ UNCHANGED ptState

FirstBeacon ==
    /\ ptState = "WAIT_FOR_BEACON"
    /\ slotCounter' = SlotsPerFrame
    /\ ScheduleFrom(FrameCalls, "WAIT_FOR_LATCH_BEACON")

\* Mutant: the PT does not listen again.
NotABeaconDropped ==
    /\ ptState = "WAIT_FOR_BEACON"
    /\ ops' = Heard
    /\ UNCHANGED <<ptState, slotCounter, resync_sem>>

NotABeacon ==
    /\ ptState = "WAIT_FOR_BEACON"
    /\ ListenNow(<<Head(Heard)>>, Tail(Heard))
    /\ UNCHANGED <<ptState, slotCounter, resync_sem>>

LatchBeacon ==
    /\ ptState = "WAIT_FOR_LATCH_BEACON"
    /\ ptState' = "SCHEDULED_DOWNLINK"
    /\ ops' = Heard
    /\ UNCHANGED <<slotCounter, resync_sem>>

LatchNotABeacon ==
    /\ ptState = "WAIT_FOR_LATCH_BEACON"
    /\ ListenNow(<<Head(Heard)>>, Tail(Heard))
    /\ ptState' = "WAIT_FOR_BEACON"
    /\ UNCHANGED <<slotCounter, resync_sem>>

\* Mutant: slotCounter is signed.
DownlinkSigned ==
    /\ ptState = "SCHEDULED_DOWNLINK"
    /\ slotCounter' = slotCounter - 1
    /\ ScheduleFrom(IF slotCounter' # 0 THEN SlotCalls ELSE FrameCalls, "SCHEDULED_UPLINK")

Downlink ==
    /\ ptState = "SCHEDULED_DOWNLINK"
    /\ slotCounter' = (slotCounter - 1) % CounterRange
    /\ ScheduleFrom(IF slotCounter' # 0 THEN SlotCalls ELSE FrameCalls, "SCHEDULED_UPLINK")

\* In the other states a packet is ignored.
PacketIgnored ==
    /\ ptState \in {"IDLE", "SCHEDULED_UPLINK"}
    /\ ops' = Heard
    /\ UNCHANGED <<ptState, slotCounter, resync_sem>>

Pdc ==
    /\ ops # <<>>
    /\ Head(ops).handle # "PT_TX" /\ ~Head(ops).heard
    /\ \/ FirstBeacon \/ LatchBeacon        \* a beacon
       \/ NotABeacon \/ LatchNotABeacon     \* something else
       \/ Downlink \/ PacketIgnored         \* anything
    /\ UNCHANGED <<warmedUp, time_sem, cancel_sem, pc, cancelling, timeAsked, faults, timedOut>>

-----------------------------------------------------------------------------
(* mock_complete: an operation is over, well or not.                       *)

\* Mutant: slotCounter is not set again.
UplinkDoneNoReset(h) ==
    /\ ptState = "SCHEDULED_UPLINK" /\ IS_TX_HANDLE(h)
    /\ ptState' = IF slotCounter # 0 THEN "SCHEDULED_DOWNLINK" ELSE "WAIT_FOR_LATCH_BEACON"
    /\ UNCHANGED <<slotCounter, resync_sem>>

\* The last one of the frame counts the slots of the next.
UplinkDone(h) ==
    /\ ptState = "SCHEDULED_UPLINK" /\ IS_TX_HANDLE(h)
    /\ IF slotCounter # 0
       THEN ptState' = "SCHEDULED_DOWNLINK" /\ UNCHANGED slotCounter
       ELSE ptState' = "WAIT_FOR_LATCH_BEACON" /\ slotCounter' = SlotsPerFrame
    /\ UNCHANGED resync_sem

LatchMissed(h) == ptState = "WAIT_FOR_LATCH_BEACON" /\ h = "BEACON_LATCH_RX"
DownlinkMissed(h) == ptState = "SCHEDULED_DOWNLINK" /\ IS_RX_HANDLE(h)

\* A reception for a beacon that has heard nothing for 0xffffffff ticks, which
\* are 62 seconds.
TimedOut(op) ==
    op.handle = "BEACON_RX" /\ ~op.heard /\ ~op.doomed /\ ptState = "WAIT_FOR_BEACON"

\* ... which includes the end of a BEACON_RX in state WAIT_FOR_BEACON: it is
\* only logged.
NothingToDo(h) ==
    /\ ~LatchMissed(h) /\ ~DownlinkMissed(h)
    /\ ~(ptState = "SCHEDULED_UPLINK" /\ IS_TX_HANDLE(h))
    /\ UNCHANGED <<ptState, slotCounter, resync_sem>>

\* The i-th operation is over: each ends by itself, also a reception for a
\* beacon, and the others need not wait for one of those.
MayEnd(i) ==
    \/ i = 1
    \/ ops[i].doomed
    \/ \A j \in 1..i - 1 : ops[j].handle = "BEACON_RX" /\ ~ops[j].heard
    \/ "early_error" \in faults

Complete(i) ==
    LET h == ops[i].handle
        rest == RemoveAt(ops, i)
    IN  /\ MayEnd(i)
        /\ \/ /\ UplinkDone(h) \/ NothingToDo(h)
              /\ ops' = rest
           \/ /\ LatchMissed(h)
              /\ ListenNow(<<>>, rest)
              /\ resync_sem' = 1
              /\ UNCHANGED <<ptState, slotCounter>>
           \/ /\ DownlinkMissed(h)
              /\ resync_sem' = 1
              /\ ops' = rest
              /\ UNCHANGED <<ptState, slotCounter>>
        /\ timedOut' = (timedOut \/ TimedOut(ops[i]))
        /\ UNCHANGED <<warmedUp, time_sem, cancel_sem, pc, cancelling, timeAsked, faults>>

Completed == \E i \in 1..Len(ops) : Complete(i)

\* on_cancel, once the operations cancelled are over.
on_cancel ==
    /\ cancelling /\ \A i \in 1..Len(ops) : ~ops[i].doomed
    /\ cancelling' = FALSE
    /\ cancel_sem' = 1
    /\ UNCHANGED <<ptState, slotCounter, warmedUp, time_sem, resync_sem, pc, ops, timeAsked, faults, timedOut>>

on_time_get_pt ==
    /\ timeAsked
    /\ timeAsked' = FALSE
    /\ warmedUp' = TRUE
    /\ time_sem' = 1
    /\ UNCHANGED <<ptState, slotCounter, resync_sem, cancel_sem, pc, ops, cancelling, faults, timedOut>>

Modem == Pdc \/ Completed \/ on_cancel \/ on_time_get_pt

-----------------------------------------------------------------------------
(* The main thread: the end of DectPhy_Main and Pt_InfiniteLoop.           *)

Goto(here, there) == pc = here /\ pc' = there

\* DectPhy_Main waits for the first time event.
MainTime ==
    /\ Goto("main", "top")
    /\ time_sem = 1 /\ time_sem' = 0
    /\ UNCHANGED <<ptState, slotCounter, warmedUp, resync_sem, cancel_sem, ops, cancelling, timeAsked, faults, timedOut>>

LoopTime ==
    /\ Goto("top", "state")
    /\ IF warmedUp THEN UNCHANGED time_sem ELSE time_sem = 1 /\ time_sem' = 0
    /\ UNCHANGED <<ptState, slotCounter, warmedUp, resync_sem, cancel_sem, ops, cancelling, timeAsked, faults, timedOut>>

\* Mutant: the loop leaves the state alone.
LoopStateKept ==
    /\ Goto("state", "listen")
    /\ UNCHANGED <<ptState, slotCounter, warmedUp, sems, ops, cancelling, timeAsked, faults, timedOut>>

LoopState ==
    /\ Goto("state", "listen")
    /\ ptState' = "WAIT_FOR_BEACON" /\ timedOut' = FALSE
    /\ UNCHANGED <<slotCounter, warmedUp, sems, ops, cancelling, timeAsked, faults>>

\* The result of this DectPhy_Receive is ignored too.
LoopListen ==
    /\ Goto("listen", "resync")
    /\ \E n \in 0..Len(ops) : n <= 1 /\ ListenNow(SubSeq(ops, 1, n), SubSeq(ops, n + 1, Len(ops)))
    /\ UNCHANGED <<ptState, slotCounter, warmedUp, sems, cancelling, timeAsked, faults, timedOut>>

LoopResync ==
    /\ Goto("resync", "cancel")
    /\ resync_sem = 1 /\ resync_sem' = 0
    /\ UNCHANGED <<ptState, slotCounter, warmedUp, time_sem, cancel_sem, ops, cancelling, timeAsked, faults, timedOut>>

LoopCancel ==
    /\ Goto("cancel", "cancelled")
    /\ cancelling' = TRUE
    /\ ops' = [i \in 1..Len(ops) |-> [ops[i] EXCEPT !.doomed = TRUE]]
    /\ UNCHANGED <<ptState, slotCounter, warmedUp, sems, timeAsked, faults, timedOut>>

\* Mutant: the loop does not wait for the cancellation to end.
LoopCancelledNoWait ==
    /\ Goto("cancelled", "cold")
    /\ UNCHANGED <<ptState, slotCounter, warmedUp, sems, ops, cancelling, timeAsked, faults, timedOut>>

LoopCancelled ==
    /\ Goto("cancelled", "cold")
    /\ cancel_sem = 1 /\ cancel_sem' = 0
    /\ UNCHANGED <<ptState, slotCounter, warmedUp, time_sem, resync_sem, ops, cancelling, timeAsked, faults, timedOut>>

LoopCold ==
    /\ Goto("cold", "sleep")
    /\ warmedUp' = FALSE
    /\ timeAsked' = TRUE
    /\ UNCHANGED <<ptState, slotCounter, sems, ops, cancelling, faults, timedOut>>

LoopSleep ==
    /\ Goto("sleep", "top")
    /\ UNCHANGED <<ptState, slotCounter, warmedUp, sems, ops, cancelling, timeAsked, faults, timedOut>>

Loop ==
    \/ MainTime \/ LoopTime \/ LoopState \/ LoopListen \/ LoopResync
    \/ LoopCancel \/ LoopCancelled \/ LoopCold \/ LoopSleep

Next == Modem \/ Loop

Spec == Init /\ [][Next]_vars

\* The main thread runs when it can, and the modem ends what it has begun and
\* answers what it is asked.  Whether it hears anything is up to the radio.
FairSpec ==
    /\ Spec
    /\ WF_vars(Loop)
    /\ WF_vars(Completed)
    /\ WF_vars(on_cancel)
    /\ WF_vars(on_time_get_pt)

-----------------------------------------------------------------------------
(* Correctness.                                                            *)

\* Every variable has its type.
TypeOK ==
    /\ ptState \in States /\ slotCounter \in 0..CounterRange - 1
    /\ {warmedUp, cancelling, timeAsked, timedOut} \subseteq BOOLEAN
    /\ {time_sem, resync_sem, cancel_sem} \subseteq 0..1
    /\ pc \in PCs
    /\ ops \in Seq(Op) /\ Len(ops) <= MaxOps

\* A modem that refuses no operation never makes the unsigned slotCounter wrap
\* around: it counts at most the slots of a frame, and is not 0 when a downlink
\* is about to count it down.  After a refusal it does wrap around (line 115).
CounterInv ==
    "schedule" \notin faults =>
        /\ slotCounter \in 0..SlotsPerFrame
        /\ ptState = "SCHEDULED_DOWNLINK" => slotCounter # 0

\* A PT that waits for the end of its uplink has one to wait for.
UplinkPending ==
    ptState = "SCHEDULED_UPLINK" => \E i \in 1..Len(ops) : ops[i].handle = "PT_TX"

\* The token of cancel_sem is that of the cancellation the loop waits for,
\* never one of an earlier cancellation.
CancelHandshake ==
    /\ cancelling \/ cancel_sem = 1 <=> pc = "cancelled"
    /\ ~(cancelling /\ cancel_sem = 1)

\* "spin here forever unless an error happens": a PT that spins at the
\* semaphore, with nothing to make it resynchronise and before the reception it
\* listens with has timed out, has a reception before it.  A fault of the modem
\* may leave it none: one that is refused, or ends when nobody waits for it.
NeverDeaf ==
    faults = {} /\ ~timedOut /\ pc = "resync" /\ resync_sem = 0 =>
        \E i \in 1..Len(ops) : ops[i].handle # "PT_TX" /\ ~ops[i].heard

\* The PT waits for a beacon and nothing makes it resynchronise; it listens, or
\* its time to listen is over.
Waiting == ptState = "WAIT_FOR_BEACON" /\ pc = "resync" /\ resync_sem = 0
Settled ==
    Waiting /\ \E i \in 1..Len(ops) :
        ops[i].handle = "BEACON_RX" /\ ~ops[i].heard /\ ~ops[i].doomed
Deaf == Waiting /\ timedOut

\* When the FT falls silent, a PT comes to listen for its beacon and listens
\* until the time of that reception is over, whereupon it is deaf for good: the
\* tokens that operations give while they are cancelled do not keep it
\* resynchronising.  The faults of the modem are excluded: a reception that it
\* refuses leaves the PT deaf without listening at all.
SettlesInSilence ==
    <>[][~Pdc]_vars => faults # {} \/ (<>(Settled /\ [](Settled \/ Deaf)) /\ <>[]Deaf)
=============================================================================
