---------------------------- MODULE FrameSchedule ----------------------------
(***************************************************************************)
(* What the FT promises to put on the radio, whatever it hears: one frame  *)
(* after the other, each a beacon and then, for every slot of the frame, a *)
(* downlink and the window for the uplink that answers it.  Slots count    *)
(* down to 1.                                                              *)
(***************************************************************************)
EXTENDS Naturals

CONSTANT Ops        \* slots in a frame

VARIABLE onAir      \* what the radio did last

Beacon == [kind |-> "BEACON_TX", slot |-> 0]
Dl(s) == [kind |-> "FT_TX", slot |-> s]
Ul(s) == [kind |-> "FT_RX", slot |-> s]

\* Before the first frame, the radio is as after the last slot of a frame.
ScheduleInit == onAir = Ul(1)

SendBeacon == onAir = Ul(1) /\ onAir' = Beacon
FirstSlot == onAir = Beacon /\ onAir' = Dl(Ops)
Answer == \E s \in 1..Ops : onAir = Dl(s) /\ onAir' = Ul(s)
NextSlot == \E s \in 2..Ops : onAir = Ul(s) /\ onAir' = Dl(s - 1)

ScheduleNext == SendBeacon \/ FirstSlot \/ Answer \/ NextSlot

ScheduleOrder == ScheduleInit /\ [][ScheduleNext]_onAir
=============================================================================
