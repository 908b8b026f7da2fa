-------------------------- MODULE MCFragmentation --------------------------
(* Instances of Fragmentation for TLC.  An Ethernet frame has at least 60   *)
(* bytes; the sizes and slots are chosen so that a datagram fits a slot     *)
(* exactly, fits with room for part of the next one, or takes several       *)
(* slots, and so that a slot is left with no room for another fragment.     *)
EXTENDS Fragmentation

MCSizes == {60, 87, 115}
MCSlotBytes == {37, 117}    \* MCS 1 and MCS 4
MCLossySizes == {60, 110}
MCLossySlotBytes == {57, 117}   \* MCS 2 and MCS 4
=============================================================================
