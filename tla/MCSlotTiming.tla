---------------------------- MODULE MCSlotTiming ----------------------------
(* Instances of SlotTiming for TLC: the proportions, not the values, of the *)
(* radio's constants.  The delays vary as much as Budget(1) allows; the      *)
(* numbers are such that a PT that believes the guess in the very first      *)
(* beacon meets the second one in its window but not the downlink after it.  *)
EXTENDS SlotTiming

MCFtDelays == {6, 7}
MCPtDelays == {35, 36}
ASSUME MCBudget == Budget(1)
=============================================================================
