----------------------------- MODULE MCMacData -----------------------------
(* The FT sends a datagram that fits the buffer of an event and one that   *)
(* is longer; one of the PTs sends one as well.                            *)
EXTENDS MacData

FewDatagrams == [b \in Boards |-> IF b = FT THEN <<1, 3>>
                                  ELSE IF b = CHOOSE p \in PTs : TRUE THEN <<1>> ELSE <<>>]
============================================================================
