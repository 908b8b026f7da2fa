--------------------------- MODULE MCWiznetBuffers ---------------------------
(* Sizes for the model checker: a buffer of 8 bytes holds two frames, and    *)
(* the header of the third and the third datagram straddle its end, where    *)
(* the pointers overflow, too.                                               *)
EXTENDS WiznetBuffers

TxSizes == <<3, 4, 4>>
RxSizes == <<1, 2, 4>>
=============================================================================
