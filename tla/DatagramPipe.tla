---------------------------- MODULE DatagramPipe ----------------------------
(***************************************************************************)
(* What the Ethernet bridge promises in one direction while no slot is     *)
(* lost: a first-in first-out pipe of datagrams.  A datagram handed to the *)
(* sending device comes out of the receiving device once, whole, unchanged *)
(* and in order.                                                           *)
(***************************************************************************)
EXTENDS Naturals, Sequences

CONSTANT Datagram   \* the contents a datagram can have

VARIABLES
    sent,           \* every datagram handed to the pipe, oldest first
    received        \* every datagram that came out of it, oldest first

pipeVars == <<sent, received>>

PipeInit ==
    /\ sent = <<>>
    /\ received = <<>>

Send(d) ==
    /\ sent' = Append(sent, d)
    /\ UNCHANGED received

Receive ==
    /\ Len(received) < Len(sent)
    /\ received' = Append(received, sent[Len(received) + 1])
    /\ UNCHANGED sent

PipeNext == Receive \/ \E d \in Datagram : Send(d)

PipeSpec == PipeInit /\ [][PipeNext]_pipeVars
=============================================================================
