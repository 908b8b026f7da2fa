------------------------------- MODULE FtLoop -------------------------------
(***************************************************************************)
(* How the FT keeps its frames going: the event handlers of                *)
(* src/phy_impl/ft.c against the modem.  There is no loop in the program:  *)
(* the completion of every downlink schedules what follows, on a modem     *)
(* that already has the uplink's window to do.                             *)
(*                                                                         *)
(* The modem (external) executes the operations it has in order and        *)
(* reports the end of each with an event, which may be handled when the    *)
(* modem is further already.  Times are the subject of module SlotTiming.  *)
(* operation_sem, which nobody takes after DectPhy_Init, is left out.      *)
(***************************************************************************)
EXTENDS Integers, Sequences, FiniteSets, FrameSchedule

CONSTANTS
    MaxEvents,      \* bound: events that wait for the handler at a time
    Faults          \* the faults of the modem that are considered

FaultKinds == {
    "beacon_error", "dl_error", "ul_error", \* an operation ends with an error
    "schedule"}                             \* an operation is refused

ASSUME FtLoopAssumption ==
    /\ Ops \in Nat \ {0}
    /\ MaxEvents \in Nat \ {0}
    /\ Faults \subseteq FaultKinds

VARIABLES
    slotCounter,    \* the slot under way; counts down
    warmedUp,
    time_sem,       \* its count, 0 or 1
    looping,        \* the main thread is in Ft_InfiniteLoop, which only sleeps
    ops,            \* modem: the operations it has, in order
    events,         \* modem: completion events not handled yet, in order
    timeAsked       \* modem: TRUE from nrf_modem_dect_phy_time_get to its event

vars == <<slotCounter, warmedUp, time_sem, looping, ops, events, timeAsked, onAir>>

\* An operation is its handle: FT_TX_HANDLE + s and FT_RX_HANDLE + s are the
\* downlink and the window of slot s.
Handle == {Beacon} \cup {Dl(s) : s \in 1..Ops} \cup {Ul(s) : s \in 1..Ops}

ErrorOf(op) ==
    CASE op.kind = "BEACON_TX" -> "beacon_error"
      [] op.kind = "FT_TX" -> "dl_error"
      [] op.kind = "FT_RX" -> "ul_error"

\* DectPhy_Main has called Ft_Init and asked for the time.
Init ==
    /\ slotCounter = Ops
    /\ warmedUp = FALSE /\ time_sem = 0 /\ looping = FALSE
    /\ ops = <<>> /\ events = <<>>
    /\ timeAsked = TRUE
    /\ ScheduleInit

\* The calls of a handler, each for an operation, of which the modem takes
\* those in "taken"; every result is ignored.
Accepts(calls) == {taken \in SUBSET calls : taken # calls => "schedule" \in Faults}

Taken(op, taken) == IF op \in taken THEN <<op>> ELSE <<>>

\* A slot, and the first slot of a frame with the beacon before it: the calls
\* are made in this order.
ScheduleSlot(s) ==
    \E taken \in Accepts({Dl(s), Ul(s)}) :
        ops' = ops \o Taken(Dl(s), taken) \o Taken(Ul(s), taken)

ScheduleFrame(s) ==
    \E taken \in Accepts({Beacon, Dl(s), Ul(s)}) :
        ops' = ops \o Taken(Beacon, taken) \o Taken(Dl(s), taken) \o Taken(Ul(s), taken)

-----------------------------------------------------------------------------
(* The handlers.                                                           *)

\* mock_time_get: the first frame.
FirstFrame ==
    /\ timeAsked /\ ~warmedUp
    /\ ScheduleFrame(slotCounter)
    /\ timeAsked' = FALSE
    /\ warmedUp' = TRUE
    /\ time_sem' = 1
    /\ UNCHANGED <<slotCounter, looping, events, onAir>>

\* Mutant: the counter counts to zero and one further.
DlCompleteAlsoAtZero ==
    /\ slotCounter' = IF slotCounter = 0 THEN Ops ELSE slotCounter - 1
    /\ IF slotCounter # 0
       THEN ScheduleSlot(slotCounter')
       ELSE ScheduleFrame(slotCounter')

\* mock_complete for a downlink that was sent: what comes after the window
\* that is scheduled already.
DlComplete ==
    LET left == slotCounter - 1
    IN  IF left # 0
        THEN /\ slotCounter' = left
             /\ ScheduleSlot(left)
        ELSE /\ slotCounter' = Ops
             /\ ScheduleFrame(Ops)

\* Mutant: the window's completion goes the same way.
CompleteEither ==
    /\ events # <<>>
    /\ IF Head(events).op.kind # "BEACON_TX" /\ ~Head(events).err
       THEN DlComplete
       ELSE UNCHANGED <<slotCounter, ops>>
    /\ events' = Tail(events)
    /\ UNCHANGED <<warmedUp, time_sem, looping, timeAsked, onAir>>

\* mock_complete: any other operation, and any that failed, is only logged.
Complete ==
    /\ events # <<>>
    /\ IF Head(events).op.kind = "FT_TX" /\ ~Head(events).err
       THEN DlComplete
       ELSE UNCHANGED <<slotCounter, ops>>
    /\ events' = Tail(events)
    /\ UNCHANGED <<warmedUp, time_sem, looping, timeAsked, onAir>>

-----------------------------------------------------------------------------
(* The main thread and the modem.                                          *)

\* The end of DectPhy_Main.
MainTime ==
    /\ ~looping /\ looping' = TRUE
    /\ time_sem = 1 /\ time_sem' = 0
    /\ UNCHANGED <<slotCounter, warmedUp, ops, events, timeAsked, onAir>>

\* The modem executes its next operation, or fails to.
Execute ==
    /\ ops # <<>> /\ Len(events) < MaxEvents
    /\ \E err \in BOOLEAN :
          /\ err => ErrorOf(Head(ops)) \in Faults
          /\ events' = Append(events, [op |-> Head(ops), err |-> err])
    /\ onAir' = Head(ops)
    /\ ops' = Tail(ops)
    /\ UNCHANGED <<slotCounter, warmedUp, time_sem, looping, timeAsked>>

Next == FirstFrame \/ Complete \/ MainTime \/ Execute

Spec == Init /\ [][Next]_vars

-----------------------------------------------------------------------------
(* Correctness.                                                            *)

\* Every variable has its type.
TypeOK ==
    /\ slotCounter \in 1..Ops
    /\ {warmedUp, looping, timeAsked} \subseteq BOOLEAN /\ time_sem \in 0..1
    /\ ops \in Seq(Handle)
    /\ events \in Seq([op : Handle, err : BOOLEAN]) /\ Len(events) <= MaxEvents
    /\ onAir \in Handle

\* At any time there is exactly one thing left that makes the frames go on: a
\* downlink the modem has yet to execute, or has executed and not yet reported
\* (the first time, the time event).  With two of them the FT would run two
\* interleaved frames; with none it has stopped.
Pending == [i \in 1..Len(events) |-> events[i].op] \o ops
OneDownlink ==
    Cardinality({i \in 1..Len(Pending) : Pending[i].kind = "FT_TX"})
        = IF warmedUp THEN 1 ELSE 0

\* The downlink under way is that of the slot slotCounter says, and the modem
\* never has two operations of one handle, by which mock_complete tells them
\* apart.
HandlesTellSlots ==
    /\ \A i \in 1..Len(Pending) : Pending[i].kind = "FT_TX" => Pending[i].slot = slotCounter
    /\ \A i, j \in 1..Len(ops) : ops[i] = ops[j] => i = j
=============================================================================
