---------------------------- MODULE FtLoop_proofs ----------------------------
(***************************************************************************)
(* The FT keeps to the frame schedule for any number of slots in a frame,  *)
(* whatever operations fail and however late their events are handled, as  *)
(* long as the modem refuses none of the operations scheduled on it.       *)
(***************************************************************************)
EXTENDS PhyMain, SequenceTheorems, FiniteSetTheorems, TLAPS

NothingRefused == "schedule" \notin Faults

\* What follows an operation.
Succ(op) ==
    IF op.kind = "BEACON_TX" THEN Dl(Ops)
    ELSE IF op.kind = "FT_TX" THEN Ul(op.slot)
    ELSE IF op.slot = 1 THEN Beacon ELSE Dl(op.slot - 1)

LEMMA SuccIsNext ==
    ASSUME onAir \in Handle, onAir' = Succ(onAir)
    PROVE  ScheduleNext
<1>1. CASE onAir = Beacon
    BY <1>1 DEF Succ, Beacon, ScheduleNext, FirstSlot
<1>2. ASSUME NEW s \in 1..Ops, onAir = Dl(s) PROVE ScheduleNext
    BY <1>2 DEF Succ, Dl, ScheduleNext, Answer
<1>3. ASSUME NEW s \in 1..Ops, onAir = Ul(s) PROVE ScheduleNext
    <2>1. CASE s = 1
        BY <1>3, <2>1 DEF Succ, Ul, ScheduleNext, SendBeacon
    <2>2. CASE s # 1
        <3>1. s \in 2..Ops /\ onAir' = Dl(s - 1)
            BY <1>3, <2>2, FtLoopAssumption DEF Succ, Ul
        <3> QED
            BY <1>3, <3>1 DEF ScheduleNext, NextSlot
    <2> QED
        BY <2>1, <2>2
<1> QED
    BY <1>1, <1>2, <1>3 DEF Handle

LEMMA SuccChain ==
    ASSUME NEW s \in 1..Ops
    PROVE  /\ Succ(Dl(s)) = Ul(s)
           /\ s # 1 => s - 1 \in 1..Ops /\ Succ(Ul(s)) = Dl(s - 1)
           /\ Succ(Ul(1)) = Beacon
           /\ Succ(Beacon) = Dl(Ops) /\ Ops \in 1..Ops /\ 1 \in 1..Ops
BY FtLoopAssumption DEF Succ, Dl, Ul, Beacon

\* The operations of the modem, behind the one it executed last, are a run of
\* the schedule, and it ends with the window of the slot slotCounter says.
Linked ==
    /\ ops # <<>> => ops[1] = Succ(onAir)
    /\ \A i \in 1..Len(ops) - 1 : ops[i + 1] = Succ(ops[i])
LastOp == IF ops = <<>> THEN onAir ELSE ops[Len(ops)]
ScheduleInv ==
    /\ slotCounter \in 1..Ops
    /\ ops \in Seq(Handle) /\ onAir \in Handle
    /\ Linked
    /\ LastOp = Ul(IF warmedUp THEN slotCounter ELSE 1)
    /\ ~warmedUp => slotCounter = Ops /\ ops = <<>> /\ events = <<>>

\* Two calls, or three, that the modem takes.
LEMMA ConcatOne ==
    ASSUME NEW q \in Seq(Handle), NEW a \in Handle, NEW b \in Handle, NEW c \in Handle
    PROVE  /\ q \o <<a>> \o <<b>> = q \o <<a, b>>
           /\ q \o <<a>> \o <<b>> \o <<c>> = q \o <<a, b, c>>
<1> DEFINE one == q \o <<a>>
           two == one \o <<b>>
           three == two \o <<c>>
<1>0. <<a>> \in Seq(Handle) /\ <<b>> \in Seq(Handle) /\ <<c>> \in Seq(Handle)
    OBVIOUS
<1>1. /\ one \in Seq(Handle) /\ Len(one) = Len(q) + 1
      /\ \A i \in 1..Len(one) : one[i] = IF i <= Len(q) THEN q[i] ELSE a
    BY <1>0, ConcatProperties
<1> HIDE DEF one
<1>2. /\ two \in Seq(Handle) /\ Len(two) = Len(q) + 2
      /\ \A i \in 1..Len(two) : two[i] = IF i <= Len(one) THEN one[i] ELSE b
    BY <1>0, <1>1, ConcatProperties
<1> HIDE DEF two
<1>3. /\ three \in Seq(Handle) /\ Len(three) = Len(q) + 3
      /\ \A i \in 1..Len(three) : three[i] = IF i <= Len(two) THEN two[i] ELSE c
    BY <1>0, <1>2, ConcatProperties
<1> HIDE DEF three
<1>4. two = q \o <<a, b>>
    <2>1. /\ q \o <<a, b>> \in Seq(Handle) /\ Len(q \o <<a, b>>) = Len(q) + 2
          /\ \A i \in 1..Len(q) + 2 : (q \o <<a, b>>)[i]
                = IF i <= Len(q) THEN q[i] ELSE IF i = Len(q) + 1 THEN a ELSE b
        OBVIOUS
    <2>2. \A i \in 1..Len(q) + 2 : two[i]
                = IF i <= Len(q) THEN q[i] ELSE IF i = Len(q) + 1 THEN a ELSE b
        BY <1>1, <1>2
    <2>3. \A i \in 1..Len(two) : two[i] = (q \o <<a, b>>)[i]
        BY <1>2, <2>1, <2>2
    <2>4. Len(two) = Len(q \o <<a, b>>)
        BY <1>2, <2>1
    <2> QED
        BY <1>2, <2>1, <2>3, <2>4, SeqEqual
<1>5. three = q \o <<a, b, c>>
    <2>1. /\ q \o <<a, b, c>> \in Seq(Handle) /\ Len(q \o <<a, b, c>>) = Len(q) + 3
          /\ \A i \in 1..Len(q) + 3 : (q \o <<a, b, c>>)[i]
                = IF i <= Len(q) THEN q[i] ELSE IF i = Len(q) + 1 THEN a
                  ELSE IF i = Len(q) + 2 THEN b ELSE c
        OBVIOUS
    <2>2. \A i \in 1..Len(q) + 3 : three[i]
                = IF i <= Len(q) THEN q[i] ELSE IF i = Len(q) + 1 THEN a
                  ELSE IF i = Len(q) + 2 THEN b ELSE c
        BY <1>1, <1>2, <1>3
    <2>3. \A i \in 1..Len(three) : three[i] = (q \o <<a, b, c>>)[i]
        BY <1>3, <2>1, <2>2
    <2>4. Len(three) = Len(q \o <<a, b, c>>)
        BY <1>3, <2>1
    <2> QED
        BY <1>3, <2>1, <2>3, <2>4, SeqEqual
<1> QED
    BY <1>4, <1>5 DEF one, two, three

LEMMA ScheduleTakesAll ==
    ASSUME NothingRefused, ops \in Seq(Handle), NEW s \in 1..Ops
    PROVE  /\ ScheduleSlot(s) => ops' = ops \o <<Dl(s), Ul(s)>>
           /\ ScheduleFrame(s) => ops' = ops \o <<Beacon, Dl(s), Ul(s)>>
<1>0. Beacon \in Handle /\ Dl(s) \in Handle /\ Ul(s) \in Handle
    BY DEF Handle
<1>1. \A calls, taken : taken \in Accepts(calls) => taken = calls
    BY DEF NothingRefused, Accepts
<1>2. ASSUME ScheduleSlot(s) PROVE ops' = ops \o <<Dl(s), Ul(s)>>
    <2>1. ops' = ops \o <<Dl(s)>> \o <<Ul(s)>>
        BY <1>1, <1>2 DEF ScheduleSlot, Taken
    <2> QED
        BY <1>0, <2>1, ConcatOne
<1>3. ASSUME ScheduleFrame(s) PROVE ops' = ops \o <<Beacon, Dl(s), Ul(s)>>
    <2>1. ops' = ops \o <<Beacon>> \o <<Dl(s)>> \o <<Ul(s)>>
        BY <1>1, <1>3 DEF ScheduleFrame, Taken
    <2> QED
        BY <1>0, <2>1, ConcatOne
<1> QED
    BY <1>2, <1>3

LEMMA ScheduleInvInit == Init => ScheduleInv
BY FtLoopAssumption DEF Init, ScheduleInit, ScheduleInv, Linked, LastOp, Handle

\* Adding to the operations what follows the last of them keeps the order.
LEMMA AppendLinked ==
    ASSUME ops \in Seq(Handle), Linked, onAir' = onAir,
           NEW calls \in Seq(Handle), calls # <<>>,
           ops' = ops \o calls,
           calls[1] = Succ(LastOp),
           \A i \in 1..Len(calls) - 1 : calls[i + 1] = Succ(calls[i])
    PROVE  /\ ops' \in Seq(Handle)
           /\ Linked'
           /\ LastOp' = calls[Len(calls)]
<1>1. ops' \in Seq(Handle) /\ Len(ops') = Len(ops) + Len(calls) /\ ops' # <<>>
    OBVIOUS
<1>2. LastOp' = calls[Len(calls)]
    BY <1>1 DEF LastOp
<1>3. ops'[1] = Succ(onAir)
    <2>1. CASE ops = <<>>
        BY <2>1 DEF LastOp
    <2>2. CASE ops # <<>>
        BY <2>2 DEF Linked
    <2> QED
        BY <2>1, <2>2
<1>4. ASSUME NEW i \in 1..Len(ops') - 1 PROVE ops'[i + 1] = Succ(ops'[i])
    <2>1. CASE i < Len(ops)
        <3>1. i \in 1..Len(ops) - 1 /\ ops'[i] = ops[i] /\ ops'[i + 1] = ops[i + 1]
            BY <1>1, <1>4, <2>1
        <3> QED
            BY <3>1 DEF Linked
    <2>2. CASE i = Len(ops)
        <3>1. ops # <<>> /\ ops'[i] = ops[i] /\ ops'[i + 1] = calls[1]
            BY <1>1, <1>4, <2>2
        <3> QED
            BY <2>2, <3>1 DEF LastOp
    <2>3. CASE i > Len(ops)
        <3>1. /\ i - Len(ops) \in 1..Len(calls) - 1
              /\ ops'[i] = calls[i - Len(ops)]
              /\ ops'[i + 1] = calls[(i - Len(ops)) + 1]
            BY <1>1, <1>4, <2>3
        <3> QED
            BY <3>1
    <2> QED
        BY <2>1, <2>2, <2>3, <1>1
<1> QED
    BY <1>1, <1>2, <1>3, <1>4 DEF Linked

LEMMA ScheduleInvNext ==
    ASSUME NothingRefused, ScheduleInv, [Next]_vars
    PROVE  ScheduleInv' /\ [ScheduleNext]_onAir
<1>1. CASE FirstFrame
    <2> DEFINE calls == <<Beacon, Dl(Ops), Ul(Ops)>>
    <2>1. /\ ops' = ops \o calls /\ onAir' = onAir /\ slotCounter' = slotCounter
          /\ warmedUp' = TRUE /\ slotCounter = Ops /\ LastOp = Ul(1)
        <3>1. /\ ScheduleFrame(slotCounter) /\ onAir' = onAir /\ slotCounter' = slotCounter
              /\ warmedUp' = TRUE /\ slotCounter = Ops /\ LastOp = Ul(1) /\ slotCounter \in 1..Ops
              /\ ops \in Seq(Handle)
            BY <1>1 DEF FirstFrame, ScheduleInv
        <3> QED
            BY <3>1, ScheduleTakesAll
    <2>2. calls \in Seq(Handle) /\ calls # <<>>
        BY FtLoopAssumption DEF Handle
    <2>3. /\ calls[1] = Succ(LastOp)
          /\ \A i \in 1..Len(calls) - 1 : calls[i + 1] = Succ(calls[i])
        <3>1. 1 \in 1..Ops /\ Ops \in 1..Ops
            BY FtLoopAssumption
        <3>2. /\ Succ(Ul(1)) = Beacon /\ Succ(Beacon) = Dl(Ops)
              /\ Succ(Dl(Ops)) = Ul(Ops)
            BY <3>1, SuccChain
        <3> QED
            BY <2>1, <3>2
    <2>4. ops' \in Seq(Handle) /\ Linked' /\ LastOp' = calls[Len(calls)]
        <3> HIDE DEF calls
        <3> QED
            BY <2>1, <2>2, <2>3, AppendLinked DEF ScheduleInv
    <2> QED
        BY <2>1, <2>4 DEF ScheduleInv
<1>2. CASE Complete
    <2>1. warmedUp /\ UNCHANGED <<warmedUp, onAir>>
        BY <1>2 DEF Complete, ScheduleInv
    <2>2. CASE UNCHANGED <<slotCounter, ops>>
        BY <2>1, <2>2 DEF ScheduleInv, Linked, LastOp
    <2>3. CASE DlComplete
        <3>0. LastOp = Ul(slotCounter) /\ slotCounter \in 1..Ops
            BY <2>1 DEF ScheduleInv
        <3>1. CASE slotCounter # 1
            <4> DEFINE left == slotCounter - 1
                       calls == <<Dl(left), Ul(left)>>
            <4>1. left \in 1..Ops /\ Succ(Ul(slotCounter)) = Dl(left) /\ Succ(Dl(left)) = Ul(left)
                BY <3>0, <3>1, SuccChain
            <4>2. slotCounter' = left /\ ops' = ops \o calls
                <5>1. left # 0 /\ slotCounter \in Int
                    BY <3>0, <3>1
                <5>2. slotCounter' = left /\ ScheduleSlot(left) /\ ops \in Seq(Handle)
                    BY <2>3, <5>1 DEF DlComplete, ScheduleInv
                <5> QED
                    BY <4>1, <5>2, ScheduleTakesAll
            <4>3. calls \in Seq(Handle) /\ calls # <<>>
                BY <4>1 DEF Handle
            <4>4. /\ calls[1] = Succ(LastOp)
                  /\ \A i \in 1..Len(calls) - 1 : calls[i + 1] = Succ(calls[i])
                BY <3>0, <4>1
            <4>5. ops' \in Seq(Handle) /\ Linked' /\ LastOp' = calls[Len(calls)]
                <5> HIDE DEF calls
                <5> QED
                    BY <2>1, <4>2, <4>3, <4>4, AppendLinked DEF ScheduleInv
            <4> QED
                BY <2>1, <4>1, <4>2, <4>5 DEF ScheduleInv
        <3>2. CASE slotCounter = 1
            <4> DEFINE calls == <<Beacon, Dl(Ops), Ul(Ops)>>
            <4>1. /\ Succ(Ul(1)) = Beacon /\ Succ(Beacon) = Dl(Ops)
                  /\ Succ(Dl(Ops)) = Ul(Ops) /\ Ops \in 1..Ops
                <5>1. Ops \in 1..Ops
                    BY FtLoopAssumption
                <5> QED
                    BY <5>1, SuccChain
            <4>2. slotCounter' = Ops /\ ops' = ops \o calls
                <5>1. slotCounter' = Ops /\ ScheduleFrame(Ops) /\ ops \in Seq(Handle)
                    BY <2>3, <3>2 DEF DlComplete, ScheduleInv
                <5> QED
                    BY <4>1, <5>1, ScheduleTakesAll
            <4>3. calls \in Seq(Handle) /\ calls # <<>>
                BY <4>1 DEF Handle
            <4>4. /\ calls[1] = Succ(LastOp)
                  /\ \A i \in 1..Len(calls) - 1 : calls[i + 1] = Succ(calls[i])
                BY <3>0, <3>2, <4>1
            <4>5. ops' \in Seq(Handle) /\ Linked' /\ LastOp' = calls[Len(calls)]
                <5> HIDE DEF calls
                <5> QED
                    BY <2>1, <4>2, <4>3, <4>4, AppendLinked DEF ScheduleInv
            <4> QED
                BY <2>1, <4>1, <4>2, <4>5 DEF ScheduleInv
        <3> QED
            BY <3>1, <3>2
    <2> QED
        BY <1>2, <2>1, <2>2, <2>3 DEF Complete
<1>3. CASE MainTime
    BY <1>3 DEF MainTime, ScheduleInv, Linked, LastOp
<1>4. CASE Execute
    <2>1. /\ ops # <<>> /\ onAir' = ops[1] /\ ops' = Tail(ops)
          /\ UNCHANGED <<slotCounter, warmedUp>> /\ ops \in Seq(Handle)
        BY <1>4 DEF Execute, ScheduleInv
    <2>2. onAir' = Succ(onAir) /\ onAir' \in Handle
        BY <2>1 DEF ScheduleInv, Linked
    <2>3. /\ ops' \in Seq(Handle) /\ Len(ops') = Len(ops) - 1
          /\ \A i \in 1..Len(ops') : ops'[i] = ops[i + 1]
        BY <2>1
    <2>4. Linked'
        <3>1. ops' # <<>> => ops'[1] = Succ(onAir')
            BY <2>1, <2>3 DEF ScheduleInv, Linked
        <3>2. ASSUME NEW i \in 1..Len(ops') - 1 PROVE ops'[i + 1] = Succ(ops'[i])
            <4>1. i + 1 \in 1..Len(ops) - 1 /\ ops'[i] = ops[i + 1] /\ ops'[i + 1] = ops[(i + 1) + 1]
                BY <2>1, <2>3, <3>2
            <4> QED
                BY <4>1 DEF ScheduleInv, Linked
        <3> QED
            BY <3>1, <3>2 DEF Linked
    <2>5. LastOp' = LastOp
        BY <2>1, <2>3 DEF LastOp
    <2>6. warmedUp
        BY <2>1 DEF ScheduleInv
    <2>7. ScheduleNext
        BY <2>2, SuccIsNext DEF ScheduleInv
    <2> QED
        BY <2>1, <2>2, <2>3, <2>4, <2>5, <2>6, <2>7 DEF ScheduleInv
<1>5. CASE UNCHANGED vars
    BY <1>5 DEF vars, ScheduleInv, Linked, LastOp
<1>6. UNCHANGED onAir \/ Execute
    BY DEF Next, vars, FirstFrame, Complete, MainTime
<1> QED
    BY <1>1, <1>2, <1>3, <1>4, <1>5, <1>6 DEF Next

\* On the air the FT goes through its frames in the order of FrameSchedule: a
\* beacon, and for each slot a downlink and its window (the handlers
\* mock_time_get and mock_complete of ft.c).
THEOREM FramesInOrder == NothingRefused => (Spec => ScheduleOrder)
<1> SUFFICES ASSUME NothingRefused PROVE Spec => ScheduleOrder
    OBVIOUS
<1>1. Init => ScheduleInit
    BY DEF Init
<1>2. ScheduleInv /\ [Next]_vars => ScheduleInv' /\ [ScheduleNext]_onAir
    BY ScheduleInvNext
<1> QED
    BY ScheduleInvInit, <1>1, <1>2, PTL DEF Spec, ScheduleOrder

\* The slot counter never reaches 0, where counting it down would wrap it
\* around, whatever the modem does (mock_complete, which sets it again).
SlotInRange == slotCounter \in 1..Ops
THEOREM SlotCounterInRange == Spec => []SlotInRange
<1>1. Init => SlotInRange
    BY FtLoopAssumption DEF Init, SlotInRange
<1>2. SlotInRange /\ [Next]_vars => SlotInRange'
    BY FtLoopAssumption DEF SlotInRange, Next, FirstFrame, Complete, DlComplete,
                            MainTime, Execute, vars
<1> QED
    BY <1>1, <1>2, PTL DEF Spec

-----------------------------------------------------------------------------
(* From power-on (PhyMain).                                                *)

\* Before the main loop nothing is scheduled, and the main thread waits in no
\* other phase.  From then on the frames are in order, or the first was begun
\* with a radio that takes nothing.
Nothing == ops = <<>> /\ events = <<>> /\ onAir = Ul(1)
BootInv ==
    /\ phase \in Chain
    /\ waiting => phase \notin {"time", "loop"}
    /\ \/ phase # "loop" /\ Nothing /\ ~warmedUp /\ ~timeAsked
       \/ phase = "loop" /\ ScheduleInv
       \/ phase = "loop" /\ Nothing /\ warmedUp

\* A step of start-up, of the modem or of the shell, which does nothing on air.
Quiet == ops' = ops /\ events' = events /\ onAir' = onAir

\* The main thread before the loop.
LEMMA StartUpStep ==
    ASSUME BootInv, MainRequest \/ MainAnswered \/ MainAsksTime
    PROVE  BootInv' /\ Quiet
<1>1. CASE MainRequest
    <2>1. phase # "loop" /\ UNCHANGED vars
        BY <1>1 DEF MainRequest
    <2>2. phase' \in Chain \ {"loop"} /\ (waiting' => phase' \notin {"time", "loop"})
        BY <1>1 DEF MainRequest, RequestTaken, RequestRefused, Chain, After, Immediate, Unchecked,
                    BootInv
    <2> QED
        BY <2>1, <2>2 DEF BootInv, Nothing, Quiet, vars
<1>2. CASE MainAnswered
    <2>1. phase \notin {"time", "loop"} /\ ~waiting' /\ UNCHANGED vars
        BY <1>2 DEF MainAnswered, BootInv
    <2>2. phase' \in Chain \ {"loop"}
        BY <1>2, <2>1 DEF MainAnswered, Chain, After, BootInv
    <2> QED
        BY <2>1, <2>2 DEF BootInv, Nothing, Quiet, vars
<1>3. CASE MainAsksTime
    <2>1. /\ phase = "time" /\ phase' = "loop" /\ ~waiting /\ UNCHANGED waiting
          /\ slotCounter' = Ops /\ Quiet /\ UNCHANGED warmedUp
        BY <1>3 DEF MainAsksTime, BootInv, Quiet
    <2>2. Nothing /\ ~warmedUp
        BY <2>1 DEF BootInv
    <2>3. ScheduleInv'
        BY <2>1, <2>2, FtLoopAssumption
           DEF ScheduleInv, Linked, LastOp, Handle, Nothing, Quiet
    <2> QED
        BY <2>1, <2>3 DEF BootInv, Chain
<1> QED
    BY <1>1, <1>2, <1>3

LEMMA BootInvNext ==
    ASSUME NothingRefused, BootInv, [BootNext]_allVars
    PROVE  BootInv' /\ [ScheduleNext]_onAir
<1>1. CASE MainRequest \/ MainAnswered \/ MainAsksTime
    BY <1>1, StartUpStep DEF Quiet
<1>2. CASE RequestAnswered \/ cmd_bridge_mcs \/ UNCHANGED allVars
    <2>1. UNCHANGED <<vars, phase, waiting>>
        BY <1>2 DEF RequestAnswered, cmd_bridge_mcs, allVars, bootVars
    <2> QED
        BY <2>1 DEF BootInv, ScheduleInv, Linked, LastOp, Nothing, vars
<1>3. CASE TimeTooEarly
    <2>1. /\ Quiet /\ ~warmedUp /\ warmedUp' /\ timeAsked
          /\ UNCHANGED <<phase, waiting>>
        BY <1>3 DEF TimeTooEarly, Quiet, bootVars
    <2>2. phase = "loop" /\ ScheduleInv
        BY <2>1 DEF BootInv
    <2>3. Nothing
        BY <2>1, <2>2 DEF ScheduleInv, LastOp, Nothing
    <2> QED
        BY <2>1, <2>2, <2>3 DEF BootInv, Nothing, Quiet
<1>4. CASE BootFirstFrame \/ BootComplete \/ BootMainTime \/ BootExecute
    <2>1. Next /\ UNCHANGED <<phase, waiting>>
        BY <1>4 DEF BootFirstFrame, BootComplete, BootMainTime, BootExecute, Next, bootVars
    <2>2. CASE phase = "loop" /\ ScheduleInv
        <3>1. ScheduleInv' /\ [ScheduleNext]_onAir
            BY <2>1, <2>2, ScheduleInvNext
        <3> QED
            BY <2>1, <2>2, <3>1 DEF BootInv
    <2>3. CASE Nothing /\ ~(phase = "loop" /\ ScheduleInv)
        <3>1. ~FirstFrame /\ ~Complete /\ ~Execute
            BY <2>3 DEF FirstFrame, Complete, Execute, BootInv, Nothing
        <3>2. Quiet /\ UNCHANGED <<warmedUp, timeAsked>>
            BY <2>1, <3>1 DEF Next, MainTime, Quiet
        <3> QED
            BY <2>1, <2>3, <3>2 DEF BootInv, Nothing, Quiet
    <2> QED
        BY <2>2, <2>3 DEF BootInv
<1> QED
    BY <1>1, <1>2, <1>3, <1>4 DEF BootNext

\* From power-on, with any failure of the start-up and whatever is typed, the
\* FT puts nothing on the air but frames in their order (DectPhy_Main and
\* DectPhy_Init of phy_main.c with the handlers of ft.c).
THEOREM PowerOnInOrder == NothingRefused => (BootSpec => ScheduleOrder)
<1> SUFFICES ASSUME NothingRefused PROVE BootSpec => ScheduleOrder
    OBVIOUS
<1>1. BootInit => BootInv /\ ScheduleInit
    BY DEF BootInit, BootInv, Nothing, Chain, After, ScheduleInit
<1>2. BootInv /\ [BootNext]_allVars => BootInv' /\ [ScheduleNext]_onAir
    BY BootInvNext
<1> QED
    BY <1>1, <1>2, PTL DEF BootSpec, ScheduleOrder

-----------------------------------------------------------------------------
(* The types of the handlers' state.                                       *)

LEMMA ScheduleTypes ==
    ASSUME ops \in Seq(Handle), NEW s \in 1..Ops, ScheduleSlot(s) \/ ScheduleFrame(s)
    PROVE  ops' \in Seq(Handle)
<1>1. Beacon \in Handle /\ Dl(s) \in Handle /\ Ul(s) \in Handle
    BY DEF Handle
<1>2. \A taken : \A op \in Handle : Taken(op, taken) \in Seq(Handle)
    BY DEF Taken
<1>3. \A taken : \A q \in Seq(Handle), op \in Handle : q \o Taken(op, taken) \in Seq(Handle)
    BY <1>2, ConcatProperties
<1> QED
    BY <1>1, <1>3 DEF ScheduleSlot, ScheduleFrame

\* The events and the operations are the modem's.
QueuesOK ==
    /\ ops \in Seq(Handle)
    /\ events \in Seq([op : Handle, err : BOOLEAN]) /\ Len(events) <= MaxEvents
    /\ onAir \in Handle

LEMMA QueuesNext ==
    ASSUME slotCounter \in 1..Ops, QueuesOK, [Next]_vars
    PROVE  slotCounter' \in 1..Ops /\ QueuesOK'
<1>0. Ops \in Nat /\ Ops \in 1..Ops /\ MaxEvents \in Nat
    BY FtLoopAssumption
<1>1. CASE FirstFrame
    <2>1. ScheduleFrame(slotCounter) /\ UNCHANGED <<slotCounter, events, onAir>>
        BY <1>1 DEF FirstFrame
    <2>2. ops' \in Seq(Handle)
        BY <2>1, ScheduleTypes DEF QueuesOK
    <2> QED
        BY <2>1, <2>2 DEF QueuesOK
<1>2. CASE Complete
    <2>1. events # <<>> /\ events' = Tail(events) /\ UNCHANGED onAir
        BY <1>2 DEF Complete
    <2>2. events' \in Seq([op : Handle, err : BOOLEAN]) /\ Len(events') <= MaxEvents
        BY <1>0, <2>1, HeadTailProperties DEF QueuesOK
    <2>3. CASE UNCHANGED <<slotCounter, ops>>
        BY <2>1, <2>2, <2>3 DEF QueuesOK
    <2>4. CASE DlComplete
        <3>1. CASE slotCounter # 1
            <4>1. slotCounter - 1 # 0 /\ slotCounter - 1 \in 1..Ops
                BY <1>0, <3>1
            <4>2. slotCounter' = slotCounter - 1 /\ ScheduleSlot(slotCounter - 1)
                BY <2>4, <4>1 DEF DlComplete
            <4>3. ops' \in Seq(Handle)
                BY <4>1, <4>2, ScheduleTypes DEF QueuesOK
            <4> QED
                BY <2>1, <2>2, <4>1, <4>2, <4>3 DEF QueuesOK
        <3>2. CASE slotCounter = 1
            <4>2. slotCounter' = Ops /\ ScheduleFrame(Ops)
                BY <2>4, <3>2 DEF DlComplete
            <4>3. ops' \in Seq(Handle)
                BY <1>0, <4>2, ScheduleTypes DEF QueuesOK
            <4> QED
                BY <1>0, <2>1, <2>2, <4>2, <4>3 DEF QueuesOK
        <3> QED
            BY <3>1, <3>2
    <2> QED
        BY <1>2, <2>3, <2>4 DEF Complete
<1>3. CASE Execute
    <2>1. PICK err \in BOOLEAN : events' = Append(events, [op |-> Head(ops), err |-> err])
        BY <1>3 DEF Execute
    <2>2. /\ ops # <<>> /\ Len(events) < MaxEvents /\ onAir' = Head(ops) /\ ops' = Tail(ops)
          /\ slotCounter' = slotCounter
        BY <1>3 DEF Execute
    <2>3. Head(ops) \in Handle /\ Tail(ops) \in Seq(Handle)
        BY <2>2, HeadTailProperties DEF QueuesOK
    <2>4. [op |-> Head(ops), err |-> err] \in [op : Handle, err : BOOLEAN]
        BY <2>3
    <2>5. events' \in Seq([op : Handle, err : BOOLEAN]) /\ Len(events') = Len(events) + 1
        BY <2>1, <2>4, AppendProperties DEF QueuesOK
    <2>6. Len(events') <= MaxEvents
        <3>1. Len(events) \in Nat
            BY LenProperties DEF QueuesOK
        <3> QED
            BY <1>0, <2>2, <2>5, <3>1
    <2> QED
        BY <2>2, <2>3, <2>5, <2>6 DEF QueuesOK
<1>4. CASE MainTime \/ UNCHANGED vars
    BY <1>4 DEF MainTime, vars, QueuesOK
<1> QED
    BY <1>1, <1>2, <1>3, <1>4 DEF Next

FlagsOK ==
    /\ warmedUp \in BOOLEAN /\ looping \in BOOLEAN /\ timeAsked \in BOOLEAN
    /\ time_sem \in 0..1

LEMMA TypeSplit == TypeOK <=> slotCounter \in 1..Ops /\ FlagsOK /\ QueuesOK
BY DEF TypeOK, FlagsOK, QueuesOK

LEMMA TypeJoin == slotCounter' \in 1..Ops /\ FlagsOK' /\ QueuesOK' => TypeOK'
BY DEF TypeOK, FlagsOK, QueuesOK

LEMMA TypeNext == TypeOK /\ [Next]_vars => TypeOK'
<1> SUFFICES ASSUME slotCounter \in 1..Ops, FlagsOK, QueuesOK, [Next]_vars PROVE TypeOK'
    BY TypeSplit
<1>1. FlagsOK'
    <2>1. warmedUp' \in BOOLEAN /\ looping' \in BOOLEAN /\ timeAsked' \in BOOLEAN
        BY DEF FlagsOK, Next, FirstFrame, Complete, MainTime, Execute, vars
    <2>2. time_sem' \in 0..1
        BY DEF FlagsOK, Next, FirstFrame, Complete, MainTime, Execute, vars
    <2> QED
        BY <2>1, <2>2 DEF FlagsOK
<1> QED
    BY <1>1, QueuesNext, TypeJoin

-----------------------------------------------------------------------------
(* Handles and slots.                                                      *)

\* With a single slot in a frame the window of its last slot, which may be to
\* come, has the handle of the next one's.
SeveralSlots == Ops # 1

\* What the modem can have to do while slot s is under way: the window of the
\* slot before, the beacon, the downlink and the window, in this order.
SlotBefore(s) == IF s = Ops THEN 1 ELSE s + 1
Around(s) == {Ul(SlotBefore(s)), Beacon, Dl(s), Ul(s)}
Rank(op, s) ==
    IF op = Beacon THEN 1 ELSE IF op = Dl(s) THEN 2 ELSE IF op = Ul(s) THEN 3 ELSE 0

Run(q, s, n) ==
    /\ q \in Seq(Handle)
    /\ \A i \in 1..Len(q) : q[i] \in Around(s) /\ Rank(q[i], s) < n
    /\ \A i, j \in 1..Len(q) : i < j => Rank(q[i], s) < Rank(q[j], s)

\* A downlink that has been executed but not handled is the only one, and
\* leaves the modem no more than the window that answers it.
SlotInv ==
    /\ Run(ops, slotCounter, 4)
    /\ \A i \in 1..Len(events) : events[i].op.kind = "FT_TX" =>
          /\ events[i].op = Dl(slotCounter)
          /\ \A k \in 1..Len(ops) : ops[k] = Ul(slotCounter)
    /\ \A i, j \in 1..Len(events) :
          events[i].op.kind = "FT_TX" /\ events[j].op.kind = "FT_TX" => i = j
    /\ ~warmedUp => ops = <<>> /\ events = <<>>

LEMMA RankFacts ==
    ASSUME SeveralSlots, NEW s \in 1..Ops
    PROVE  /\ SlotBefore(s) \in 1..Ops
           /\ Beacon \in Handle /\ Dl(s) \in Handle /\ Ul(s) \in Handle
           /\ Ul(SlotBefore(s)) \in Handle
           /\ Rank(Beacon, s) = 1 /\ Rank(Dl(s), s) = 2 /\ Rank(Ul(s), s) = 3
           /\ Rank(Ul(SlotBefore(s)), s) = 0
           /\ Beacon.kind = "BEACON_TX" /\ Dl(s).kind = "FT_TX" /\ Ul(s).kind = "FT_RX"
           /\ Ul(SlotBefore(s)).kind = "FT_RX" /\ Dl(s).slot = s
<1>0. Ops \in Nat /\ Ops >= 1 /\ Ops # 1
    BY FtLoopAssumption DEF SeveralSlots
<1>1. SlotBefore(s) \in 1..Ops /\ SlotBefore(s) # s
    BY <1>0 DEF SlotBefore
<1>2. Beacon \in Handle /\ Dl(s) \in Handle /\ Ul(s) \in Handle /\ Ul(SlotBefore(s)) \in Handle
    BY <1>1 DEF Handle
<1>3. /\ Beacon.kind = "BEACON_TX" /\ Dl(s).kind = "FT_TX" /\ Ul(s).kind = "FT_RX"
      /\ Ul(SlotBefore(s)).kind = "FT_RX" /\ Dl(s).slot = s
    BY DEF Beacon, Dl, Ul
<1>4. Ul(SlotBefore(s)) # Ul(s)
    BY <1>1 DEF Ul
<1>5. /\ Rank(Beacon, s) = 1 /\ Rank(Dl(s), s) = 2 /\ Rank(Ul(s), s) = 3
      /\ Rank(Ul(SlotBefore(s)), s) = 0
    BY <1>3, <1>4 DEF Rank
<1> QED
    BY <1>1, <1>2, <1>3, <1>5

\* What comes later may be appended to a run.
LEMMA RunTaken ==
    ASSUME NEW s \in 1..Ops, NEW n \in Int, NEW q, Run(q, s, n), NEW op \in Around(s), op \in Handle,
           NEW r \in Int, Rank(op, s) = r, n <= r, NEW taken
    PROVE  Run(q \o Taken(op, taken), s, r + 1)
<1> DEFINE z == q \o Taken(op, taken)
<1>0. q \in Seq(Handle) /\ Len(q) \in Nat
    BY LenProperties DEF Run
<1>r. \A i \in 1..Len(q) : Rank(q[i], s) \in Int
    BY DEF Rank
<1>1. CASE op \notin taken
    <2>1. z = q
        BY <1>0, <1>1, ConcatEmptySeq DEF Taken
    <2>2. \A i \in 1..Len(q) : Rank(q[i], s) < r + 1
        BY <1>r DEF Run
    <2> QED
        BY <2>1, <2>2 DEF Run
<1>2. CASE op \in taken
    <2>1. <<op>> \in Seq(Handle) /\ z = q \o <<op>>
        BY <1>2 DEF Taken
    <2>2. /\ z \in Seq(Handle) /\ Len(z) = Len(q) + 1
          /\ \A i \in 1..Len(q) : z[i] = q[i]
          /\ z[Len(q) + 1] = op
        BY <1>0, <2>1, ConcatProperties
    <2> HIDE DEF z
    <2>3. ASSUME NEW i \in 1..Len(z) PROVE z[i] \in Around(s) /\ Rank(z[i], s) < r + 1
        <3>1. CASE i = Len(q) + 1
            BY <2>2, <3>1
        <3>2. CASE i # Len(q) + 1
            <4>1. i \in 1..Len(q)
                BY <1>0, <2>2, <3>2
            <4> QED
                BY <1>r, <2>2, <4>1 DEF Run
        <3> QED
            BY <3>1, <3>2
    <2>4. ASSUME NEW i \in 1..Len(z), NEW j \in 1..Len(z), i < j
          PROVE  Rank(z[i], s) < Rank(z[j], s)
        <3>1. i \in 1..Len(q)
            BY <1>0, <2>2, <2>4
        <3>2. CASE j = Len(q) + 1
            BY <1>r, <2>2, <3>1, <3>2 DEF Run
        <3>3. CASE j # Len(q) + 1
            <4>1. j \in 1..Len(q)
                BY <1>0, <2>2, <3>3
            <4> QED
                BY <2>2, <2>4, <3>1, <4>1 DEF Run
        <3> QED
            BY <3>2, <3>3
    <2>5. Run(z, s, r + 1)
        BY <2>2, <2>3, <2>4 DEF Run
    <2> QED
        BY <2>5 DEF z
<1> QED
    BY <1>1, <1>2

LEMMA ScheduleRun ==
    ASSUME SeveralSlots, NEW s \in 1..Ops, Run(ops, s, 1), ScheduleSlot(s) \/ ScheduleFrame(s)
    PROVE  Run(ops', s, 4)
<1>0. /\ Beacon \in Around(s) /\ Dl(s) \in Around(s) /\ Ul(s) \in Around(s)
      /\ Beacon \in Handle /\ Dl(s) \in Handle /\ Ul(s) \in Handle
      /\ Rank(Beacon, s) = 1 /\ Rank(Dl(s), s) = 2 /\ Rank(Ul(s), s) = 3
    BY RankFacts DEF Around
<1>1. \A taken : \A q : Run(q, s, 1) => Run(q \o Taken(Beacon, taken), s, 2)
    <2>1. ASSUME NEW taken, NEW q, Run(q, s, 1) PROVE Run(q \o Taken(Beacon, taken), s, 1 + 1)
        BY <1>0, <2>1, RunTaken
    <2> QED
        BY <2>1
<1>2. \A taken : \A q, n : n \in {1, 2} /\ Run(q, s, n) => Run(q \o Taken(Dl(s), taken), s, 3)
    <2>1. ASSUME NEW taken, NEW q, NEW n \in {1, 2}, Run(q, s, n)
          PROVE  Run(q \o Taken(Dl(s), taken), s, 2 + 1)
        BY <1>0, <2>1, RunTaken
    <2> QED
        BY <2>1
<1>3. \A taken : \A q : Run(q, s, 3) => Run(q \o Taken(Ul(s), taken), s, 4)
    <2>1. ASSUME NEW taken, NEW q, Run(q, s, 3) PROVE Run(q \o Taken(Ul(s), taken), s, 3 + 1)
        BY <1>0, <2>1, RunTaken
    <2> QED
        BY <2>1
<1>4. CASE ScheduleSlot(s)
    <2>1. PICK taken : ops' = ops \o Taken(Dl(s), taken) \o Taken(Ul(s), taken)
        BY <1>4 DEF ScheduleSlot
    <2> QED
        BY <1>2, <1>3, <2>1
<1>5. CASE ScheduleFrame(s)
    <2>1. PICK taken : ops' = ops \o Taken(Beacon, taken) \o Taken(Dl(s), taken) \o Taken(Ul(s), taken)
        BY <1>5 DEF ScheduleFrame
    <2>2. Run(ops \o Taken(Beacon, taken), s, 2)
        BY <1>1
    <2>3. Run(ops \o Taken(Beacon, taken) \o Taken(Dl(s), taken), s, 3)
        BY <1>2, <2>2
    <2> QED
        BY <1>3, <2>1, <2>3
<1> QED
    BY <1>4, <1>5

\* A downlink in what is around a slot is that slot's.
LEMMA AroundKinds ==
    ASSUME SeveralSlots, NEW s \in 1..Ops, NEW op \in Around(s)
    PROVE  /\ op.kind = "FT_TX" <=> op = Dl(s)
           /\ Rank(op, s) > 2 <=> op = Ul(s)
           /\ Rank(op, s) = 2 <=> op = Dl(s)
           /\ Rank(op, s) \in 0..3
<1>1. /\ Rank(Beacon, s) = 1 /\ Rank(Dl(s), s) = 2 /\ Rank(Ul(s), s) = 3
      /\ Rank(Ul(SlotBefore(s)), s) = 0
      /\ Beacon.kind = "BEACON_TX" /\ Dl(s).kind = "FT_TX" /\ Ul(s).kind = "FT_RX"
      /\ Ul(SlotBefore(s)).kind = "FT_RX"
    BY RankFacts
<1>2. \/ op = Ul(SlotBefore(s)) \/ op = Beacon \/ op = Dl(s) \/ op = Ul(s)
    BY DEF Around
<1>3. CASE op = Ul(SlotBefore(s))
    BY <1>1, <1>3
<1>4. CASE op = Beacon
    BY <1>1, <1>4
<1>5. CASE op = Dl(s)
    BY <1>1, <1>5
<1>6. CASE op = Ul(s)
    BY <1>1, <1>6
<1> QED
    BY <1>2, <1>3, <1>4, <1>5, <1>6

LEMMA EventFacts ==
    ASSUME QueuesOK, Complete
    PROVE  /\ Len(events) \in Nat /\ Len(events) >= 1 /\ Head(events) = events[1]
           /\ Len(events') = Len(events) - 1
           /\ \A i \in 1..Len(events') : i + 1 \in 1..Len(events) /\ events'[i] = events[i + 1]
<1>1. events # <<>> /\ events' = Tail(events)
    BY DEF Complete
<1>2. events \in Seq([op : Handle, err : BOOLEAN])
    BY DEF QueuesOK
<1>3. Len(events) \in Nat /\ Len(events) >= 1 /\ Head(events) = events[1]
    BY <1>1, <1>2
<1>4. /\ Len(events') = Len(events) - 1
      /\ \A i \in 1..Len(events') : events'[i] = events[i + 1]
    BY <1>1, <1>2, HeadTailProperties
<1> QED
    BY <1>3, <1>4

\* The handler of a downlink's event that lets the frames go on.
LEMMA DlCompleteFacts ==
    ASSUME SeveralSlots, slotCounter \in 1..Ops, DlComplete
    PROVE  /\ slotCounter' \in 1..Ops /\ SlotBefore(slotCounter') = slotCounter
           /\ ScheduleSlot(slotCounter') \/ ScheduleFrame(slotCounter')
<1>0. Ops \in Nat /\ Ops \in 1..Ops /\ Ops # 1
    BY FtLoopAssumption DEF SeveralSlots
<1>1. CASE slotCounter # 1
    <2>1. slotCounter - 1 # 0 /\ slotCounter - 1 \in 1..Ops /\ slotCounter - 1 # Ops
        BY <1>0, <1>1
    <2>2. slotCounter' = slotCounter - 1 /\ ScheduleSlot(slotCounter - 1)
        BY <2>1 DEF DlComplete
    <2>3. (slotCounter - 1) + 1 = slotCounter
        OBVIOUS
    <2>4. ScheduleSlot(slotCounter')
        BY <2>2
    <2> QED
        BY <2>1, <2>2, <2>3, <2>4 DEF SlotBefore
<1>2. CASE slotCounter = 1
    <2>1. slotCounter' = Ops /\ ScheduleFrame(Ops)
        BY <1>2 DEF DlComplete
    <2>2. ScheduleFrame(slotCounter')
        BY <2>1
    <2> QED
        BY <1>0, <1>2, <2>1, <2>2 DEF SlotBefore
<1> QED
    BY <1>1, <1>2

LEMMA SlotInvComplete ==
    ASSUME SeveralSlots, slotCounter \in 1..Ops, QueuesOK, SlotInv, Complete
    PROVE  SlotInv'
<1>1. /\ Len(events) \in Nat /\ Len(events) >= 1 /\ Head(events) = events[1]
      /\ Len(events') = Len(events) - 1
      /\ \A i \in 1..Len(events') : i + 1 \in 1..Len(events) /\ events'[i] = events[i + 1]
    BY EventFacts
<1>2. warmedUp' = warmedUp /\ warmedUp
    BY DEF Complete, SlotInv
<1>3. CASE UNCHANGED <<slotCounter, ops>>
    <2>1. Run(ops', slotCounter', 4)
        BY <1>3 DEF SlotInv
    <2>2. \A i \in 1..Len(events') : events'[i].op.kind = "FT_TX" =>
             /\ events'[i].op = Dl(slotCounter')
             /\ \A k \in 1..Len(ops') : ops'[k] = Ul(slotCounter')
        BY <1>1, <1>3 DEF SlotInv
    <2>3. ASSUME NEW i \in 1..Len(events'), NEW j \in 1..Len(events'),
                 events'[i].op.kind = "FT_TX", events'[j].op.kind = "FT_TX"
          PROVE  i = j
        <3>1. /\ i + 1 \in 1..Len(events) /\ j + 1 \in 1..Len(events)
              /\ events[i + 1].op.kind = "FT_TX" /\ events[j + 1].op.kind = "FT_TX"
            BY <1>1, <2>3
        <3>2. i + 1 = j + 1
            BY <3>1 DEF SlotInv
        <3> QED
            BY <1>1, <3>2
    <2> QED
        BY <1>2, <2>1, <2>2, <2>3 DEF SlotInv
<1>4. CASE Head(events).op.kind = "FT_TX" /\ DlComplete
    <2>1. /\ slotCounter' \in 1..Ops /\ SlotBefore(slotCounter') = slotCounter
          /\ ScheduleSlot(slotCounter') \/ ScheduleFrame(slotCounter')
        BY <1>4, DlCompleteFacts
    <2>2. 1 \in 1..Len(events) /\ events[1].op.kind = "FT_TX"
        BY <1>1, <1>4
    <2>3. \A k \in 1..Len(ops) : ops[k] = Ul(slotCounter)
        BY <2>2 DEF SlotInv
    <2>4. Run(ops, slotCounter', 1)
        <3>1. Ul(slotCounter) \in Around(slotCounter') /\ Rank(Ul(slotCounter), slotCounter') = 0
            BY <2>1, RankFacts DEF Around
        <3>2. \A i, j \in 1..Len(ops) : ~(i < j)
            <4>1. Rank(Ul(slotCounter), slotCounter) \in Int
                BY DEF Rank
            <4> QED
                BY <2>3, <4>1 DEF SlotInv, Run
        <3> QED
            BY <2>3, <3>1, <3>2 DEF SlotInv, Run
    <2>5. Run(ops', slotCounter', 4)
        BY <2>1, <2>4, ScheduleRun
    <2>6. \A i \in 1..Len(events') : events'[i].op.kind # "FT_TX"
        <3>1. ASSUME NEW i \in 1..Len(events'), events'[i].op.kind = "FT_TX" PROVE FALSE
            <4>1. i + 1 \in 1..Len(events) /\ events[i + 1].op.kind = "FT_TX"
                BY <1>1, <3>1
            <4>2. i + 1 = 1
                BY <2>2, <4>1 DEF SlotInv
            <4> QED
                BY <1>1, <4>2
        <3> QED
            BY <3>1
    <2> QED
        BY <1>2, <2>5, <2>6 DEF SlotInv
<1> QED
    BY <1>3, <1>4 DEF Complete

LEMMA ExecuteFacts ==
    ASSUME QueuesOK, Execute
    PROVE  /\ Len(ops) \in Nat /\ Len(ops) >= 1 /\ Head(ops) = ops[1]
           /\ ops' \in Seq(Handle) /\ Len(ops') = Len(ops) - 1
           /\ \A k \in 1..Len(ops') : k + 1 \in 1..Len(ops) /\ ops'[k] = ops[k + 1]
           /\ Len(events) \in Nat /\ Len(events') = Len(events) + 1
           /\ \A i \in 1..Len(events) : events'[i] = events[i]
           /\ events'[Len(events) + 1].op = ops[1]
           /\ events'[Len(events) + 1].err => ErrorOf(ops[1]) \in Faults
<1>1. PICK err \in BOOLEAN : /\ events' = Append(events, [op |-> Head(ops), err |-> err])
                             /\ err => ErrorOf(Head(ops)) \in Faults
    BY DEF Execute
<1>2. ops # <<>> /\ ops' = Tail(ops) /\ ops \in Seq(Handle)
      /\ events \in Seq([op : Handle, err : BOOLEAN])
    BY DEF Execute, QueuesOK
<1>3. Len(ops) \in Nat /\ Len(ops) >= 1 /\ Head(ops) = ops[1] /\ Head(ops) \in Handle
    BY <1>2
<1>4. /\ ops' \in Seq(Handle) /\ Len(ops') = Len(ops) - 1
      /\ \A k \in 1..Len(ops') : ops'[k] = ops[k + 1]
    BY <1>2, HeadTailProperties
<1>5. [op |-> Head(ops), err |-> err] \in [op : Handle, err : BOOLEAN]
    BY <1>3
<1>6. /\ Len(events) \in Nat /\ Len(events') = Len(events) + 1
      /\ \A i \in 1..Len(events) : events'[i] = events[i]
      /\ events'[Len(events) + 1] = [op |-> Head(ops), err |-> err]
    BY <1>1, <1>2, <1>5, AppendProperties
<1> QED
    BY <1>1, <1>3, <1>4, <1>6

LEMMA SlotInvExecute ==
    ASSUME SeveralSlots, slotCounter \in 1..Ops, QueuesOK, SlotInv, Execute
    PROVE  SlotInv'
<1>1. /\ Len(ops) \in Nat /\ Len(ops) >= 1
      /\ ops' \in Seq(Handle) /\ Len(ops') = Len(ops) - 1
      /\ \A k \in 1..Len(ops') : k + 1 \in 1..Len(ops) /\ ops'[k] = ops[k + 1]
      /\ Len(events) \in Nat /\ Len(events') = Len(events) + 1
      /\ \A i \in 1..Len(events) : events'[i] = events[i]
      /\ events'[Len(events) + 1].op = ops[1]
    BY ExecuteFacts
<1>2. UNCHANGED <<slotCounter, warmedUp>> /\ warmedUp
    BY DEF Execute, SlotInv
<1>r. \A k \in 1..Len(ops) : ops[k] \in Around(slotCounter)
    BY DEF SlotInv, Run
<1>3. Run(ops', slotCounter, 4)
    <2>1. \A k \in 1..Len(ops') : ops'[k] \in Around(slotCounter) /\ Rank(ops'[k], slotCounter) < 4
        BY <1>1 DEF SlotInv, Run
    <2>2. ASSUME NEW i \in 1..Len(ops'), NEW j \in 1..Len(ops'), i < j
          PROVE  Rank(ops'[i], slotCounter) < Rank(ops'[j], slotCounter)
        <3>1. i + 1 \in 1..Len(ops) /\ j + 1 \in 1..Len(ops) /\ i + 1 < j + 1
            BY <1>1, <2>2
        <3>2. Rank(ops[i + 1], slotCounter) < Rank(ops[j + 1], slotCounter)
            BY <3>1 DEF SlotInv, Run
        <3> QED
            BY <1>1, <3>2
    <2> QED
        BY <1>1, <2>1, <2>2 DEF Run
<1>4. ASSUME ops[1].kind = "FT_TX"
      PROVE  /\ ops[1] = Dl(slotCounter)
             /\ \A k \in 1..Len(ops') : ops'[k] = Ul(slotCounter)
             /\ \A i \in 1..Len(events) : events[i].op.kind # "FT_TX"
    <2>1. 1 \in 1..Len(ops) /\ ops[1] = Dl(slotCounter) /\ Rank(ops[1], slotCounter) = 2
        BY <1>1, <1>4, <1>r, AroundKinds
    <2>2. ASSUME NEW k \in 1..Len(ops') PROVE ops'[k] = Ul(slotCounter)
        <3>1. k + 1 \in 1..Len(ops) /\ ops'[k] = ops[k + 1] /\ 1 < k + 1
            BY <1>1
        <3>2. Rank(ops[1], slotCounter) < Rank(ops[k + 1], slotCounter)
            BY <2>1, <3>1 DEF SlotInv, Run
        <3>3. Rank(ops[k + 1], slotCounter) > 2
            <4>1. Rank(ops[k + 1], slotCounter) \in 0..3
                BY <1>r, <3>1, AroundKinds
            <4> QED
                BY <2>1, <3>2, <4>1
        <3> QED
            BY <1>r, <3>1, <3>3, AroundKinds
    <2>3. ASSUME NEW i \in 1..Len(events), events[i].op.kind = "FT_TX" PROVE FALSE
        <3>1. ops[1] = Ul(slotCounter)
            BY <2>1, <2>3 DEF SlotInv
        <3> QED
            BY <1>4, <3>1, RankFacts
    <2> QED
        BY <2>1, <2>2, <2>3
<1>5. ASSUME NEW i \in 1..Len(events'), events'[i].op.kind = "FT_TX"
      PROVE  /\ events'[i].op = Dl(slotCounter)
             /\ \A k \in 1..Len(ops') : ops'[k] = Ul(slotCounter)
    <2>1. CASE i = Len(events) + 1
        BY <1>1, <1>4, <1>5, <2>1
    <2>2. CASE i # Len(events) + 1
        <3>1. i \in 1..Len(events) /\ events[i].op.kind = "FT_TX" /\ events'[i] = events[i]
            BY <1>1, <1>5, <2>2
        <3> QED
            BY <1>1, <3>1 DEF SlotInv
    <2> QED
        BY <2>1, <2>2
<1>6. ASSUME NEW i \in 1..Len(events'), NEW j \in 1..Len(events'),
             events'[i].op.kind = "FT_TX", events'[j].op.kind = "FT_TX"
      PROVE  i = j
    <2>1. CASE ops[1].kind = "FT_TX"
        <3>1. i \notin 1..Len(events) /\ j \notin 1..Len(events)
            BY <1>1, <1>4, <1>6, <2>1
        <3> QED
            BY <1>1, <3>1
    <2>2. CASE ops[1].kind # "FT_TX"
        <3>1. i # Len(events) + 1 /\ j # Len(events) + 1
            BY <1>1, <1>6, <2>2
        <3>2. i \in 1..Len(events) /\ j \in 1..Len(events)
            BY <1>1, <3>1
        <3>3. events[i].op.kind = "FT_TX" /\ events[j].op.kind = "FT_TX"
            BY <1>1, <1>6, <3>2
        <3> QED
            BY <3>2, <3>3 DEF SlotInv
    <2> QED
        BY <2>1, <2>2
<1> QED
    BY <1>2, <1>3, <1>5, <1>6 DEF SlotInv

LEMMA EmptyRun == \A s, n : Run(<<>>, s, n)
<1>1. <<>> \in Seq(Handle) /\ 1..Len(<<>>) = {}
    OBVIOUS
<1> QED
    BY <1>1 DEF Run

LEMMA SlotInvNext ==
    ASSUME SeveralSlots, slotCounter \in 1..Ops, QueuesOK, SlotInv, [Next]_vars
    PROVE  SlotInv'
<1>1. CASE FirstFrame
    <2>1. /\ ops = <<>> /\ events = <<>> /\ ScheduleFrame(slotCounter)
          /\ warmedUp' = TRUE /\ events' = events /\ slotCounter' = slotCounter
        BY <1>1 DEF FirstFrame, SlotInv
    <2>2. Run(ops', slotCounter', 4)
        BY <2>1, EmptyRun, ScheduleRun
    <2>3. 1..Len(events') = {}
        BY <2>1
    <2> QED
        BY <2>1, <2>2, <2>3 DEF SlotInv
<1>2. CASE MainTime \/ UNCHANGED vars
    BY <1>2 DEF MainTime, vars, SlotInv
<1> QED
    BY <1>1, <1>2, SlotInvComplete, SlotInvExecute DEF Next

\* There is a downlink to come.
DlLeft ==
    \/ \E i \in 1..Len(events) : events[i].op.kind = "FT_TX"
    \/ \E i \in 1..Len(ops) : ops[i].kind = "FT_TX"

\* Which events the faults explain.
DlSent == "dl_error" \notin Faults
ErrorsExplained ==
    \A i \in 1..Len(events) : events[i].op.kind = "FT_TX" /\ events[i].err => ~DlSent

LEMMA ErrorsNext ==
    ASSUME QueuesOK, ErrorsExplained, [Next]_vars
    PROVE  ErrorsExplained'
<1>1. CASE Complete
    <2>1. \A i \in 1..Len(events') : i + 1 \in 1..Len(events) /\ events'[i] = events[i + 1]
        BY <1>1, EventFacts
    <2> QED
        BY <2>1 DEF ErrorsExplained
<1>2. CASE Execute
    <2>1. /\ Len(events) \in Nat /\ Len(events') = Len(events) + 1
          /\ \A i \in 1..Len(events) : events'[i] = events[i]
          /\ events'[Len(events) + 1].op = ops[1]
          /\ events'[Len(events) + 1].err => ErrorOf(ops[1]) \in Faults
        BY <1>2, ExecuteFacts
    <2>2. ops[1].kind = "FT_TX" => ErrorOf(ops[1]) = "dl_error"
        BY DEF ErrorOf
    <2>3. ASSUME NEW i \in 1..Len(events'), events'[i].op.kind = "FT_TX", events'[i].err
          PROVE  ~DlSent
        <3>1. CASE i = Len(events) + 1
            BY <2>1, <2>2, <2>3, <3>1 DEF DlSent
        <3>2. CASE i # Len(events) + 1
            <4>1. i \in 1..Len(events)
                BY <2>1, <3>2
            <4> QED
                BY <2>1, <2>3, <4>1 DEF ErrorsExplained
        <3> QED
            BY <3>1, <3>2
    <2> QED
        BY <2>3 DEF ErrorsExplained
<1>3. CASE UNCHANGED events
    BY <1>3 DEF ErrorsExplained
<1> QED
    BY <1>1, <1>2, <1>3 DEF Next, FirstFrame, MainTime, vars

\* What the modem takes has a downlink in it.
LEMMA ScheduleDl ==
    ASSUME NothingRefused, QueuesOK, NEW s \in 1..Ops, ScheduleSlot(s) \/ ScheduleFrame(s)
    PROVE  \E i \in 1..Len(ops') : ops'[i].kind = "FT_TX"
<1>0. ops \in Seq(Handle) /\ Len(ops) \in Nat
    BY LenProperties DEF QueuesOK
<1>k. Dl(s).kind = "FT_TX" /\ Beacon \in Handle /\ Dl(s) \in Handle /\ Ul(s) \in Handle
    BY DEF Dl, Handle
<1>1. CASE ScheduleSlot(s)
    <2>1. ops' = ops \o <<Dl(s), Ul(s)>>
        BY <1>0, <1>1, ScheduleTakesAll
    <2>2. Len(ops) + 1 \in 1..Len(ops') /\ ops'[Len(ops) + 1] = Dl(s)
        BY <1>0, <1>k, <2>1
    <2> QED
        BY <1>k, <2>2
<1>2. CASE ScheduleFrame(s)
    <2>1. ops' = ops \o <<Beacon, Dl(s), Ul(s)>>
        BY <1>0, <1>2, ScheduleTakesAll
    <2>2. Len(ops) + 2 \in 1..Len(ops') /\ ops'[Len(ops) + 2] = Dl(s)
        BY <1>0, <1>k, <2>1
    <2> QED
        BY <1>k, <2>2
<1> QED
    BY <1>1, <1>2

LEMMA DlLeftNext ==
    ASSUME SeveralSlots, NothingRefused, DlSent, slotCounter \in 1..Ops, QueuesOK, ErrorsExplained,
           FlagsOK, warmedUp => DlLeft, [Next]_vars
    PROVE  warmedUp' => DlLeft'
<1>1. CASE FirstFrame
    <2>1. ScheduleFrame(slotCounter)
        BY <1>1 DEF FirstFrame
    <2> QED
        BY <2>1, ScheduleDl DEF DlLeft
<1>2. CASE Complete
    <2>1. UNCHANGED warmedUp
        BY <1>2 DEF Complete
    <2>2. CASE DlComplete
        <3>1. slotCounter' \in 1..Ops /\ (ScheduleSlot(slotCounter') \/ ScheduleFrame(slotCounter'))
            BY <2>2, DlCompleteFacts
        <3> QED
            BY <3>1, ScheduleDl DEF DlLeft
    <2>3. CASE ~(Head(events).op.kind = "FT_TX" /\ ~Head(events).err) /\ UNCHANGED ops
        <3>0. /\ Len(events) \in Nat /\ Len(events) >= 1 /\ Head(events) = events[1]
              /\ Len(events') = Len(events) - 1
              /\ \A i \in 1..Len(events') : i + 1 \in 1..Len(events) /\ events'[i] = events[i + 1]
            BY <1>2, EventFacts
        <3>1. events[1].op.kind # "FT_TX"
            <4>1. 1 \in 1..Len(events)
                BY <3>0
            <4> QED
                BY <2>3, <3>0, <4>1 DEF ErrorsExplained
        <3>2. ASSUME NEW i \in 1..Len(events), events[i].op.kind = "FT_TX" PROVE DlLeft'
            <4>1. i # 1
                BY <3>1, <3>2
            <4>2. i - 1 \in 1..Len(events') /\ (i - 1) + 1 = i
                BY <3>0, <4>1
            <4>3. events'[i - 1] = events[i]
                BY <3>0, <4>2
            <4> QED
                BY <3>2, <4>2, <4>3 DEF DlLeft
        <3>3. ASSUME NEW i \in 1..Len(ops), ops[i].kind = "FT_TX" PROVE DlLeft'
            BY <2>3, <3>3 DEF DlLeft
        <3> QED
            BY <2>1, <3>2, <3>3 DEF DlLeft
    <2> QED
        BY <1>2, <2>2, <2>3 DEF Complete
<1>3. CASE Execute
    <2>0. UNCHANGED warmedUp
        BY <1>3 DEF Execute
    <2>1. /\ Len(ops) \in Nat /\ Len(ops) >= 1 /\ Len(ops') = Len(ops) - 1
          /\ \A k \in 1..Len(ops') : k + 1 \in 1..Len(ops) /\ ops'[k] = ops[k + 1]
          /\ Len(events) \in Nat /\ Len(events') = Len(events) + 1
          /\ \A i \in 1..Len(events) : events'[i] = events[i]
          /\ events'[Len(events) + 1].op = ops[1]
        BY <1>3, ExecuteFacts
    <2>2. ASSUME NEW i \in 1..Len(events), events[i].op.kind = "FT_TX" PROVE DlLeft'
        <3>1. i \in 1..Len(events') /\ events'[i].op.kind = "FT_TX"
            BY <2>1, <2>2
        <3> QED
            BY <3>1 DEF DlLeft
    <2>3. ASSUME NEW i \in 1..Len(ops), ops[i].kind = "FT_TX" PROVE DlLeft'
        <3>1. CASE i = 1
            <4>1. Len(events) + 1 \in 1..Len(events') /\ events'[Len(events) + 1].op.kind = "FT_TX"
                BY <2>1, <2>3, <3>1
            <4> QED
                BY <4>1 DEF DlLeft
        <3>2. CASE i # 1
            <4>1. i - 1 \in 1..Len(ops') /\ (i - 1) + 1 = i
                BY <2>1, <3>2
            <4>2. ops'[i - 1].kind = "FT_TX"
                BY <2>1, <2>3, <4>1
            <4> QED
                BY <4>1, <4>2 DEF DlLeft
        <3> QED
            BY <3>1, <3>2
    <2> QED
        BY <2>0, <2>2, <2>3 DEF DlLeft
<1>4. CASE MainTime \/ UNCHANGED vars
    BY <1>4 DEF MainTime, vars, DlLeft
<1> QED
    BY <1>1, <1>2, <1>3, <1>4 DEF Next

-----------------------------------------------------------------------------
(* What the properties say of it.                                          *)

LEMMA PendingFacts ==
    ASSUME QueuesOK
    PROVE  /\ Len(events) \in Nat /\ Len(ops) \in Nat
           /\ Len(Pending) = Len(events) + Len(ops)
           /\ \A i \in 1..Len(events) : Pending[i] = events[i].op
           /\ \A i \in 1..Len(ops) : Pending[Len(events) + i] = ops[i]
<1> DEFINE handles == [i \in 1..Len(events) |-> events[i].op]
<1>1. /\ events \in Seq([op : Handle, err : BOOLEAN]) /\ ops \in Seq(Handle)
      /\ Len(events) \in Nat /\ Len(ops) \in Nat
    BY LenProperties DEF QueuesOK
<1>2. \A i \in 1..Len(events) : events[i] \in [op : Handle, err : BOOLEAN]
    BY <1>1, ElementOfSeq
<1>3. handles \in Seq(Handle) /\ Len(handles) = Len(events)
    <2>1. \A i \in 1..Len(events) : events[i].op \in Handle
        BY <1>2
    <2>2. handles \in [1..Len(events) -> Handle]
        BY <2>1
    <2>3. handles \in Seq(Handle)
        BY <1>1, <2>2, SeqDef
    <2>4. DOMAIN handles = 1..Len(events)
        OBVIOUS
    <2> QED
        BY <1>1, <2>3, <2>4, LenProperties
<1>4. \A i \in 1..Len(events) : handles[i] = events[i].op
    OBVIOUS
<1> HIDE DEF handles
<1>5. Pending = handles \o ops
    BY DEF Pending, handles
<1>6. /\ Len(handles \o ops) = Len(handles) + Len(ops)
      /\ \A i \in 1..Len(handles) + Len(ops) : (handles \o ops)[i]
            = IF i <= Len(handles) THEN handles[i] ELSE ops[i - Len(handles)]
    BY <1>1, <1>3, ConcatProperties
<1>7. \A i \in 1..Len(events) : (handles \o ops)[i] = events[i].op
    BY <1>1, <1>3, <1>4, <1>6
<1>8. \A i \in 1..Len(ops) : (handles \o ops)[Len(events) + i] = ops[i]
    <2>1. ASSUME NEW i \in 1..Len(ops) PROVE (handles \o ops)[Len(events) + i] = ops[i]
        <3>1. /\ Len(events) + i \in 1..Len(handles) + Len(ops)
              /\ ~(Len(events) + i <= Len(handles))
              /\ (Len(events) + i) - Len(handles) = i
            BY <1>1, <1>3
        <3> QED
            BY <1>6, <3>1
    <2> QED
        BY <2>1
<1> QED
    BY <1>1, <1>3, <1>5, <1>6, <1>7, <1>8

\* A downlink in what is pending is the only one, and the one of its slot.
LEMMA PendingDl ==
    ASSUME SeveralSlots, slotCounter \in 1..Ops, QueuesOK, SlotInv
    PROVE  /\ \A i \in 1..Len(Pending) : Pending[i].kind = "FT_TX" => Pending[i] = Dl(slotCounter)
           /\ \A i, j \in 1..Len(Pending) :
                 Pending[i].kind = "FT_TX" /\ Pending[j].kind = "FT_TX" => i = j
<1>1. /\ Len(events) \in Nat /\ Len(ops) \in Nat
      /\ Len(Pending) = Len(events) + Len(ops)
      /\ \A i \in 1..Len(events) : Pending[i] = events[i].op
      /\ \A i \in 1..Len(ops) : Pending[Len(events) + i] = ops[i]
    BY PendingFacts
<1>2. ASSUME NEW i \in 1..Len(Pending)
      PROVE  \/ i \in 1..Len(events) /\ Pending[i] = events[i].op
             \/ /\ i - Len(events) \in 1..Len(ops)
                /\ Pending[i] = ops[i - Len(events)]
    <2>1. CASE i <= Len(events)
        BY <1>1, <2>1
    <2>2. CASE i > Len(events)
        <3>1. i - Len(events) \in 1..Len(ops) /\ Len(events) + (i - Len(events)) = i
            BY <1>1, <2>2
        <3> QED
            BY <1>1, <3>1
    <2> QED
        BY <1>1, <2>1, <2>2
<1>3. \A k \in 1..Len(ops) : ops[k].kind = "FT_TX" => ops[k] = Dl(slotCounter)
    BY AroundKinds DEF SlotInv, Run
<1>4. \A k, l \in 1..Len(ops) : ops[k].kind = "FT_TX" /\ ops[l].kind = "FT_TX" => k = l
    <2>1. ASSUME NEW k \in 1..Len(ops), NEW l \in 1..Len(ops), k < l,
                 ops[k] = Dl(slotCounter), ops[l] = Dl(slotCounter)
          PROVE  FALSE
        <3>1. Rank(ops[k], slotCounter) < Rank(ops[l], slotCounter)
            BY <2>1 DEF SlotInv, Run
        <3>2. Rank(Dl(slotCounter), slotCounter) = 2
            BY RankFacts
        <3> QED
            BY <2>1, <3>1, <3>2
    <2> QED
        BY <1>1, <1>3, <2>1
<1>5. ASSUME NEW i \in 1..Len(events), NEW k \in 1..Len(ops),
             events[i].op.kind = "FT_TX", ops[k].kind = "FT_TX"
      PROVE  FALSE
    <2>1. ops[k] = Ul(slotCounter)
        BY <1>5 DEF SlotInv
    <2> QED
        BY <1>5, <2>1, RankFacts
<1>6. ASSUME NEW i \in 1..Len(Pending), Pending[i].kind = "FT_TX"
      PROVE  Pending[i] = Dl(slotCounter)
    BY <1>2, <1>3, <1>6 DEF SlotInv
<1>7. ASSUME NEW i \in 1..Len(Pending), NEW j \in 1..Len(Pending),
             Pending[i].kind = "FT_TX", Pending[j].kind = "FT_TX"
      PROVE  i = j
    <2>1. CASE i \in 1..Len(events) /\ Pending[i] = events[i].op
        <3>1. j \in 1..Len(events) /\ Pending[j] = events[j].op
            BY <1>2, <1>5, <1>7, <2>1
        <3> QED
            BY <1>7, <2>1, <3>1 DEF SlotInv
    <2>2. CASE i - Len(events) \in 1..Len(ops) /\ Pending[i] = ops[i - Len(events)]
        <3>1. j - Len(events) \in 1..Len(ops) /\ Pending[j] = ops[j - Len(events)]
            BY <1>2, <1>5, <1>7, <2>2
        <3>2. i - Len(events) = j - Len(events)
            BY <1>4, <1>7, <2>2, <3>1
        <3> QED
            BY <1>1, <3>2
    <2> QED
        BY <1>2, <2>1, <2>2
<1> QED
    BY <1>6, <1>7

LEMMA SlotsTold ==
    ASSUME SeveralSlots, slotCounter \in 1..Ops, QueuesOK, SlotInv
    PROVE  HandlesTellSlots
<1>1. \A i \in 1..Len(Pending) : Pending[i].kind = "FT_TX" => Pending[i].slot = slotCounter
    <2>1. Dl(slotCounter).slot = slotCounter
        BY DEF Dl
    <2> QED
        BY <2>1, PendingDl
<1>2. ASSUME NEW i \in 1..Len(ops), NEW j \in 1..Len(ops), ops[i] = ops[j] PROVE i = j
    <2>1. Rank(ops[i], slotCounter) \in Int
        BY DEF Rank
    <2>2. ~(i < j) /\ ~(j < i)
        BY <1>2, <2>1 DEF SlotInv, Run
    <2> QED
        BY <2>2
<1> QED
    BY <1>1, <1>2 DEF HandlesTellSlots

LEMMA DownlinkCount ==
    ASSUME SeveralSlots, slotCounter \in 1..Ops, QueuesOK, SlotInv, warmedUp => DlLeft
    PROVE  OneDownlink
<1> DEFINE found == {i \in 1..Len(Pending) : Pending[i].kind = "FT_TX"}
<1>1. /\ Len(events) \in Nat /\ Len(ops) \in Nat
      /\ Len(Pending) = Len(events) + Len(ops)
      /\ \A i \in 1..Len(events) : Pending[i] = events[i].op
      /\ \A i \in 1..Len(ops) : Pending[Len(events) + i] = ops[i]
    BY PendingFacts
<1>2. CASE warmedUp
    <2>1. \E i \in 1..Len(Pending) : Pending[i].kind = "FT_TX"
        <3>1. ASSUME NEW i \in 1..Len(events), events[i].op.kind = "FT_TX"
              PROVE  i \in 1..Len(Pending) /\ Pending[i].kind = "FT_TX"
            BY <1>1, <3>1
        <3>2. ASSUME NEW i \in 1..Len(ops), ops[i].kind = "FT_TX"
              PROVE  /\ Len(events) + i \in 1..Len(Pending)
                     /\ Pending[Len(events) + i].kind = "FT_TX"
            BY <1>1, <3>2
        <3> QED
            BY <1>2, <3>1, <3>2 DEF DlLeft
    <2>2. PICK i \in 1..Len(Pending) : Pending[i].kind = "FT_TX"
        BY <2>1
    <2>3. found = {i}
        BY <2>2, PendingDl
    <2>4. Cardinality(found) = 1
        BY <2>3, FS_Singleton
    <2> QED
        BY <1>2, <2>4 DEF OneDownlink
<1>3. CASE ~warmedUp
    <2>1. ops = <<>> /\ events = <<>>
        BY <1>3 DEF SlotInv
    <2>2. Len(Pending) = 0
        BY <1>1, <2>1
    <2>3. found = {}
        BY <2>2
    <2>4. Cardinality(found) = 0
        BY <2>3, FS_EmptySet
    <2> QED
        BY <1>3, <2>4 DEF OneDownlink
<1> QED
    BY <1>2, <1>3

-----------------------------------------------------------------------------
(* The chain of start-up.                                                  *)

\* Types: those of the start-up, and those of the handlers.
StartTypes ==
    /\ phase \in Chain /\ operation_sem \in 0..1
    /\ waiting \in BOOLEAN /\ exit \in BOOLEAN /\ latencyKnown \in BOOLEAN /\ unchecked \in BOOLEAN
    /\ mcs_max \in {-1, ModemMcs} /\ mcs \in Nat
    /\ unchecked \/ mcs + 1 \in DOMAIN mcsToBytesPerSlot
    /\ asked \subseteq Chain
    /\ radio \in {"off", "lib", "ready", "configured", "active"}
    /\ failed \subseteq Chain \X Failures
HandlerTypes ==
    IF phase = "loop" THEN TypeOK ELSE slotCounter = 0 /\ ops = <<>> /\ events = <<>>

LEMMA BootTypeSplit == BootTypeOK <=> StartTypes /\ HandlerTypes
BY DEF BootTypeOK, StartTypes, HandlerTypes

\* Nothing goes on before the loop.
Idle ==
    /\ warmedUp = FALSE /\ time_sem = 0 /\ looping = FALSE /\ timeAsked = FALSE
    /\ onAir = Ul(1)

\* A request is answered before the next one is made, and the semaphore is
\* only given to a thread that waits for it.
Waits ==
    /\ waiting => phase \notin Immediate \cup {"time", "loop"}
    /\ asked # {} => waiting /\ asked = {phase}
    /\ phase # "loop" /\ operation_sem = 1 => waiting /\ asked = {}

\* The radio is where the requests that were answered have brought it.
RadioAt == [lib |-> "off", handler |-> "lib", init |-> "lib", configure |-> "ready",
            latency |-> "configured", capability |-> "configured", activate |-> "configured",
            time |-> "active", loop |-> "active"]
Answered == waiting /\ asked = {}
RadioFollows ==
    /\ exit => Fatal
    /\ Fatal \/ radio = IF Answered /\ phase \notin Unchecked THEN RadioAt[After[phase]]
                        ELSE RadioAt[phase]

\* What the modem was asked for is known.
Knows ==
    /\ phase \in {"capability", "activate", "time", "loop"} \/ (phase = "latency" /\ Answered)
          => latencyKnown \/ failed # {}
    /\ phase \in {"activate", "time", "loop"} \/ (phase = "capability" /\ Answered)
          => mcs_max # -1 \/ failed # {}

StartInv == StartTypes /\ HandlerTypes /\ (phase # "loop" => Idle) /\ Waits /\ RadioFollows /\ Knows

LEMMA ChainFacts ==
    /\ Chain = {"lib", "handler", "init", "configure", "latency", "capability", "activate", "time",
                "loop"}
    /\ After["lib"] = "handler" /\ After["handler"] = "init" /\ After["init"] = "configure"
    /\ After["configure"] = "latency" /\ After["latency"] = "capability"
    /\ After["capability"] = "activate" /\ After["activate"] = "time" /\ After["time"] = "loop"
    /\ Immediate = {"lib", "handler"} /\ Unchecked = {"latency", "capability"}
BY DEF Chain, After, Immediate, Unchecked

LEMMA RadioFacts ==
    /\ RadioAt["lib"] = "off" /\ RadioAt["handler"] = "lib" /\ RadioAt["init"] = "lib"
    /\ RadioAt["configure"] = "ready" /\ RadioAt["latency"] = "configured"
    /\ RadioAt["capability"] = "configured" /\ RadioAt["activate"] = "configured"
    /\ RadioAt["time"] = "active" /\ RadioAt["loop"] = "active"
    /\ Becomes("lib") = "lib" /\ Becomes("handler") = radio /\ Becomes("init") = "ready"
    /\ Becomes("configure") = "configured" /\ Becomes("latency") = radio
    /\ Becomes("capability") = radio /\ Becomes("activate") = "active"
BY DEF RadioAt, Becomes

LEMMA FatalFacts ==
    /\ failed \subseteq failed' /\ Fatal => Fatal'
    /\ \A p : <<p, "refused">> \in failed' => Fatal'
    /\ \A p : <<p, "error">> \in failed' /\ p \notin Unchecked => Fatal'
    /\ Fatal => failed # {}
<1>1. ASSUME failed \subseteq failed', Fatal PROVE Fatal'
    BY <1>1 DEF Fatal
<1>2. ASSUME NEW p, <<p, "refused">> \in failed' PROVE Fatal'
    <2>1. <<p, "refused">> \notin Unchecked \X {"error"}
        OBVIOUS
    <2> QED
        BY <1>2, <2>1 DEF Fatal
<1>3. ASSUME NEW p, <<p, "error">> \in failed', p \notin Unchecked PROVE Fatal'
    <2>1. <<p, "error">> \notin Unchecked \X {"error"}
        BY <1>3
    <2> QED
        BY <1>3, <2>1 DEF Fatal
<1>4. Fatal => failed # {}
    BY DEF Fatal
<1> QED
    BY <1>1, <1>2, <1>3, <1>4

LEMMA StartInit == BootInit => StartInv
<1> SUFFICES ASSUME BootInit PROVE StartInv
    OBVIOUS
<1>1. StartTypes
    <2>1. phase \in Chain /\ asked \subseteq Chain
        BY ChainFacts DEF BootInit
    <2>2. mcs = 4 /\ DOMAIN mcsToBytesPerSlot = 1..5
        BY DEF BootInit, mcsToBytesPerSlot
    <2>3. mcs \in Nat /\ mcs + 1 \in DOMAIN mcsToBytesPerSlot
        BY <2>2
    <2>4. /\ waiting \in BOOLEAN /\ exit \in BOOLEAN /\ latencyKnown \in BOOLEAN
          /\ unchecked \in BOOLEAN
        BY DEF BootInit
    <2>5. /\ operation_sem \in 0..1 /\ mcs_max \in {-1, ModemMcs}
          /\ radio \in {"off", "lib", "ready", "configured", "active"}
          /\ failed \subseteq Chain \X Failures
        BY DEF BootInit
    <2> QED
        BY <2>1, <2>3, <2>4, <2>5 DEF StartTypes
<1>2. HandlerTypes /\ Idle
    BY DEF BootInit, HandlerTypes, Idle, ScheduleInit
<1>3. Waits
    BY DEF BootInit, Waits
<1>4. RadioFollows
    BY RadioFacts DEF BootInit, RadioFollows, Answered
<1>5. Knows
    BY DEF BootInit, Knows
<1> QED
    BY <1>1, <1>2, <1>3, <1>4, <1>5 DEF StartInv

LEMMA RequestKeeps ==
    ASSUME StartInv, MainRequest
    PROVE  StartInv'
<1>0. /\ phase \in Chain \ {"time", "loop"} /\ ~waiting /\ asked = {} /\ operation_sem = 0
      /\ StartTypes /\ Idle
    BY DEF MainRequest, StartInv, StartTypes, Waits
<1>1. /\ UNCHANGED <<vars, operation_sem, exit, latencyKnown, mcs_max, mcs, unchecked>>
    BY DEF MainRequest
<1>2. \/ RequestTaken(phase) /\ UNCHANGED failed
      \/ RequestRefused(phase) /\ UNCHANGED <<asked, radio>>
    BY DEF MainRequest
<1>3. CASE RequestTaken(phase) /\ UNCHANGED failed /\ phase \in Immediate
    <2>1. /\ radio' = Becomes(phase) /\ phase' = After[phase] /\ UNCHANGED <<asked, waiting>>
          /\ phase \in {"lib", "handler"}
        BY <1>3, ChainFacts DEF RequestTaken
    <2>2. phase' \in {"handler", "init"} /\ phase' \in Chain
        BY <2>1, ChainFacts
    <2>3. radio' \in {"off", "lib", "ready", "configured", "active"}
        BY <1>0, <2>1, RadioFacts DEF StartTypes
    <2>4. StartTypes'
        BY <1>0, <1>1, <1>3, <2>1, <2>2, <2>3 DEF StartTypes
    <2>5. Waits'
        BY <1>0, <1>1, <2>1, ChainFacts DEF Waits
    <2>6. Fatal \/ radio' = RadioAt[phase']
        BY <1>0, <2>1, ChainFacts, RadioFacts DEF StartInv, RadioFollows, Answered
    <2>7. RadioFollows'
        BY <1>0, <1>1, <1>3, <2>1, <2>6 DEF StartInv, RadioFollows, Answered, Fatal
    <2>8. Knows'
        BY <1>0, <2>1, <2>2 DEF Knows, Answered
    <2>9. HandlerTypes' /\ Idle'
        BY <1>0, <1>1, <2>2 DEF StartInv, HandlerTypes, Idle, vars
    <2> QED
        BY <2>4, <2>5, <2>7, <2>8, <2>9 DEF StartInv
<1>4. CASE RequestTaken(phase) /\ UNCHANGED failed /\ phase \notin Immediate
    <2>1. asked' = {phase} /\ waiting' = TRUE /\ UNCHANGED <<radio, phase>>
        BY <1>0, <1>4 DEF RequestTaken
    <2>2. asked' \subseteq Chain
        BY <1>0, <2>1
    <2>4. StartTypes'
        BY <1>0, <1>1, <1>4, <2>1, <2>2 DEF StartTypes
    <2>5. Waits'
        BY <1>0, <1>1, <1>4, <2>1 DEF Waits
    <2>7. RadioFollows'
        BY <1>0, <1>1, <1>4, <2>1 DEF StartInv, RadioFollows, Answered, Fatal
    <2>8. Knows'
        BY <1>0, <1>1, <1>4, <2>1 DEF StartInv, Knows, Answered
    <2>9. HandlerTypes' /\ Idle'
        BY <1>0, <1>1, <2>1 DEF StartInv, HandlerTypes, Idle, vars
    <2> QED
        BY <2>4, <2>5, <2>7, <2>8, <2>9 DEF StartInv
<1>5. CASE RequestRefused(phase) /\ UNCHANGED <<asked, radio>>
    <2>1. /\ failed' = failed \cup {<<phase, "refused">>}
          /\ \/ phase \in Unchecked /\ waiting' = TRUE /\ phase' = phase
             \/ phase' = "time" /\ waiting' = waiting
        BY <1>5 DEF RequestRefused
    <2>2. failed' \subseteq Chain \X Failures /\ failed' # {}
        <3>1. failed \subseteq Chain \X Failures /\ phase \in Chain /\ "refused" \in Failures
            BY <1>0 DEF StartTypes, Failures
        <3>2. <<phase, "refused">> \in Chain \X Failures
            BY <3>1
        <3> QED
            BY <2>1, <3>1, <3>2
    <2>3. phase' \in Chain /\ phase' # "loop" /\ waiting' \in BOOLEAN
        <3>1. waiting \in BOOLEAN /\ "time" \in Chain
            BY <1>0, ChainFacts DEF StartTypes
        <3>2. phase' \in Chain /\ phase' # "loop"
            BY <1>0, <2>1, <3>1
        <3>3. waiting' \in BOOLEAN
            BY <2>1, <3>1
        <3> QED
            BY <3>2, <3>3
    <2>4. StartTypes'
        BY <1>0, <1>1, <1>5, <2>2, <2>3 DEF StartTypes
    <2>5. Waits'
        BY <1>0, <1>1, <1>5, <2>1, ChainFacts DEF Waits
    <2>6. Fatal'
        BY <2>1, FatalFacts
    <2>7. RadioFollows' /\ Knows'
        BY <2>2, <2>6 DEF RadioFollows, Knows
    <2>9. HandlerTypes' /\ Idle'
        BY <1>0, <1>1, <2>3 DEF StartInv, HandlerTypes, Idle, vars
    <2> QED
        BY <2>4, <2>5, <2>7, <2>9 DEF StartInv
<1> QED
    BY <1>2, <1>3, <1>4, <1>5

LEMMA AnsweredKeeps ==
    ASSUME StartInv, MainAnswered
    PROVE  StartInv'
<1>0. /\ waiting /\ operation_sem = 1
      /\ phase \in Chain /\ phase \notin {"lib", "handler", "time", "loop"} /\ asked = {}
      /\ StartTypes /\ Idle
    BY ChainFacts DEF MainAnswered, StartInv, StartTypes, Waits
<1>1. /\ ~waiting' /\ waiting' \in BOOLEAN /\ operation_sem' = 0
      /\ UNCHANGED <<vars, exit, latencyKnown, mcs_max, mcs, asked, radio, failed, unchecked>>
      /\ phase' = IF exit /\ phase \notin Unchecked THEN "time" ELSE After[phase]
    BY DEF MainAnswered
<1>2. phase' \in Chain /\ phase' \in {"configure", "latency", "capability", "activate", "time"}
    BY <1>0, <1>1, ChainFacts
<1>3. StartTypes'
    BY <1>0, <1>1, <1>2 DEF StartTypes
<1>4. Waits'
    BY <1>0, <1>1 DEF Waits
<1>5. Fatal' <=> Fatal
    BY <1>1 DEF Fatal
<1>6. exit => Fatal
    BY DEF StartInv, RadioFollows
<1>7. Fatal \/ radio = RadioAt[phase']
    <2>1. CASE exit
        BY <1>6, <2>1
    <2>2. CASE ~exit
        <3>1. phase' = After[phase]
            BY <1>1, <2>2
        <3>2. Fatal \/ radio = IF phase \notin Unchecked THEN RadioAt[After[phase]] ELSE RadioAt[phase]
            BY <1>0 DEF StartInv, RadioFollows, Answered
        <3>3. phase \in Unchecked => RadioAt[phase] = RadioAt[After[phase]]
            BY ChainFacts, RadioFacts
        <3> QED
            BY <3>1, <3>2, <3>3
    <2> QED
        BY <2>1, <2>2
<1>8. RadioFollows'
    BY <1>1, <1>5, <1>6, <1>7 DEF RadioFollows, Answered
<1>9. Knows'
    <2>1. CASE exit
        BY <1>1, <1>6, <2>1, FatalFacts DEF Knows
    <2>2. CASE ~exit
        <3>1. phase' = After[phase] /\ ~Answered' /\ Answered
            BY <1>0, <1>1, <2>2 DEF Answered
        <3>2. /\ phase' \in {"capability", "activate", "time", "loop"}
                    => phase \in {"latency", "capability", "activate"}
              /\ phase' \in {"activate", "time", "loop"} => phase \in {"capability", "activate"}
            BY <1>0, <3>1, ChainFacts
        <3> QED
            BY <1>1, <3>1, <3>2 DEF StartInv, Knows
    <2> QED
        BY <2>1, <2>2
<1>10. HandlerTypes' /\ Idle'
    BY <1>0, <1>1, <1>2 DEF StartInv, HandlerTypes, Idle, vars
<1> QED
    BY <1>3, <1>4, <1>8, <1>9, <1>10 DEF StartInv

LEMMA AskTimeKeeps ==
    ASSUME StartInv, MainAsksTime
    PROVE  StartInv'
<1>0. /\ phase = "time" /\ ~waiting /\ asked = {} /\ StartTypes /\ Idle
      /\ slotCounter = 0 /\ ops = <<>> /\ events = <<>>
    BY DEF MainAsksTime, StartInv, StartTypes, Waits, HandlerTypes
<1>1. /\ phase' = "loop" /\ slotCounter' = Ops
      /\ UNCHANGED <<warmedUp, time_sem, looping, ops, events, onAir, waiting, operation_sem,
                     exit, latencyKnown, mcs_max, mcs, asked, radio, unchecked>>
      /\ \/ timeAsked' = TRUE /\ failed' = failed
         \/ timeAsked' = timeAsked /\ failed' = failed \cup {<<"time", "refused">>}
    BY DEF MainAsksTime
<1>2. failed' \subseteq Chain \X Failures /\ failed \subseteq failed'
    <2>1. failed \subseteq Chain \X Failures /\ "time" \in Chain /\ "refused" \in Failures
        BY <1>0, ChainFacts DEF StartTypes, Failures
    <2>2. <<"time", "refused">> \in Chain \X Failures
        BY <2>1
    <2> QED
        BY <1>1, <2>1, <2>2
<1>3. StartTypes'
    <2>1. phase' \in Chain
        BY <1>1, ChainFacts
    <2> QED
        BY <1>0, <1>1, <1>2, <2>1 DEF StartTypes
<1>4. HandlerTypes'
    <2>1. slotCounter' \in 1..Ops
        BY <1>1, FtLoopAssumption
    <2>2. FlagsOK'
        <3>1. warmedUp' \in BOOLEAN /\ looping' \in BOOLEAN /\ timeAsked' \in BOOLEAN
            BY <1>0, <1>1 DEF Idle
        <3>2. time_sem' \in 0..1
            BY <1>0, <1>1 DEF Idle
        <3> QED
            BY <3>1, <3>2 DEF FlagsOK
    <2>3. QueuesOK'
        <3>1. Ul(1) \in Handle
            BY FtLoopAssumption DEF Handle
        <3>2. Len(<<>>) <= MaxEvents /\ <<>> \in Seq([op : Handle, err : BOOLEAN])
              /\ <<>> \in Seq(Handle)
            BY FtLoopAssumption
        <3> QED
            BY <1>0, <1>1, <3>1, <3>2 DEF Idle, QueuesOK
    <2> QED
        BY <1>1, <2>1, <2>2, <2>3, TypeJoin DEF HandlerTypes
<1>5. Waits'
    BY <1>0, <1>1 DEF Waits
<1>6. Fatal => Fatal'
    BY <1>2, FatalFacts
<1>7. RadioFollows'
    <2>1. Fatal \/ radio = "active"
        BY <1>0, RadioFacts DEF StartInv, RadioFollows, Answered
    <2>2. exit => Fatal
        BY DEF StartInv, RadioFollows
    <2> QED
        BY <1>0, <1>1, <1>6, <2>1, <2>2, RadioFacts DEF RadioFollows, Answered
<1>8. Knows'
    <2>1. (latencyKnown \/ failed # {}) /\ (mcs_max # -1 \/ failed # {})
        BY <1>0 DEF StartInv, Knows
    <2> QED
        BY <1>1, <1>2, <2>1 DEF Knows
<1> QED
    BY <1>1, <1>3, <1>4, <1>5, <1>7, <1>8 DEF StartInv

LEMMA AnswerKeeps ==
    ASSUME StartInv, RequestAnswered
    PROVE  StartInv'
<1>1. PICK p \in asked : asked' = asked \ {p} /\ (AnswerGood(p) \/ AnswerError(p))
    BY DEF RequestAnswered
<1>0. /\ waiting /\ asked = {phase} /\ p = phase /\ StartTypes /\ Idle
      /\ phase \in Chain /\ phase \notin {"lib", "handler", "time", "loop"}
    BY <1>1, ChainFacts DEF StartInv, StartTypes, Waits
<1>2. asked' = {} /\ UNCHANGED <<vars, phase, waiting, mcs, unchecked>>
    BY <1>0, <1>1 DEF RequestAnswered
<1>3. HandlerTypes' /\ Idle'
    BY <1>0, <1>2 DEF StartInv, HandlerTypes, Idle, vars
<1>4. Waits'
    BY <1>0, <1>2, ChainFacts DEF Waits
<1>5. CASE AnswerGood(phase)
    <2>1. /\ radio' = Becomes(phase) /\ operation_sem' = 1
          /\ latencyKnown' = (latencyKnown \/ phase = "latency")
          /\ mcs_max' = IF phase = "capability" THEN ModemMcs ELSE mcs_max
          /\ UNCHANGED <<exit, failed>>
        BY <1>5 DEF AnswerGood
    <2>2. StartTypes'
        <3>1. radio' \in {"off", "lib", "ready", "configured", "active"}
            BY <1>0, <2>1, ChainFacts, RadioFacts DEF StartTypes
        <3>2. latencyKnown' \in BOOLEAN
            BY <2>1
        <3>3. mcs_max' \in {-1, ModemMcs}
            BY <1>0, <2>1 DEF StartTypes
        <3>4. asked' \subseteq Chain /\ operation_sem' \in 0..1
            BY <1>2, <2>1
        <3> QED
            BY <1>0, <1>2, <2>1, <3>1, <3>2, <3>3, <3>4 DEF StartTypes
    <2>3. Fatal' <=> Fatal
        BY <2>1 DEF Fatal
    <2>4. Fatal \/ radio = RadioAt[phase]
        BY <1>0 DEF StartInv, RadioFollows, Answered
    <2>5. /\ phase \notin Unchecked => Becomes(phase) = RadioAt[After[phase]]
          /\ phase \in Unchecked => Becomes(phase) = radio
        BY <1>0, ChainFacts, RadioFacts
    <2>6. RadioFollows'
        BY <1>0, <1>2, <2>1, <2>3, <2>4, <2>5 DEF StartInv, RadioFollows, Answered
    <2>7. Knows'
        <3>1. ModemMcs # -1
            BY PhyMainAssumption
        <3> QED
            BY <1>0, <1>2, <2>1, <3>1 DEF StartInv, Knows
    <2> QED
        BY <1>2, <1>3, <1>4, <2>2, <2>6, <2>7 DEF StartInv
<1>6. CASE AnswerError(phase)
    <2>1. /\ failed' = failed \cup {<<phase, "error">>}
          /\ exit' = (exit \/ phase \in {"init", "activate"})
          /\ operation_sem' = IF phase \in Unchecked THEN 1 ELSE operation_sem
          /\ UNCHANGED <<radio, latencyKnown, mcs_max>>
        BY <1>6 DEF AnswerError
    <2>2. failed' \subseteq Chain \X Failures /\ failed \subseteq failed' /\ failed' # {}
        <3>1. failed \subseteq Chain \X Failures /\ "error" \in Failures
            BY <1>0 DEF StartTypes, Failures
        <3>2. <<phase, "error">> \in Chain \X Failures
            BY <1>0, <3>1
        <3> QED
            BY <2>1, <3>1, <3>2
    <2>3. StartTypes'
        <3>1. exit' \in BOOLEAN
            BY <2>1
        <3>2. operation_sem' \in 0..1
            BY <1>0, <2>1 DEF StartTypes
        <3>3. asked' \subseteq Chain
            BY <1>2
        <3> QED
            BY <1>0, <1>2, <2>1, <2>2, <3>1, <3>2, <3>3 DEF StartTypes
    <2>4. Fatal => Fatal'
        BY <2>2, FatalFacts
    <2>5. phase \notin Unchecked => Fatal'
        BY <2>1, FatalFacts
    <2>6. RadioFollows'
        <3>1. CASE phase \notin Unchecked
            BY <2>5, <3>1 DEF RadioFollows
        <3>2. CASE phase \in Unchecked
            <4>1. exit' => Fatal'
                <5>1. phase \notin {"init", "activate"}
                    BY <3>2, ChainFacts
                <5>2. exit => Fatal
                    BY DEF StartInv, RadioFollows
                <5> QED
                    BY <2>1, <2>4, <5>1, <5>2
            <4>2. Fatal \/ radio = RadioAt[phase]
                BY <1>0 DEF StartInv, RadioFollows, Answered
            <4> QED
                BY <1>2, <2>1, <2>4, <3>2, <4>1, <4>2 DEF RadioFollows
        <3> QED
            BY <3>1, <3>2
    <2>7. Knows'
        BY <2>2 DEF Knows
    <2> QED
        BY <1>2, <1>3, <1>4, <2>3, <2>6, <2>7 DEF StartInv
<1> QED
    BY <1>0, <1>1, <1>5, <1>6

LEMMA ShellKeeps ==
    ASSUME StartInv, cmd_bridge_mcs
    PROVE  StartInv'
<1>1. /\ UNCHANGED <<vars, phase, waiting, operation_sem, exit, latencyKnown, mcs_max, asked, radio,
                     failed>>
      /\ unchecked' = (unchecked \/ mcs_max = -1)
    BY DEF cmd_bridge_mcs
<1>2. PICK n \in Typed : (mcs_max = -1 \/ n <= mcs_max) /\ mcs' = n
    BY DEF cmd_bridge_mcs
<1>3. StartTypes /\ n \in Nat /\ ModemMcs \in 0..4 /\ DOMAIN mcsToBytesPerSlot = 1..5
    <2>1. Len(mcsToBytesPerSlot) = 5 /\ DOMAIN mcsToBytesPerSlot = 1..5
        BY DEF mcsToBytesPerSlot
    <2> QED
        BY <2>1, PhyMainAssumption DEF StartInv
<1>4. mcs' \in Nat /\ (unchecked' \/ mcs' + 1 \in DOMAIN mcsToBytesPerSlot)
    <2>1. CASE mcs_max = -1
        BY <1>1, <1>2, <1>3, <2>1
    <2>2. CASE mcs_max # -1
        <3>1. mcs_max = ModemMcs
            BY <1>3, <2>2 DEF StartTypes
        <3>2. n + 1 \in 1..5
            BY <1>2, <1>3, <2>2, <3>1
        <3> QED
            BY <1>2, <1>3, <3>2
    <2> QED
        BY <2>1, <2>2
<1>5. unchecked' \in BOOLEAN
    BY <1>1
<1>6. StartTypes'
    BY <1>1, <1>3, <1>4, <1>5 DEF StartTypes
<1>7. HandlerTypes' /\ (phase' # "loop" => Idle')
    <2>1. TypeOK <=> TypeOK'
        BY <1>1 DEF TypeOK, vars
    <2> QED
        BY <1>1, <2>1 DEF StartInv, HandlerTypes, Idle, vars
<1>8. Waits' /\ RadioFollows' /\ Knows'
    BY <1>1 DEF StartInv, Waits, RadioFollows, Answered, Fatal, Knows
<1> QED
    BY <1>6, <1>7, <1>8 DEF StartInv

\* A step of the handlers or of the main loop, and one that comes too early.
LEMMA LoopKeeps ==
    ASSUME StartInv, TimeTooEarly \/ BootFirstFrame \/ BootComplete \/ BootMainTime \/ BootExecute
    PROVE  /\ StartInv' /\ phase = "loop" /\ phase' = "loop" /\ UNCHANGED failed
           /\ TimeTooEarly \/ Next
<1>1. phase = "loop"
    <2>1. phase # "loop" => Idle /\ ops = <<>> /\ events = <<>>
        BY DEF StartInv, HandlerTypes
    <2>2. timeAsked \/ events # <<>> \/ time_sem = 1 \/ ops # <<>>
        BY DEF TimeTooEarly, BootFirstFrame, FirstFrame, BootComplete, Complete, BootMainTime,
               MainTime, BootExecute, Execute
    <2> QED
        BY <2>1, <2>2 DEF Idle
<1>2. /\ UNCHANGED <<phase, waiting, exit, latencyKnown, mcs_max, mcs, asked, radio, failed,
                     unchecked>>
      /\ operation_sem' \in {operation_sem, 1}
    BY DEF TimeTooEarly, BootFirstFrame, BootComplete, BootMainTime, BootExecute, bootVars
<1>3. TimeTooEarly \/ Next
    BY DEF BootFirstFrame, BootComplete, BootMainTime, BootExecute, Next
<1>4. TypeOK'
    <2>1. TypeOK
        BY <1>1 DEF StartInv, HandlerTypes
    <2>2. CASE TimeTooEarly
        <3>1. slotCounter \in 1..Ops /\ FlagsOK /\ QueuesOK
            BY <2>1, TypeSplit
        <3>2. /\ warmedUp' = TRUE /\ timeAsked' = FALSE /\ time_sem' = 1
              /\ UNCHANGED <<slotCounter, looping, ops, events, onAir>>
            BY <2>2 DEF TimeTooEarly
        <3>3. FlagsOK'
            <4>1. /\ warmedUp' \in BOOLEAN /\ timeAsked' \in BOOLEAN
                  /\ UNCHANGED looping
                BY <3>2
            <4>2. time_sem' \in 0..1
                BY <3>2
            <4>3. looping' \in BOOLEAN
                BY <3>1, <4>1 DEF FlagsOK
            <4> QED
                BY <4>1, <4>2, <4>3 DEF FlagsOK
        <3>4. slotCounter' \in 1..Ops /\ QueuesOK'
            BY <3>1, <3>2 DEF QueuesOK
        <3> QED
            BY <3>3, <3>4, TypeJoin
    <2>3. CASE Next
        BY <2>1, <2>3, TypeNext
    <2> QED
        BY <1>3, <2>2, <2>3
<1>5. StartTypes'
    <2>1. operation_sem' \in 0..1
        BY <1>2 DEF StartInv, StartTypes
    <2> QED
        BY <1>2, <2>1 DEF StartInv, StartTypes
<1>6. HandlerTypes' /\ phase' = "loop"
    BY <1>1, <1>2, <1>4 DEF HandlerTypes
<1>7. Waits' /\ RadioFollows' /\ Knows'
    BY <1>1, <1>2 DEF StartInv, Waits, RadioFollows, Answered, Fatal, Knows
<1> QED
    BY <1>1, <1>2, <1>3, <1>5, <1>6, <1>7 DEF StartInv

LEMMA StartNext == StartInv /\ [BootNext]_allVars => StartInv'
<1>1. ASSUME StartInv, UNCHANGED allVars PROVE StartInv'
    <2>1. TypeOK <=> TypeOK'
        BY <1>1 DEF TypeOK, vars, allVars
    <2> QED
        BY <1>1, <2>1 DEF StartInv, StartTypes, HandlerTypes, Idle, Waits, RadioFollows, Answered,
                          Fatal, Knows, allVars, vars, bootVars
<1> QED
    BY <1>1, RequestKeeps, AnsweredKeeps, AskTimeKeeps, AnswerKeeps, ShellKeeps, LoopKeeps
       DEF BootNext

\* Every variable keeps its type, whatever fails and is typed; the MCS stays
\* in the table once the modem's limit is known (cmd_bridge_mcs, on_capability_get).
THEOREM StartUpTypes == BootSpec => []BootTypeOK
<1>1. StartInv => BootTypeOK
    BY BootTypeSplit DEF StartInv
<1> QED
    BY <1>1, StartInit, StartNext, PTL DEF BootSpec

LEMMA ReadyByThen == StartInv => RadioReady
<1> SUFFICES ASSUME StartInv, warmedUp PROVE /\ asked = {}
                                             /\ Fatal \/ radio = "active"
                                             /\ latencyKnown \/ failed # {}
                                             /\ mcs_max # -1 \/ failed # {}
    BY DEF RadioReady
<1>1. phase = "loop"
    BY DEF StartInv, Idle
<1>2. ~waiting /\ asked = {}
    BY <1>1 DEF StartInv, Waits
<1>3. Fatal \/ radio = "active"
    BY <1>1, <1>2, RadioFacts DEF StartInv, RadioFollows, Answered
<1>4. (latencyKnown \/ failed # {}) /\ (mcs_max # -1 \/ failed # {})
    BY <1>1 DEF StartInv, Knows
<1> QED
    BY <1>2, <1>3, <1>4

\* The waits of DectPhy_Init are matched: the first frame is scheduled on an
\* active radio with all answers in, unless a failure is to blame.
THEOREM StartedInOrder == BootSpec => []RadioReady
BY StartInit, StartNext, ReadyByThen, PTL DEF BootSpec

-----------------------------------------------------------------------------
(* From power-on, the downlink to come.                                    *)

SlotsFromPowerOn == phase = "loop" => SlotInv
DlFromPowerOn == phase = "loop" => ErrorsExplained /\ (Fatal \/ (warmedUp => DlLeft))

LEMMA PowerOnSlots ==
    ASSUME SeveralSlots, StartInv, SlotsFromPowerOn, [BootNext]_allVars
    PROVE  SlotsFromPowerOn'
<1>1. CASE MainRequest \/ MainAnswered
    <2>1. phase' # "loop"
        BY <1>1, ChainFacts DEF MainRequest, RequestTaken, RequestRefused, MainAnswered, StartInv,
                                StartTypes, Waits
    <2> QED
        BY <2>1 DEF SlotsFromPowerOn
<1>2. CASE MainAsksTime
    <2>1. ops' = <<>> /\ events' = <<>>
        BY <1>2 DEF MainAsksTime, StartInv, HandlerTypes
    <2>2. Run(ops', slotCounter', 4) /\ 1..Len(events') = {}
        BY <2>1, EmptyRun
    <2>3. SlotInv'
        BY <2>1, <2>2 DEF SlotInv
    <2> QED
        BY <2>3 DEF SlotsFromPowerOn
<1>3. CASE RequestAnswered \/ cmd_bridge_mcs \/ UNCHANGED allVars
    <2>1. UNCHANGED <<vars, phase>>
        BY <1>3 DEF RequestAnswered, cmd_bridge_mcs, allVars, bootVars
    <2> QED
        BY <2>1 DEF SlotsFromPowerOn, SlotInv, vars
<1>4. CASE TimeTooEarly \/ BootFirstFrame \/ BootComplete \/ BootMainTime \/ BootExecute
    <2>1. phase = "loop" /\ phase' = "loop" /\ (TimeTooEarly \/ Next)
        BY <1>4, LoopKeeps
    <2>2. SlotInv /\ slotCounter \in 1..Ops /\ QueuesOK
        BY <2>1, TypeSplit DEF SlotsFromPowerOn, StartInv, HandlerTypes
    <2>3. CASE TimeTooEarly
        BY <2>2, <2>3 DEF TimeTooEarly, SlotInv, SlotsFromPowerOn
    <2>4. CASE Next
        BY <2>2, <2>4, SlotInvNext DEF SlotsFromPowerOn
    <2> QED
        BY <2>1, <2>3, <2>4
<1> QED
    BY <1>1, <1>2, <1>3, <1>4 DEF BootNext

LEMMA PowerOnDl ==
    ASSUME SeveralSlots, NothingRefused, DlSent, StartInv, DlFromPowerOn, [BootNext]_allVars
    PROVE  DlFromPowerOn'
<1>1. CASE MainRequest \/ MainAnswered
    <2>1. phase' # "loop"
        BY <1>1, ChainFacts DEF MainRequest, RequestTaken, RequestRefused, MainAnswered, StartInv,
                                StartTypes, Waits
    <2> QED
        BY <2>1 DEF DlFromPowerOn
<1>2. CASE MainAsksTime
    <2>1. events' = <<>> /\ ~warmedUp'
        BY <1>2 DEF MainAsksTime, StartInv, HandlerTypes, Idle
    <2>2. 1..Len(events') = {}
        BY <2>1
    <2> QED
        BY <2>1, <2>2 DEF DlFromPowerOn, ErrorsExplained
<1>3. CASE RequestAnswered \/ cmd_bridge_mcs \/ UNCHANGED allVars
    <2>1. UNCHANGED <<vars, phase>> /\ failed \subseteq failed'
        BY <1>3 DEF RequestAnswered, AnswerGood, AnswerError, cmd_bridge_mcs, allVars, bootVars
    <2>2. Fatal => Fatal'
        BY <2>1, FatalFacts
    <2> QED
        BY <2>1, <2>2 DEF DlFromPowerOn, ErrorsExplained, DlLeft, vars
<1>4. CASE TimeTooEarly \/ BootFirstFrame \/ BootComplete \/ BootMainTime \/ BootExecute
    <2>1. phase = "loop" /\ phase' = "loop" /\ UNCHANGED failed /\ (TimeTooEarly \/ Next)
        BY <1>4, LoopKeeps
    <2>2. slotCounter \in 1..Ops /\ FlagsOK /\ QueuesOK
        BY <2>1, TypeSplit DEF StartInv, HandlerTypes
    <2>3. ErrorsExplained /\ (Fatal \/ (warmedUp => DlLeft))
        BY <2>1 DEF DlFromPowerOn
    <2>4. Fatal <=> Fatal'
        BY <2>1 DEF Fatal
    <2>5. CASE TimeTooEarly
        <3>1. radio # "active" /\ UNCHANGED events
            BY <2>5 DEF TimeTooEarly
        <3>2. Fatal
            <4>1. ~waiting
                BY <2>1 DEF StartInv, Waits
            <4> QED
                BY <2>1, <3>1, <4>1, RadioFacts DEF StartInv, RadioFollows, Answered
        <3> QED
            BY <2>3, <2>4, <3>1, <3>2 DEF DlFromPowerOn, ErrorsExplained
    <2>6. CASE Next
        <3>1. ErrorsExplained'
            BY <2>2, <2>3, <2>6, ErrorsNext
        <3>2. (warmedUp => DlLeft) => (warmedUp' => DlLeft')
            BY <2>2, <2>3, <2>6, DlLeftNext
        <3> QED
            BY <2>3, <2>4, <3>1, <3>2 DEF DlFromPowerOn
    <2> QED
        BY <2>1, <2>5, <2>6
<1> QED
    BY <1>1, <1>2, <1>3, <1>4 DEF BootNext

LEMMA PowerOnInit == BootInit => SlotsFromPowerOn /\ DlFromPowerOn
BY DEF BootInit, SlotsFromPowerOn, DlFromPowerOn

LEMMA NothingPending ==
    ASSUME StartInv, phase # "loop"
    PROVE  OneDownlink /\ HandlesTellSlots
<1>1. ops = <<>> /\ events = <<>> /\ warmedUp = FALSE
    BY DEF StartInv, HandlerTypes, Idle
<1>2. 1..Len(Pending) = {} /\ 1..Len(ops) = {}
    <2>1. Pending = [i \in {} |-> events[i].op] \o <<>>
        <3>1. 1..Len(events) = {}
            BY <1>1
        <3> QED
            BY <1>1, <3>1 DEF Pending
    <2>2. [i \in {} |-> events[i].op] = <<>>
        OBVIOUS
    <2>3. <<>> \o <<>> = <<>>
        <3>1. <<>> \in Seq(Handle)
            OBVIOUS
        <3> QED
            BY <3>1, ConcatEmptySeq
    <2> QED
        BY <1>1, <2>1, <2>2, <2>3
<1>3. {i \in 1..Len(Pending) : Pending[i].kind = "FT_TX"} = {}
    BY <1>2
<1>4. OneDownlink
    BY <1>1, <1>3, FS_EmptySet DEF OneDownlink
<1> QED
    BY <1>2, <1>4 DEF HandlesTellSlots

\* The handle of a downlink tells its slot, and the modem never has two
\* operations of one handle, whatever is refused or fails, if a frame has more
\* than one slot (mock_complete of ft.c).
THEOREM HandlesTold == SeveralSlots => (BootSpec => []HandlesTellSlots)
<1> SUFFICES ASSUME SeveralSlots PROVE BootSpec => []HandlesTellSlots
    OBVIOUS
<1>1. StartInv /\ SlotsFromPowerOn => HandlesTellSlots
    <2>1. phase = "loop" /\ StartInv => slotCounter \in 1..Ops /\ QueuesOK
        BY TypeSplit DEF StartInv, HandlerTypes
    <2> QED
        BY <2>1, NothingPending, SlotsTold DEF SlotsFromPowerOn
<1>2. StartInv /\ SlotsFromPowerOn /\ [BootNext]_allVars => StartInv' /\ SlotsFromPowerOn'
    BY StartNext, PowerOnSlots
<1> QED
    BY <1>1, <1>2, StartInit, PowerOnInit, PTL DEF BootSpec

\* Exactly one downlink is to come that makes the frames go on, unless a fatal
\* failure of the start-up is to blame, as long as the modem refuses none of
\* the FT's operations and sends every downlink (mock_complete of ft.c).
THEOREM DownlinkKept ==
    SeveralSlots /\ NothingRefused /\ DlSent => (BootSpec => []DownlinkToCome)
<1> SUFFICES ASSUME SeveralSlots, NothingRefused, DlSent PROVE BootSpec => []DownlinkToCome
    OBVIOUS
<1> DEFINE I == StartInv /\ SlotsFromPowerOn /\ DlFromPowerOn
<1>1. I => DownlinkToCome
    <2>1. phase = "loop" /\ StartInv => slotCounter \in 1..Ops /\ QueuesOK
        BY TypeSplit DEF StartInv, HandlerTypes
    <2> QED
        BY <2>1, NothingPending, SlotsTold, DownlinkCount
           DEF SlotsFromPowerOn, DlFromPowerOn, DownlinkToCome
<1>2. BootInit => I
    BY StartInit, PowerOnInit
<1>3. I /\ [BootNext]_allVars => I'
    BY StartNext, PowerOnSlots, PowerOnDl
<1> QED
    BY <1>1, <1>2, <1>3, PTL DEF BootSpec
=============================================================================
