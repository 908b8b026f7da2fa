---------------------------- MODULE MacLink_proofs ----------------------------
(***************************************************************************)
(* Proofs about MacLink.  For every script of commands, any faults and any *)
(* depth of the queue: types, and that the mutex is given back.  For the   *)
(* link of a PT that is started by one command: one association at a time. *)
(***************************************************************************)
EXTENDS MacLink, SequenceTheorems, TLAPS

-----------------------------------------------------------------------------
(* Types.                                                                  *)

Flags == {ft_post_scan, pt_associated, pt_scan_in_progress, pt_association_pending,
          pt_pending_subscribe, period_known, in_table, active, on_channel, carrier, ch}
StateType ==
    /\ current_mode \in {"IDLE", "FT", "PT"} /\ Flags \subseteq BOOLEAN
    /\ pt_parent_long_rd_id \in 0..1
    /\ pt_association_retries \in 0..MaxRetries - 1 /\ pt_recovery_attempts \in 0..5
    /\ works \subseteq Works /\ app_mutex \in {"free", "shell"}
QueueType == app_evt_msgq \in Seq(Event) /\ Len(app_evt_msgq) <= QueueDepth
WaitType ==
    /\ current_wait \in Reasons /\ op_sem \in 0..1
    /\ wait_status \in {"ok", "error", "EINPROGRESS"}
ModemType ==
    /\ callback \in {"idle", "rx_failure", "release"} /\ asked \in Seq(WaitOps)
    /\ scan \in {"off", "on", "heard", "elsewhere"} /\ subscription \in {"off", "asked", "on"}
    /\ link \in {"off", "asked", "on", "releasing"}
BoundType == commands \in Seq(CommandNames) /\ faults \in 0..MaxFaults

\* A thread that waits is at the operation it waits for.
ThreadType ==
    /\ todo \in [Threads -> Seq(Step)] /\ waiting \subseteq Threads
    /\ \A t \in waiting : todo[t] # <<>> /\ Head(todo[t]).do \in WaitOps

TypeInv == StateType /\ QueueType /\ WaitType /\ ModemType /\ BoundType /\ ThreadType

LEMMA TypeSplit == TypeInv => TypeOK
BY DEF TypeInv, StateType, QueueType, WaitType, ModemType, BoundType, ThreadType, Flags, TypeOK

-----------------------------------------------------------------------------
(* Steps and lists of steps.                                               *)

LEMMA OpNames ==
    /\ WaitOps = {"deactivate", "activate", "configure", "cluster_configure", "network_beacon",
                  "rssi_scan", "stop_scan"}
    /\ \A op \in WaitOps : WaitReason[op] \in Reasons /\ WaitReason[op] # "NONE"
    /\ "NONE" \in Reasons
BY DEF WaitOps, WaitReason, Reasons

LEMMA StepFacts ==
    /\ \A d \in WaitOps \cup OtherSteps : Do(d) \in Step /\ Do(d).do = d
    /\ \A d \in WaitOps \cup OtherSteps, h \in Handlers :
          Try(d, h) \in Step /\ Try(d, h).do = d
    /\ {"return", "unlock", "recover_later", "pt_known"} \subseteq Handlers
    /\ \A h \in Handlers : Handler(h) \in Seq(Step)
    /\ \A s \in Step : Handler(s.orElse) \in Seq(Step)
<1>0. {"return", "unlock", "recover_later", "pt_known"} \subseteq Handlers
    BY DEF Handlers
<1>1. \A d \in WaitOps \cup OtherSteps : Do(d) \in Step /\ Do(d).do = d
    BY <1>0 DEF Do, Step
<1>2. \A d \in WaitOps \cup OtherSteps, h \in Handlers :
          Try(d, h) \in Step /\ Try(d, h).do = d
    BY DEF Try, Step
<1>3. \A h \in Handlers : Handler(h) \in Seq(Step)
    <2>1. /\ Do("pt_known") \in Step /\ Do("pt_subscribe") \in Step
          /\ Do("unlock") \in Step /\ Do("recover_later") \in Step
        BY <1>1 DEF OtherSteps
    <2> QED
        BY <2>1 DEF Handler, Handlers
<1>4. \A s \in Step : s.orElse \in Handlers
    BY DEF Step
<1> QED
    BY <1>0, <1>1, <1>2, <1>3, <1>4

LEMMA ListFacts ==
    /\ StopActivity \in Seq(Step)
    /\ \A r \in BOOLEAN, h \in {"return", "unlock", "recover_later"} :
          InitMac(r, h) \in Seq(Step) /\ ScanMode(h) \in Seq(Step)
    /\ ConfigureFt \in Seq(Step)
<1>1. StopActivity \in Seq(Step)
    BY StepFacts, OpNames DEF StopActivity, OtherSteps
<1>2. ASSUME NEW r \in BOOLEAN, NEW h \in {"return", "unlock", "recover_later"}
      PROVE  InitMac(r, h) \in Seq(Step)
    <2>0. /\ Try("deactivate", h) \in Step /\ Try("configure", h) \in Step
          /\ Try("activate", h) \in Step /\ Do("reset_link_state") \in Step
        <3>1. \A d \in {"deactivate", "configure", "activate"} : d \in WaitOps \cup OtherSteps
            BY OpNames
        <3>2. "reset_link_state" \in WaitOps \cup OtherSteps
            BY DEF OtherSteps
        <3> QED
            BY <3>1, <3>2, StepFacts
    <2>1. <<Try("deactivate", h), Do("reset_link_state")>> \in Seq(Step)
        BY <2>0
    <2>2. (IF r THEN <<Try("configure", h)>> ELSE <<>>) \in Seq(Step)
        BY <2>0
    <2>3. <<Try("activate", h)>> \in Seq(Step)
        BY <2>0
    <2> QED
        BY <1>1, <2>1, <2>2, <2>3, ConcatProperties DEF InitMac
<1>3. ASSUME NEW h \in {"return", "unlock", "recover_later"}
      PROVE  ScanMode(h) \in Seq(Step)
    <2>1. <<Try("start_pt_scan_mode", h)>> \in Seq(Step)
        <3>1. "start_pt_scan_mode" \in OtherSteps /\ h \in Handlers
            BY DEF OtherSteps, Handlers
        <3> QED
            BY <3>1, StepFacts
    <2> QED
        BY <1>2, <2>1, ConcatProperties DEF ScanMode
<1>4. ConfigureFt \in Seq(Step)
    <2>1. <<Do("reset_link_state")>> \in Seq(Step)
          /\ <<Do("cluster_configure"), Do("network_beacon"), Do("ft_mode")>> \in Seq(Step)
        BY StepFacts, OpNames DEF OtherSteps
    <2>2. StopActivity \o <<Do("reset_link_state")>> \in Seq(Step) /\ InitMac(FALSE, "return") \in Seq(Step)
        BY <1>1, <1>2, <2>1, ConcatProperties
    <2> QED
        BY <2>1, <2>2, ConcatProperties DEF ConfigureFt
<1> QED
    BY <1>1, <1>2, <1>3, <1>4

-----------------------------------------------------------------------------
(* The ways in which a thread gets on with its list of steps.              *)

Starts(t) == todo[t] = <<>> /\ waiting' = waiting /\ \E s \in Seq(Step) : Goto(t, s)
Moves(t) == t \notin waiting /\ todo[t] # <<>> /\ waiting' = waiting /\ (Continue(t) \/ Fail(t))
Asks(t) == (\E op \in WaitOps : At(t, op)) /\ waiting' = waiting \cup {t} /\ UNCHANGED todo
Stops(t) == t \in waiting /\ waiting' = waiting \ {t} /\ (Continue(t) \/ Fail(t))

LEMMA ShellThread == TypeInv /\ Shell => Starts("shell") \/ UNCHANGED threadVars
<1> SUFFICES ASSUME TypeInv, Shell PROVE Starts("shell") \/ UNCHANGED threadVars
    OBVIOUS
<1>1. \A s \in Seq(Step) : todo["shell"] = <<>> /\ Goto("shell", s) /\ waiting' = waiting
          => Starts("shell")
    BY DEF Starts
<1>2. todo["shell"] = <<>> /\ waiting' = waiting
    BY DEF Shell, cmd_stop, cmd_ft, cmd_scan, cmd_pt_scan, cmd_pt, restart_current_mode, cmd_send,
           Command
<1>3. CASE cmd_stop
    BY <1>1, <1>2, <1>3, ListFacts DEF cmd_stop
<1>4. CASE cmd_ft
    BY <1>1, <1>2, <1>4, ListFacts DEF cmd_ft
<1>5. CASE cmd_scan
    <2>1. <<Do("rssi_scan"), Do("post_scan")>> \in Seq(Step)
        BY StepFacts, OpNames DEF OtherSteps
    <2> QED
        BY <1>1, <1>2, <1>5, <2>1 DEF cmd_scan
<1>6. CASE cmd_pt_scan
    <2>1. ScanMode("unlock") \in Seq(Step)
        BY ListFacts, Zenon
    <2>2. <<Do("unlock")>> \in Seq(Step)
        BY StepFacts DEF OtherSteps
    <2>3. ScanMode("unlock") \o <<Do("unlock")>> \in Seq(Step)
        BY <2>1, <2>2, ConcatProperties
    <2> QED
        BY <1>1, <1>2, <1>6, <2>3 DEF cmd_pt_scan
<1>7. CASE cmd_pt
    <2>1. <<Do("pt_cold"), Do("network_scan")>> \in Seq(Step)
          /\ <<Do("pt_fast"), Do("network_scan")>> \in Seq(Step)
          /\ <<Try("modem_synced", "pt_known")>> \in Seq(Step)
        <3>1. /\ Do("pt_cold") \in Step /\ Do("pt_fast") \in Step /\ Do("network_scan") \in Step
              /\ Try("modem_synced", "pt_known") \in Step
            BY StepFacts DEF OtherSteps
        <3> QED
            BY <3>1
    <2>2. InitMac(TRUE, "return") \in Seq(Step)
        BY ListFacts, Zenon
    <2>3. /\ InitMac(TRUE, "return") \o <<Do("pt_cold"), Do("network_scan")>> \in Seq(Step)
          /\ InitMac(TRUE, "return") \o <<Do("pt_fast"), Do("network_scan")>> \in Seq(Step)
        BY <2>1, <2>2, ConcatProperties
    <2>4. <<Try("modem_synced", "pt_known")>>
             \o (InitMac(TRUE, "return") \o <<Do("pt_cold"), Do("network_scan")>>) \in Seq(Step)
        BY <2>1, <2>3, ConcatProperties
    <2> QED
        BY <1>1, <1>2, <1>7, <2>3, <2>4 DEF cmd_pt
<1>8. CASE restart_current_mode
    BY <1>1, <1>2, <1>8, ListFacts DEF restart_current_mode
<1>9. CASE cmd_send
    BY <1>2, <1>9 DEF cmd_send, threadVars
<1> QED
    BY <1>3, <1>4, <1>5, <1>6, <1>7, <1>8, <1>9 DEF Shell

LEMMA WorkThread == TypeInv /\ Work => Starts("work") \/ UNCHANGED threadVars
<1> SUFFICES ASSUME TypeInv, Work PROVE Starts("work") \/ UNCHANGED threadVars
    OBVIOUS
<1>1. \A s \in Seq(Step) : todo["work"] = <<>> /\ Goto("work", s) /\ waiting' = waiting
          => Starts("work")
    BY DEF Starts
<1>2. todo["work"] = <<>> /\ waiting' = waiting
    BY DEF Work, pt_associate_work, pt_resubscribe_work, pt_subscribe_timeout, pt_recovery_work,
           Runs, waitVars, threadVars
<1>3. /\ <<Do("resubscribe")>> \in Seq(Step) /\ <<Do("cannot_resubscribe")>> \in Seq(Step)
      /\ <<Do("no_beacon")>> \in Seq(Step)
      /\ <<Do("recovery_state"), Do("recovery_scan")>> \in Seq(Step)
    BY StepFacts DEF OtherSteps
<1>4. StopActivity \o InitMac(TRUE, "recover_later") \o <<Do("recovery_state"), Do("recovery_scan")>>
          \in Seq(Step)
    BY <1>3, ListFacts, ConcatProperties
<1>5. CASE pt_associate_work
    BY <1>2, <1>5 DEF pt_associate_work, threadVars
<1>6. CASE pt_resubscribe_work
    BY <1>1, <1>2, <1>3, <1>6 DEF pt_resubscribe_work, threadVars
<1>7. CASE pt_subscribe_timeout
    BY <1>1, <1>2, <1>3, <1>7 DEF pt_subscribe_timeout, threadVars
<1>8. CASE pt_recovery_work
    BY <1>1, <1>2, <1>4, <1>8 DEF pt_recovery_work, threadVars
<1> QED
    BY <1>5, <1>6, <1>7, <1>8 DEF Work

LEMMA MainThread == TypeInv /\ EventLoop => Starts("main") \/ UNCHANGED threadVars
<1> SUFFICES ASSUME TypeInv, EventLoop PROVE Starts("main") \/ UNCHANGED threadVars
    OBVIOUS
<1>1. todo["main"] = <<>> /\ waiting' = waiting
    BY DEF EventLoop, process_cluster_beacon_event, process_op_network_scan_event,
           process_op_network_scan_stop_event, process_op_cluster_beacon_receive_event,
           process_ntf_association_event, process_association_release_event, Receives
<1>2. CASE process_cluster_beacon_event
    <2>1. <<Do("beacon_subscribe")>> \in Seq(Step)
        BY StepFacts DEF OtherSteps
    <2>2. StopActivity \o <<Do("beacon_subscribe")>> \in Seq(Step)
        BY <2>1, ListFacts, ConcatProperties
    <2> QED
        BY <1>1, <1>2, <2>2 DEF process_cluster_beacon_event, Starts, threadVars
<1>3. CASE ~process_cluster_beacon_event
    BY <1>1, <1>3
       DEF EventLoop, process_op_network_scan_event,
           process_op_network_scan_stop_event, process_op_cluster_beacon_receive_event,
           process_ntf_association_event, process_association_release_event, threadVars
<1> QED
    BY <1>2, <1>3

LEMMA ModemThread == Modem => UNCHANGED threadVars
BY DEF Modem, Answer, HearsBeacon, ScanEnds, Subscribed, Associated, LinkReleased, RxFailure,
       cb_ntf_cluster_beacon_rx_failure, ReleaseAndResubscribe, ModemIdle, threadVars

LEMMA StepThread ==
    ASSUME TypeInv, NEW t \in Threads, StepOf(t)
    PROVE  Moves(t) \/ Asks(t) \/ Stops(t)
<1>1. CASE Request(t)
    <2> PICK op \in WaitOps :
            /\ At(t, op)
            /\ \/ waiting' = waiting \cup {t} /\ UNCHANGED todo
               \/ WaitOver(t, FALSE) /\ UNCHANGED waiting
        BY <1>1 DEF Request
    <2> QED
        BY DEF Asks, Moves, At, WaitOver
<1>2. CASE Wait(t)
    BY <1>2 DEF Wait, WaitTaken, WaitToken, WaitTimeout, Waits, WaitOver, Stops
<1>3. CASE NothingToStop(t)
    BY <1>3 DEF NothingToStop, At, Moves
<1>4. CASE cancel_works(t)
    BY <1>4 DEF cancel_works, At, Moves
<1>5. CASE reset_link_state(t)
    BY <1>5 DEF reset_link_state, At, Moves
<1>6. CASE PtSynced(t) \/ PtState(t)
    BY <1>6 DEF PtSynced, PtState, At, Moves
<1>7. CASE PtScan(t)
    BY <1>7 DEF PtScan, At, Moves
<1>8. CASE start_pt_scan_mode(t)
    BY <1>8 DEF start_pt_scan_mode, At, Moves
<1>9. CASE Unlock(t) \/ FtSteps(t)
    BY <1>9 DEF Unlock, FtSteps, At, Moves
<1>10. CASE PtSubscribe(t) \/ BeaconSubscribe(t)
    BY <1>10 DEF PtSubscribe, BeaconSubscribe, At, Moves
<1>11. CASE Resubscribe(t) \/ NoBeacon(t)
    BY <1>11 DEF Resubscribe, NoBeacon, At, Moves
<1>12. CASE RecoveryState(t) \/ RecoveryScan(t) \/ RecoverLater(t)
    BY <1>12 DEF RecoveryState, RecoveryScan, RecoverLater, At, Moves
<1> QED
    BY <1>1, <1>2, <1>3, <1>4, <1>5, <1>6, <1>7, <1>8, <1>9, <1>10, <1>11, <1>12 DEF StepOf

LEMMA ThreadNext == TypeInv /\ [Next]_vars => ThreadType'
<1> SUFFICES ASSUME TypeInv, [Next]_vars PROVE ThreadType'
    OBVIOUS
<1>0. ThreadType
    BY DEF TypeInv
<1>1. CASE UNCHANGED threadVars
    BY <1>0, <1>1 DEF ThreadType, threadVars
<1>2. ASSUME NEW t \in Threads, Starts(t) PROVE ThreadType'
    <2>1. t \notin waiting
        BY <1>0, <1>2 DEF Starts, ThreadType
    <2> QED
        BY <1>0, <1>2, <2>1 DEF Starts, Goto, ThreadType
<1>3. ASSUME NEW t \in Threads, t \notin waiting', waiting' \subseteq waiting,
             todo[t] # <<>>, Continue(t) \/ Fail(t)
      PROVE  ThreadType'
    <2>1. Tail(todo[t]) \in Seq(Step) /\ Head(todo[t]) \in Step
        BY <1>0, <1>3 DEF ThreadType
    <2>2. Handler(Head(todo[t]).orElse) \in Seq(Step)
        BY <2>1, StepFacts
    <2> QED
        BY <1>0, <1>3, <2>1, <2>2 DEF Continue, Fail, Goto, ThreadType
<1>4. ASSUME NEW t \in Threads, Asks(t) PROVE ThreadType'
    BY <1>0, <1>4 DEF Asks, At, ThreadType
<1>5. ASSUME NEW t \in Threads, StepOf(t) PROVE ThreadType'
    BY <1>0, <1>3, <1>4, <1>5, StepThread DEF Moves, Stops, ThreadType
<1>6. "shell" \in Threads /\ "work" \in Threads /\ "main" \in Threads
    BY DEF Threads
<1>7. CASE Shell \/ Work \/ EventLoop \/ Modem
    BY <1>1, <1>2, <1>6, <1>7, ShellThread, WorkThread, MainThread, ModemThread
<1>8. CASE UNCHANGED vars
    BY <1>1, <1>8 DEF vars, threadVars
<1> QED
    BY <1>5, <1>7, <1>8 DEF Next

-----------------------------------------------------------------------------
(* The types of the other variables.                                       *)

LEMMA Assumptions ==
    /\ MaxRetries \in Nat /\ 1 <= MaxRetries /\ QueueDepth \in Nat /\ MaxFaults \in Nat
    /\ Carriers \subseteq BOOLEAN /\ \A c \in Scripts : c \in Seq(CommandNames)
BY MacLinkAssumption DEF MacLinkAssumption

LEMMA FaultType ==
    ASSUME BoundType, (\E kind \in FaultKinds : Fault(kind)) \/ faults' = faults
    PROVE  faults' \in 0..MaxFaults
BY Assumptions DEF BoundType, Fault

\* Every step leaves the number of faults, or adds one.
LEMMA FaultSteps == [Next]_vars => (\E kind \in FaultKinds : Fault(kind)) \/ faults' = faults
<1> SUFFICES ASSUME Next \/ UNCHANGED vars
             PROVE  (\E kind \in FaultKinds : Fault(kind)) \/ faults' = faults
    OBVIOUS
<1>1. CASE Shell
    BY <1>1 DEF Shell, cmd_stop, cmd_ft, cmd_scan, cmd_pt_scan, cmd_pt, restart_current_mode,
                cmd_send, Release, FaultKinds
<1>2. ASSUME NEW t \in Threads, StepOf(t)
      PROVE  (\E kind \in FaultKinds : Fault(kind)) \/ faults' = faults
    <2>1. CASE Request(t) \/ Wait(t)
        BY <2>1 DEF Request, Wait, WaitTaken, WaitToken, WaitTimeout, FaultKinds
    <2>2. CASE PtScan(t) \/ start_pt_scan_mode(t) \/ RecoveryScan(t)
        BY <2>2 DEF PtScan, start_pt_scan_mode, RecoveryScan, StartScan, ScanOf, Taken, Refused,
                    FaultKinds
    <2>3. CASE PtSubscribe(t) \/ BeaconSubscribe(t) \/ Resubscribe(t)
        BY <2>3 DEF PtSubscribe, BeaconSubscribe, Resubscribe, ReceiveStart, ReceiveRefused, Taken,
                    Refused, FaultKinds
    <2>4. CASE ~(Request(t) \/ Wait(t) \/ PtScan(t) \/ start_pt_scan_mode(t) \/ RecoveryScan(t)
                 \/ PtSubscribe(t) \/ BeaconSubscribe(t) \/ Resubscribe(t))
        BY <1>2, <2>4 DEF StepOf, NothingToStop, cancel_works, reset_link_state, PtSynced, PtState, Unlock,
                          FtSteps, NoBeacon, RecoveryState, RecoverLater, bounds
    <2> QED
        BY <2>1, <2>2, <2>3, <2>4
<1>3. CASE Work
    BY <1>3 DEF Work, pt_associate_work, pt_resubscribe_work, pt_subscribe_timeout,
                pt_recovery_work, Taken, Refused, FaultKinds
<1>4. CASE EventLoop
    BY <1>4 DEF EventLoop, process_cluster_beacon_event, process_op_network_scan_event,
           process_op_network_scan_stop_event, process_op_cluster_beacon_receive_event,
           process_ntf_association_event, process_association_release_event, Receives, bounds
<1>5. CASE Modem
    BY <1>5 DEF Modem, Answer, HearsBeacon, ScanEnds, Subscribed, Associated, LinkReleased,
           RxFailure, cb_ntf_cluster_beacon_rx_failure, ReleaseAndResubscribe, Release, FaultKinds,
           bounds
<1>6. CASE UNCHANGED vars
    BY <1>6 DEF vars, bounds
<1> QED
    BY <1>1, <1>2, <1>3, <1>4, <1>5, <1>6 DEF Next

\* Only the shell takes commands, one at a time.
LEMMA CommandSteps ==
    [Next]_vars => commands' = commands \/ (commands # <<>> /\ commands' = Tail(commands))
<1> SUFFICES ASSUME Next \/ UNCHANGED vars
             PROVE  commands' = commands \/ (commands # <<>> /\ commands' = Tail(commands))
    OBVIOUS
<1>1. CASE Shell
    BY <1>1 DEF Shell, cmd_stop, cmd_ft, cmd_scan, cmd_pt_scan, cmd_pt, restart_current_mode,
                cmd_send, Command
<1>2. ASSUME NEW t \in Threads, StepOf(t) PROVE commands' = commands
    BY <1>2 DEF StepOf, Request, NothingToStop, Wait, cancel_works, reset_link_state, PtSynced, PtState, PtScan,
        start_pt_scan_mode, Unlock, FtSteps, PtSubscribe, BeaconSubscribe, Resubscribe, NoBeacon,
        RecoveryState, RecoveryScan, RecoverLater, bounds
<1>3. CASE Work
    BY <1>3 DEF Work, pt_associate_work, pt_resubscribe_work, pt_subscribe_timeout,
                pt_recovery_work, Runs
<1>4. CASE EventLoop
    BY <1>4 DEF EventLoop, process_cluster_beacon_event, process_op_network_scan_event,
           process_op_network_scan_stop_event, process_op_cluster_beacon_receive_event,
           process_ntf_association_event, process_association_release_event, Receives, bounds
<1>5. CASE Modem
    BY <1>5 DEF Modem, Answer, HearsBeacon, ScanEnds, Subscribed, Associated, LinkReleased,
           RxFailure, cb_ntf_cluster_beacon_rx_failure, ReleaseAndResubscribe, ModemIdle, bounds
<1>6. CASE UNCHANGED vars
    BY <1>6 DEF vars, bounds
<1> QED
    BY <1>1, <1>2, <1>3, <1>4, <1>5, <1>6 DEF Next

LEMMA BoundNext == TypeInv /\ [Next]_vars => BoundType'
<1> SUFFICES ASSUME BoundType, [Next]_vars PROVE BoundType'
    BY DEF TypeInv
<1>1. commands' \in Seq(CommandNames)
    BY CommandSteps DEF BoundType
<1> QED
    BY <1>1, FaultSteps, FaultType DEF BoundType

\* The queue: what is put in it and what is taken out.
Events == {"CLUSTER_BEACON", "OP_NETWORK_SCAN", "OP_NETWORK_SCAN_STOP",
           "OP_CLUSTER_BEACON_RECEIVE", "NTF_ASSOCIATION", "ASSOCIATION_RELEASE"}
LEMMA QueueSteps ==
    [Next]_vars => \/ app_evt_msgq' = app_evt_msgq
                   \/ app_evt_msgq # <<>> /\ app_evt_msgq' = Tail(app_evt_msgq)
                   \/ \E type \in Events, status \in Status : Put(type, status)
<1> DEFINE Goal == \/ app_evt_msgq' = app_evt_msgq
                   \/ app_evt_msgq # <<>> /\ app_evt_msgq' = Tail(app_evt_msgq)
                   \/ \E type \in Events, status \in Status : Put(type, status)
<1> SUFFICES ASSUME Next \/ UNCHANGED vars PROVE Goal
    OBVIOUS
<1>1. CASE Shell
    BY <1>1 DEF Shell, cmd_stop, cmd_ft, cmd_scan, cmd_pt_scan, cmd_pt, restart_current_mode,
                cmd_send, Command
<1>2. ASSUME NEW t \in Threads, StepOf(t) PROVE app_evt_msgq' = app_evt_msgq
    BY <1>2 DEF StepOf, Request, NothingToStop, Wait, cancel_works, reset_link_state, PtSynced, PtState, PtScan,
        start_pt_scan_mode, Unlock, FtSteps, PtSubscribe, BeaconSubscribe, Resubscribe, NoBeacon,
        RecoveryState, RecoveryScan, RecoverLater
<1>3. CASE Work
    BY <1>3 DEF Work, pt_associate_work, pt_resubscribe_work, pt_subscribe_timeout,
                pt_recovery_work, Runs
<1>4. CASE EventLoop
    BY <1>4 DEF EventLoop, process_cluster_beacon_event, process_op_network_scan_event,
           process_op_network_scan_stop_event, process_op_cluster_beacon_receive_event,
           process_ntf_association_event, process_association_release_event, Receives
<1>5. CASE Modem
    BY <1>5 DEF Modem, Answer, HearsBeacon, ScanEnds, Subscribed, Associated, LinkReleased,
           RxFailure, cb_ntf_cluster_beacon_rx_failure, ReleaseAndResubscribe, Events, Status
<1>6. CASE UNCHANGED vars
    BY <1>6 DEF vars
<1> QED
    BY <1>1, <1>2, <1>3, <1>4, <1>5, <1>6 DEF Next

LEMMA QueueNext == TypeInv /\ [Next]_vars => QueueType'
<1> SUFFICES ASSUME QueueType, [Next]_vars PROVE QueueType'
    BY DEF TypeInv
<1>1. ASSUME app_evt_msgq # <<>>, app_evt_msgq' = Tail(app_evt_msgq) PROVE QueueType'
    BY <1>1, Assumptions DEF QueueType
<1>2. ASSUME NEW type \in Events, NEW status \in Status, Put(type, status) PROVE QueueType'
    <2>1. [type |-> type, status |-> status] \in Event
        BY DEF Event, Events
    <2> QED
        BY <1>2, <2>1, Assumptions DEF QueueType, Put
<1> QED
    BY <1>1, <1>2, QueueSteps DEF QueueType

\* Only a request, a wait and the modem's answers touch the wait.
LEMMA WaitSteps ==
    [Next]_vars => \/ UNCHANGED waitVars
                   \/ \E t \in Threads : Request(t) \/ Wait(t)
                   \/ Answer
<1> SUFFICES ASSUME Next \/ UNCHANGED vars
             PROVE  UNCHANGED waitVars \/ (\E t \in Threads : Request(t) \/ Wait(t)) \/ Answer
    OBVIOUS
<1>1. CASE Shell
    BY <1>1 DEF Shell, cmd_stop, cmd_ft, cmd_scan, cmd_pt_scan, cmd_pt, restart_current_mode,
                cmd_send, Command
<1>2. ASSUME NEW t \in Threads, StepOf(t) PROVE UNCHANGED waitVars \/ Request(t) \/ Wait(t)
    BY <1>2 DEF StepOf, NothingToStop, cancel_works, reset_link_state, PtSynced, PtState, PtScan,
        start_pt_scan_mode, Unlock, FtSteps, PtSubscribe, BeaconSubscribe, Resubscribe, NoBeacon,
        RecoveryState, RecoveryScan, RecoverLater
<1>3. CASE Work
    BY <1>3 DEF Work, pt_associate_work, pt_resubscribe_work, pt_subscribe_timeout,
                pt_recovery_work, Runs
<1>4. CASE EventLoop
    BY <1>4 DEF EventLoop, process_cluster_beacon_event, process_op_network_scan_event,
           process_op_network_scan_stop_event, process_op_cluster_beacon_receive_event,
           process_ntf_association_event, process_association_release_event, Receives
<1>5. CASE Modem
    BY <1>5 DEF Modem, HearsBeacon, ScanEnds, Subscribed, Associated, LinkReleased,
           RxFailure, cb_ntf_cluster_beacon_rx_failure, ReleaseAndResubscribe, NoThread
<1>6. CASE UNCHANGED vars
    BY <1>6 DEF vars
<1> QED
    BY <1>1, <1>2, <1>3, <1>4, <1>5, <1>6 DEF Next

LEMMA WaitNext == TypeInv /\ [Next]_vars => WaitType'
<1> SUFFICES ASSUME WaitType, ModemType, [Next]_vars PROVE WaitType'
    BY DEF TypeInv
<1>1. CASE UNCHANGED waitVars
    BY <1>1 DEF WaitType, waitVars
<1>2. ASSUME NEW t \in Threads, Request(t) PROVE WaitType'
    <2>1. /\ current_wait' = "NONE" \/ \E op \in WaitOps : current_wait' = WaitReason[op]
          /\ op_sem' = 0 /\ wait_status' = "EINPROGRESS"
        BY <1>2 DEF Request
    <2>2. current_wait' \in Reasons
        BY <2>1, OpNames
    <2>3. op_sem' \in 0..1 /\ wait_status' \in {"ok", "error", "EINPROGRESS"}
        BY <2>1
    <2> QED
        BY <2>2, <2>3 DEF WaitType
<1>3. ASSUME NEW t \in Threads, Wait(t) PROVE WaitType'
    <2>1. /\ current_wait' \in {current_wait, "NONE"} /\ op_sem' \in {op_sem, 0}
          /\ wait_status' = wait_status
        BY <1>3 DEF Wait, WaitTaken, WaitToken, WaitTimeout, waitVars
    <2>2. current_wait' \in Reasons
        BY <2>1, OpNames DEF WaitType
    <2>3. op_sem' \in 0..1
        BY <2>1 DEF WaitType
    <2> QED
        BY <2>1, <2>2, <2>3 DEF WaitType
<1>4. CASE Answer
    <2>1. PICK op \in WaitOps : Complete(WaitReason[op], "ok") \/ Complete(WaitReason[op], "error")
        <3>1. Head(asked) \in WaitOps
            BY <1>4 DEF Answer, ModemType
        <3> QED
            BY <1>4, <3>1 DEF Answer
    <2>2. /\ current_wait' = current_wait /\ op_sem' \in {op_sem, 1}
          /\ wait_status' \in {wait_status, "ok", "error"}
        BY <2>1 DEF Complete, waitVars
    <2>3. op_sem' \in 0..1
        BY <2>2 DEF WaitType
    <2>4. wait_status' \in {"ok", "error", "EINPROGRESS"}
        BY <2>2 DEF WaitType
    <2> QED
        BY <2>2, <2>3, <2>4 DEF WaitType
<1> QED
    BY <1>1, <1>2, <1>3, <1>4, WaitSteps

LEMMA ModemNext == TypeInv /\ [Next]_vars => ModemType'
<1> SUFFICES ASSUME ModemType, Next \/ UNCHANGED vars PROVE ModemType'
    BY DEF TypeInv
<1>1. CASE Shell
    <2>1. link' = link \/ link' = Released
        BY <1>1 DEF Shell, cmd_stop, cmd_ft, cmd_scan, cmd_pt_scan, cmd_pt, restart_current_mode,
                    cmd_send, Release
    <2>2. UNCHANGED <<callback, asked, scan, subscription>>
        BY <1>1 DEF Shell, cmd_stop, cmd_ft, cmd_scan, cmd_pt_scan, cmd_pt, restart_current_mode,
                    cmd_send, Command
    <2> QED
        BY <2>1, <2>2 DEF ModemType, Released
<1>2. ASSUME NEW t \in Threads, StepOf(t) PROVE ModemType'
    <2>1. CASE Request(t)
        <3>1. asked' = asked \/ \E op \in WaitOps : asked' = Append(asked, op)
            BY <2>1 DEF Request
        <3>2. UNCHANGED <<callback, radioVars>>
            BY <2>1 DEF Request
        <3> QED
            BY <3>1, <3>2 DEF ModemType, radioVars
    <2>2. CASE PtScan(t) \/ start_pt_scan_mode(t) \/ RecoveryScan(t)
        BY <2>2 DEF PtScan, start_pt_scan_mode, RecoveryScan, StartScan, ScanOf, ModemType
    <2>3. CASE PtSubscribe(t) \/ BeaconSubscribe(t) \/ Resubscribe(t) \/ NoBeacon(t)
        BY <2>3 DEF PtSubscribe, BeaconSubscribe, Resubscribe, NoBeacon, ReceiveStart,
                    ReceiveRefused, ModemType
    <2>4. CASE UNCHANGED modemVars
        BY <2>4 DEF ModemType, modemVars, radioVars
    <2> QED
        BY <1>2, <2>1, <2>2, <2>3, <2>4
           DEF StepOf, NothingToStop, Wait, cancel_works, reset_link_state, PtSynced, PtState, Unlock,
               FtSteps, RecoveryState, RecoverLater
<1>3. CASE Work
    BY <1>3 DEF Work, pt_associate_work, pt_resubscribe_work, pt_subscribe_timeout,
                pt_recovery_work, Runs, ModemType
<1>4. CASE EventLoop
    BY <1>4 DEF EventLoop, process_cluster_beacon_event, process_op_network_scan_event,
           process_op_network_scan_stop_event, process_op_cluster_beacon_receive_event,
           process_ntf_association_event, process_association_release_event, Receives, ModemType,
           modemVars, radioVars
<1>5. CASE Modem
    <2>1. CASE Answer
        <3>1. /\ asked # <<>> /\ asked' = Tail(asked) /\ callback' = callback
              /\ scan' \in {scan, "off"} /\ subscription' \in {subscription, "off"}
              /\ link' \in {link, "off"}
            BY <2>1 DEF Answer
        <3> QED
            BY <3>1 DEF ModemType
    <2>2. CASE HearsBeacon \/ ScanEnds \/ Subscribed \/ Associated \/ LinkReleased
        BY <2>2 DEF HearsBeacon, ScanEnds, Subscribed, Associated, LinkReleased, NoThread, ModemType
    <2>3. CASE RxFailure \/ cb_ntf_cluster_beacon_rx_failure \/ ReleaseAndResubscribe
        BY <2>3 DEF RxFailure, cb_ntf_cluster_beacon_rx_failure, ReleaseAndResubscribe, Release,
                    Released, radioVars, ModemType
    <2> QED
        BY <1>5, <2>1, <2>2, <2>3 DEF Modem
<1>6. CASE UNCHANGED vars
    BY <1>6 DEF vars, modemVars, radioVars, ModemType
<1> QED
    BY <1>1, <1>2, <1>3, <1>4, <1>5, <1>6 DEF Next

\* The state of the link, and what the works do with it.
LEMMA Recovery ==
    ASSUME pt_recovery_attempts \in 0..5, NEW others, others \subseteq Works, ScheduleRecovery(others)
    PROVE  pt_recovery_attempts' \in 0..5 /\ works' \subseteq Works
<1>1. pt_recovery_attempts' \in 0..5
    BY DEF ScheduleRecovery
<1>2. works' \subseteq Works
    BY DEF ScheduleRecovery, Works
<1> QED
    BY <1>1, <1>2

LinkFlags == pt_associated \in BOOLEAN /\ pt_association_pending \in BOOLEAN
ScanFlags == pt_scan_in_progress \in BOOLEAN /\ pt_pending_subscribe \in BOOLEAN
ModeFlags == ft_post_scan \in BOOLEAN /\ period_known \in BOOLEAN /\ in_table \in BOOLEAN
ChannelFlags == on_channel \in BOOLEAN /\ carrier \in BOOLEAN /\ ch \in BOOLEAN

LEMMA FlagFacts ==
    Flags \subseteq BOOLEAN <=>
        LinkFlags /\ ScanFlags /\ ModeFlags /\ ChannelFlags /\ active \in BOOLEAN
BY DEF Flags, LinkFlags, ScanFlags, ModeFlags, ChannelFlags

\* A flag keeps its value, is set or cleared, or takes the value of another.
LEMMA FlagNext == StateType /\ [Next]_vars => Flags' \subseteq BOOLEAN
<1> SUFFICES ASSUME StateType, Next \/ UNCHANGED vars PROVE Flags' \subseteq BOOLEAN
    OBVIOUS
<1>0. LinkFlags /\ ScanFlags /\ ModeFlags /\ ChannelFlags /\ active \in BOOLEAN
    BY FlagFacts DEF StateType
<1>1. LinkFlags' /\ ScanFlags' /\ ModeFlags' /\ ChannelFlags' /\ active' \in BOOLEAN
      => Flags' \subseteq BOOLEAN
    BY DEF Flags, LinkFlags, ScanFlags, ModeFlags, ChannelFlags
<1>c. ChooseCarrier => carrier' \in BOOLEAN
    BY <1>0, Assumptions DEF ChooseCarrier, ChannelFlags
<1>2. CASE Shell
    <2>1. LinkFlags'
        BY <1>0, <1>2, Zenon
           DEF LinkFlags, Shell, cmd_stop, cmd_ft, cmd_scan, cmd_pt_scan, cmd_pt,
               restart_current_mode, cmd_send, linkVars
    <2>2. ScanFlags'
        BY <1>0, <1>2, Zenon
           DEF ScanFlags, Shell, cmd_stop, cmd_ft, cmd_scan, cmd_pt_scan, cmd_pt,
               restart_current_mode, cmd_send, scanVars
    <2>3. ModeFlags'
        BY <1>0, <1>2, Zenon
           DEF ModeFlags, Shell, cmd_stop, cmd_ft, cmd_scan, cmd_pt_scan, cmd_pt,
               restart_current_mode, cmd_send, modeVars
    <2>4. ChannelFlags'
        BY <1>0, <1>2, <1>c, Zenon
           DEF ChannelFlags, Shell, cmd_stop, cmd_ft, cmd_scan, cmd_pt_scan, cmd_pt,
               restart_current_mode, cmd_send, modeVars, channelVars
    <2>5. active' \in BOOLEAN
        BY <1>0, <1>2, Zenon
           DEF Shell, cmd_stop, cmd_ft, cmd_scan, cmd_pt_scan, cmd_pt,
               restart_current_mode, cmd_send, Command
    <2> QED
        BY <1>1, <2>1, <2>2, <2>3, <2>4, <2>5
<1>3. ASSUME NEW t \in Threads, StepOf(t) PROVE Flags' \subseteq BOOLEAN
    <2>1. LinkFlags'
        BY <1>0, <1>3, Zenon
           DEF LinkFlags, StepOf, Request, NothingToStop, Wait, WaitTaken, WaitToken, WaitTimeout,
               WaitOver, cancel_works, reset_link_state, PtSynced, PtState, PtScan, start_pt_scan_mode, Unlock,
               FtSteps, PtSubscribe, BeaconSubscribe, Resubscribe, NoBeacon, RecoveryState,
               RecoveryScan, RecoverLater, linkVars
    <2>2. ScanFlags'
        BY <1>0, <1>3, Zenon
           DEF ScanFlags, StepOf, Request, NothingToStop, Wait, WaitTaken, WaitToken, WaitTimeout,
               WaitOver, cancel_works, reset_link_state, PtSynced, PtState, PtScan, start_pt_scan_mode, Unlock,
               FtSteps, PtSubscribe, BeaconSubscribe, Resubscribe, NoBeacon, RecoveryState,
               RecoveryScan, RecoverLater, scanVars
    <2>3. ModeFlags'
        BY <1>0, <1>3, Zenon
           DEF ModeFlags, StepOf, Request, NothingToStop, Wait, WaitTaken, WaitToken, WaitTimeout,
               WaitOver, cancel_works, reset_link_state, PtSynced, PtState, PtScan, start_pt_scan_mode, Unlock,
               FtSteps, PtSubscribe, BeaconSubscribe, Resubscribe, NoBeacon, RecoveryState,
               RecoveryScan, RecoverLater, modeVars
    <2>4. ChannelFlags'
        BY <1>0, <1>3, <1>c, Zenon
           DEF ChannelFlags, StepOf, Request, NothingToStop, Wait, WaitTaken, WaitToken, WaitTimeout,
               WaitOver, cancel_works, reset_link_state, PtSynced, PtState, PtScan, start_pt_scan_mode, Unlock,
               FtSteps, PtSubscribe, BeaconSubscribe, Resubscribe, NoBeacon, RecoveryState,
               RecoveryScan, RecoverLater, modeVars, channelVars
    <2>5. active' \in BOOLEAN
        BY <1>0, <1>3, Zenon
           DEF StepOf, Request, NothingToStop, Wait, WaitTaken, WaitToken, WaitTimeout,
               WaitOver, cancel_works, reset_link_state, PtSynced, PtState, PtScan, start_pt_scan_mode, Unlock,
               FtSteps, PtSubscribe, BeaconSubscribe, Resubscribe, NoBeacon, RecoveryState,
               RecoveryScan, RecoverLater, modemVars, radioVars
    <2> QED
        BY <1>1, <2>1, <2>2, <2>3, <2>4, <2>5
<1>4. CASE Work
    <2>1. LinkFlags'
        BY <1>0, <1>4, Zenon
           DEF LinkFlags, Work, pt_associate_work, pt_resubscribe_work, pt_subscribe_timeout,
               pt_recovery_work, Runs
    <2>2. ScanFlags'
        BY <1>0, <1>4, Zenon
           DEF ScanFlags, Work, pt_associate_work, pt_resubscribe_work, pt_subscribe_timeout,
               pt_recovery_work, Runs, scanVars
    <2>3. ModeFlags'
        BY <1>0, <1>4, Zenon
           DEF ModeFlags, Work, pt_associate_work, pt_resubscribe_work, pt_subscribe_timeout,
               pt_recovery_work, Runs
    <2>4. ChannelFlags'
        BY <1>0, <1>4, Zenon
           DEF ChannelFlags, Work, pt_associate_work, pt_resubscribe_work, pt_subscribe_timeout,
               pt_recovery_work, Runs
    <2>5. active' \in BOOLEAN
        BY <1>0, <1>4, Zenon
           DEF Work, pt_associate_work, pt_resubscribe_work, pt_subscribe_timeout,
               pt_recovery_work, Runs
    <2> QED
        BY <1>1, <2>1, <2>2, <2>3, <2>4, <2>5
<1>5. CASE EventLoop
    <2>1. LinkFlags'
        BY <1>0, <1>5, Zenon
           DEF LinkFlags, EventLoop, process_cluster_beacon_event, process_op_network_scan_event,
               process_op_network_scan_stop_event, process_op_cluster_beacon_receive_event,
               process_ntf_association_event, process_association_release_event, Receives, linkVars
    <2>2. ScanFlags'
        BY <1>0, <1>5, Zenon
           DEF ScanFlags, EventLoop, process_cluster_beacon_event, process_op_network_scan_event,
               process_op_network_scan_stop_event, process_op_cluster_beacon_receive_event,
               process_ntf_association_event, process_association_release_event, Receives, scanVars
    <2>3. ModeFlags'
        BY <1>0, <1>5, Zenon
           DEF ModeFlags, EventLoop, process_cluster_beacon_event, process_op_network_scan_event,
               process_op_network_scan_stop_event, process_op_cluster_beacon_receive_event,
               process_ntf_association_event, process_association_release_event, Receives
    <2>4. ChannelFlags'
        BY <1>0, <1>5, Zenon
           DEF ChannelFlags, EventLoop, process_cluster_beacon_event, process_op_network_scan_event,
               process_op_network_scan_stop_event, process_op_cluster_beacon_receive_event,
               process_ntf_association_event, process_association_release_event, Receives, channelVars
    <2>5. active' \in BOOLEAN
        BY <1>0, <1>5, Zenon
           DEF EventLoop, process_cluster_beacon_event, process_op_network_scan_event,
               process_op_network_scan_stop_event, process_op_cluster_beacon_receive_event,
               process_ntf_association_event, process_association_release_event, Receives, modemVars, radioVars
    <2> QED
        BY <1>1, <2>1, <2>2, <2>3, <2>4, <2>5
<1>6. CASE Modem
    <2>1. LinkFlags'
        BY <1>0, <1>6, Zenon
           DEF LinkFlags, Modem, Answer, HearsBeacon, ScanEnds, Subscribed, Associated, LinkReleased,
               RxFailure, cb_ntf_cluster_beacon_rx_failure, ReleaseAndResubscribe, NoThread, ModemIdle, linkVars
    <2>2. ScanFlags'
        BY <1>0, <1>6, Zenon
           DEF ScanFlags, Modem, Answer, HearsBeacon, ScanEnds, Subscribed, Associated, LinkReleased,
               RxFailure, cb_ntf_cluster_beacon_rx_failure, ReleaseAndResubscribe, NoThread, ModemIdle, scanVars
    <2>3. ModeFlags'
        BY <1>0, <1>6, Zenon
           DEF ModeFlags, Modem, Answer, HearsBeacon, ScanEnds, Subscribed, Associated, LinkReleased,
               RxFailure, cb_ntf_cluster_beacon_rx_failure, ReleaseAndResubscribe, NoThread, ModemIdle, modeVars
    <2>4. ChannelFlags'
        BY <1>0, <1>6, Zenon
           DEF ChannelFlags, Modem, Answer, HearsBeacon, ScanEnds, Subscribed, Associated, LinkReleased,
               RxFailure, cb_ntf_cluster_beacon_rx_failure, ReleaseAndResubscribe, NoThread, ModemIdle, modeVars, channelVars
    <2>5. active' \in BOOLEAN
        BY <1>0, <1>6, Zenon
           DEF Modem, Answer, HearsBeacon, ScanEnds, Subscribed, Associated, LinkReleased,
               RxFailure, cb_ntf_cluster_beacon_rx_failure, ReleaseAndResubscribe, NoThread, ModemIdle,
               radioVars
    <2> QED
        BY <1>1, <2>1, <2>2, <2>3, <2>4, <2>5
<1>7. CASE UNCHANGED vars
    <2>1. LinkFlags'
        BY <1>0, <1>7, Zenon
           DEF LinkFlags, vars, linkVars
    <2>2. ScanFlags'
        BY <1>0, <1>7, Zenon
           DEF ScanFlags, vars, scanVars
    <2>3. ModeFlags'
        BY <1>0, <1>7, Zenon
           DEF ModeFlags, vars, modeVars
    <2>4. ChannelFlags'
        BY <1>0, <1>7, Zenon
           DEF ChannelFlags, vars, modeVars, channelVars
    <2>5. active' \in BOOLEAN
        BY <1>0, <1>7, Zenon
           DEF vars, modemVars, radioVars
    <2> QED
        BY <1>1, <2>1, <2>2, <2>3, <2>4, <2>5
<1> QED
    BY <1>2, <1>3, <1>4, <1>5, <1>6, <1>7 DEF Next

LEMMA StateNext == TypeInv /\ [Next]_vars => StateType'
<1> SUFFICES ASSUME StateType, ModemType, Next \/ UNCHANGED vars PROVE StateType'
    BY DEF TypeInv
<1> DEFINE Rest ==
        /\ current_mode \in {"IDLE", "FT", "PT"} /\ pt_parent_long_rd_id \in 0..1
        /\ pt_association_retries \in 0..MaxRetries - 1 /\ pt_recovery_attempts \in 0..5
        /\ works \subseteq Works /\ app_mutex \in {"free", "shell"}
<1>0. Rest
    BY DEF StateType
<1>1. ASSUME Rest' PROVE StateType'
    BY <1>1, FlagNext DEF StateType
<1>a. 0 \in 0..MaxRetries - 1
    BY Assumptions
<1>2. CASE Shell
    <2>1. CASE cmd_stop \/ cmd_ft \/ cmd_scan \/ cmd_pt_scan \/ restart_current_mode
        BY <1>0, <1>1, <2>1
           DEF cmd_stop, cmd_ft, cmd_scan, cmd_pt_scan, restart_current_mode,
               linkVars, modeVars, recoveryVars
    <2>2. CASE cmd_pt
        BY <1>0, <1>1, <2>2 DEF cmd_pt, linkVars, modeVars, recoveryVars
    <2>3. CASE cmd_send
        BY <1>0, <1>1, <2>3, Recovery DEF cmd_send, modeVars
    <2> QED
        BY <1>2, <2>1, <2>2, <2>3 DEF Shell
<1>3. ASSUME NEW t \in Threads, StepOf(t) PROVE StateType'
    <2>1. CASE Request(t) \/ NothingToStop(t) \/ Wait(t) \/ PtScan(t) \/ start_pt_scan_mode(t)
               \/ Unlock(t) \/ FtSteps(t) \/ PtSubscribe(t)
        BY <1>0, <1>1, <2>1
           DEF Request, NothingToStop, Wait, PtScan, start_pt_scan_mode, Unlock, FtSteps, PtSubscribe,
               linkVars, modeVars, recoveryVars
    <2>2. CASE cancel_works(t) \/ reset_link_state(t) \/ PtSynced(t) \/ PtState(t)
               \/ RecoveryState(t)
        BY <1>0, <1>1, <1>a, <2>2
           DEF cancel_works, reset_link_state, PtSynced, PtState, RecoveryState, linkVars, modeVars, recoveryVars
    <2>3. CASE BeaconSubscribe(t)
        BY <1>0, <1>1, <2>3 DEF BeaconSubscribe, Works
    <2>4. CASE Resubscribe(t) \/ RecoveryScan(t)
        <3>1. /\ pt_parent_long_rd_id' \in {pt_parent_long_rd_id, 0}
              /\ UNCHANGED <<current_mode, pt_association_retries, app_mutex>>
              /\ \/ UNCHANGED <<pt_recovery_attempts, works>>
                 \/ works' = works \cup {"subscribe_timeout"} /\ UNCHANGED pt_recovery_attempts
                 \/ ScheduleRecovery(works)
            BY <2>4 DEF Resubscribe, RecoveryScan, linkVars, modeVars, recoveryVars
        <3>2. "subscribe_timeout" \in Works
            BY DEF Works
        <3>3. pt_recovery_attempts' \in 0..5 /\ works' \subseteq Works
            BY <1>0, <3>1, <3>2, Recovery
        <3> QED
            BY <1>0, <1>1, <3>1, <3>3
    <2>5. CASE NoBeacon(t) \/ RecoverLater(t)
        BY <1>0, <1>1, <2>5, Recovery DEF NoBeacon, RecoverLater, linkVars, modeVars
    <2> QED
        BY <1>3, <2>1, <2>2, <2>3, <2>4, <2>5 DEF StepOf
<1>4. CASE Work
    BY <1>0, <1>1, <1>4
       DEF Work, pt_associate_work, pt_resubscribe_work, pt_subscribe_timeout, pt_recovery_work,
           Runs
<1>5. CASE EventLoop
    <2>1. CASE process_ntf_association_event
        <3>1. UNCHANGED <<current_mode, app_mutex>>
            BY <2>1 DEF process_ntf_association_event, Receives
        <3>2. \/ /\ pt_parent_long_rd_id' = 1 /\ pt_association_retries' = 0
                 /\ pt_recovery_attempts' = 0 /\ UNCHANGED works
              \/ /\ TriesAgain /\ pt_association_retries' = pt_association_retries + 1
                 /\ works' = works \cup {"associate"}
                 /\ UNCHANGED <<pt_parent_long_rd_id, pt_recovery_attempts>>
              \/ /\ pt_association_retries' = 0 /\ ScheduleRecovery(works)
                 /\ UNCHANGED pt_parent_long_rd_id
            BY <2>1 DEF process_ntf_association_event
        <3>3. "associate" \in Works
            BY DEF Works
        <3>4. TriesAgain => pt_association_retries + 1 \in 0..MaxRetries - 1
            BY <1>0, Assumptions DEF TriesAgain
        <3>5. ScheduleRecovery(works) => pt_recovery_attempts' \in 0..5 /\ works' \subseteq Works
            BY <1>0, Recovery
        <3>6. pt_recovery_attempts' \in 0..5 /\ works' \subseteq Works
            BY <1>0, <3>2, <3>3, <3>5
        <3>7. pt_parent_long_rd_id' \in 0..1 /\ pt_association_retries' \in 0..MaxRetries - 1
            BY <1>0, <1>a, <3>2, <3>4
        <3> QED
            BY <1>0, <1>1, <3>1, <3>6, <3>7
    <2>2. CASE process_association_release_event
        BY <1>0, <1>1, <2>2, Recovery
           DEF process_association_release_event, Receives, linkVars, recoveryVars
    <2>3. CASE process_op_cluster_beacon_receive_event
        BY <1>0, <1>1, <2>3
           DEF process_op_cluster_beacon_receive_event, Receives, linkVars, Works
    <2>4. CASE process_cluster_beacon_event \/ process_op_network_scan_event
               \/ process_op_network_scan_stop_event
        BY <1>0, <1>1, <2>4
           DEF process_cluster_beacon_event, process_op_network_scan_event,
               process_op_network_scan_stop_event, Receives, linkVars, recoveryVars
    <2> QED
        BY <1>5, <2>1, <2>2, <2>3, <2>4 DEF EventLoop
<1>6. CASE Modem
    BY <1>0, <1>1, <1>6
       DEF Modem, Answer, HearsBeacon, ScanEnds, Subscribed, Associated, LinkReleased,
           RxFailure, cb_ntf_cluster_beacon_rx_failure, ReleaseAndResubscribe, NoThread,
           ModemIdle, linkVars, modeVars, recoveryVars, Works
<1>7. CASE UNCHANGED vars
    BY <1>0, <1>1, <1>7 DEF vars, linkVars, modeVars, recoveryVars
<1> QED
    BY <1>2, <1>3, <1>4, <1>5, <1>6, <1>7 DEF Next

LEMMA TypeInit == Init => TypeInv
<1> SUFFICES ASSUME Init PROVE TypeInv
    OBVIOUS
<1>1. StateType
    <2>1. on_channel \in BOOLEAN /\ carrier \in BOOLEAN
        BY Assumptions DEF Init
    <2>2. Flags \subseteq BOOLEAN
        BY <2>1, FlagFacts, Zenon DEF Init, LinkFlags, ScanFlags, ModeFlags, ChannelFlags
    <2>3. 0 \in 0..MaxRetries - 1
        BY Assumptions
    <2> QED
        BY <2>2, <2>3 DEF Init, StateType
<1>2. QueueType /\ BoundType
    BY Assumptions DEF Init, QueueType, BoundType
<1>3. WaitType /\ ModemType /\ ThreadType
    BY OpNames DEF Init, WaitType, ModemType, ThreadType
<1> QED
    BY <1>1, <1>2, <1>3 DEF TypeInv

LEMMA Types == Spec => []TypeInv
<1>1. TypeInv /\ [Next]_vars => TypeInv'
    BY StateNext, QueueNext, WaitNext, ModemNext, BoundNext, ThreadNext DEF TypeInv
<1> QED
    BY <1>1, TypeInit, PTL DEF Spec

\* Every variable keeps its type: the queue never holds more events than its
\* array, and the counters of retries and recoveries stay below their limits.
THEOREM LinkTypes == Spec => []TypeOK
BY Types, TypeSplit, PTL

-----------------------------------------------------------------------------
(* The mutex.  Who holds it has the step that gives it back at the end of  *)
(* its list, and every step before it either cannot fail or leads there.   *)

\* The shell holds the mutex exactly as long as giving it back is still before
\* it: no error on any way through start_pt_scan_mode, init_mac and
\* wait_for_prepared_operation leaves cmd_pt_scan without k_mutex_unlock, and
\* none leads there twice.
MutexGivenBack ==
    app_mutex = "shell" <=>
        \E i \in 1..Len(todo["shell"]) : todo["shell"][i].do = "unlock"

\* A failure of these steps does not keep the thread from what follows them.
Harmless == {"stop_scan", "cancel_works", "reset_link_state"}
HandledBy(s, handlers) ==
    \A i \in 1..Len(s) :
        s[i].do # "unlock" /\ (s[i].do \in Harmless \/ s[i].orElse \in handlers)
Unlocked == {"return", "recover_later", "pt_known"}
Held(s) ==
    /\ s # <<>> /\ s[Len(s)].do = "unlock"
    /\ \A i \in 1..Len(s) - 1 :
          s[i].do # "unlock" /\ (s[i].do \in Harmless \/ s[i].orElse = "unlock")
MutexInv ==
    /\ IF app_mutex = "shell" THEN Held(todo["shell"]) ELSE HandledBy(todo["shell"], Unlocked)
    /\ HandledBy(todo["work"], Unlocked) /\ HandledBy(todo["main"], Unlocked)

LEMMA HandledConcat ==
    ASSUME NEW s1 \in Seq(Step), NEW s2 \in Seq(Step), NEW hs,
           HandledBy(s1, hs), HandledBy(s2, hs)
    PROVE  s1 \o s2 \in Seq(Step) /\ HandledBy(s1 \o s2, hs)
BY DEF HandledBy

LEMMA HandledInitMac ==
    ASSUME NEW r \in BOOLEAN, NEW h \in {"return", "unlock", "recover_later"}
    PROVE  /\ HandledBy(InitMac(r, h), {h}) /\ HandledBy(ScanMode(h), {h})
           /\ HandledBy(StopActivity, {})
<1>1. HandledBy(StopActivity, {}) /\ HandledBy(StopActivity, {h}) /\ StopActivity \in Seq(Step)
    BY ListFacts DEF HandledBy, StopActivity, Do, Harmless
<1>2. ASSUME NEW b \in BOOLEAN PROVE HandledBy(InitMac(b, h), {h})
    <2> DEFINE off == <<Try("deactivate", h), Do("reset_link_state")>>
               set == IF b THEN <<Try("configure", h)>> ELSE <<>>
               on == <<Try("activate", h)>>
    <2>0. /\ Try("deactivate", h) \in Step /\ Do("reset_link_state") \in Step
          /\ Try("configure", h) \in Step /\ Try("activate", h) \in Step
        BY StepFacts, OpNames DEF OtherSteps
    <2>1. off \in Seq(Step) /\ set \in Seq(Step) /\ on \in Seq(Step)
        BY <2>0
    <2>2. HandledBy(off, {h}) /\ HandledBy(set, {h}) /\ HandledBy(on, {h})
        BY DEF HandledBy, Do, Try, Harmless
    <2> HIDE DEF off, set, on
    <2>3. HandledBy(StopActivity \o off, {h}) /\ StopActivity \o off \in Seq(Step)
        BY <1>1, <2>1, <2>2, HandledConcat
    <2>4. HandledBy((StopActivity \o off) \o set, {h}) /\ (StopActivity \o off) \o set \in Seq(Step)
        BY <2>1, <2>2, <2>3, HandledConcat
    <2>5. HandledBy(((StopActivity \o off) \o set) \o on, {h})
        BY <2>1, <2>2, <2>4, HandledConcat
    <2> QED
        BY <2>5 DEF InitMac, off, set, on
<1>3. InitMac(TRUE, h) \in Seq(Step) /\ <<Try("start_pt_scan_mode", h)>> \in Seq(Step)
    <2>1. InitMac(TRUE, h) \in Seq(Step)
        BY ListFacts, Zenon
    <2>2. <<Try("start_pt_scan_mode", h)>> \in Seq(Step)
        <3>1. "start_pt_scan_mode" \in OtherSteps /\ h \in Handlers
            BY DEF OtherSteps, Handlers
        <3> QED
            BY <3>1, StepFacts
    <2> QED
        BY <2>1, <2>2
<1>4. HandledBy(<<Try("start_pt_scan_mode", h)>>, {h})
    BY DEF HandledBy, Try
<1>5. HandledBy(ScanMode(h), {h})
    BY <1>2, <1>3, <1>4, HandledConcat DEF ScanMode
<1> QED
    BY <1>1, <1>2, <1>5

\* What the threads begin without the mutex never leads to giving it back.
LEMMA HandledLists ==
    /\ HandledBy(InitMac(FALSE, "return"), Unlocked) /\ HandledBy(ScanMode("return"), Unlocked)
    /\ HandledBy(ConfigureFt, Unlocked)
    /\ \A d \in {"pt_fast", "pt_cold"} :
          /\ InitMac(TRUE, "return") \o <<Do(d), Do("network_scan")>> \in Seq(Step)
          /\ HandledBy(InitMac(TRUE, "return") \o <<Do(d), Do("network_scan")>>, Unlocked)
    /\ HandledBy(StopActivity \o <<Do("beacon_subscribe")>>, Unlocked)
    /\ HandledBy(StopActivity \o InitMac(TRUE, "recover_later")
                 \o <<Do("recovery_state"), Do("recovery_scan")>>, Unlocked)
<1>1. ASSUME NEW s, NEW h \in Unlocked, HandledBy(s, {h}) PROVE HandledBy(s, Unlocked)
    BY <1>1 DEF HandledBy
<1>2. ASSUME NEW r \in BOOLEAN, NEW h \in {"return", "recover_later"}
      PROVE  HandledBy(InitMac(r, h), Unlocked) /\ HandledBy(ScanMode(h), Unlocked)
             /\ InitMac(r, h) \in Seq(Step)
    BY <1>1, HandledInitMac, ListFacts DEF Unlocked
<1>3. HandledBy(StopActivity, Unlocked) /\ StopActivity \in Seq(Step)
    BY HandledInitMac, ListFacts DEF HandledBy
<1>4. ASSUME NEW d \in OtherSteps \ {"unlock"} PROVE <<Do(d)>> \in Seq(Step) /\ HandledBy(<<Do(d)>>, Unlocked)
    BY StepFacts DEF HandledBy, Do, Unlocked
<1>5. ASSUME NEW d \in OtherSteps \ {"unlock"}, NEW e \in OtherSteps \ {"unlock"}
      PROVE  <<Do(d), Do(e)>> \in Seq(Step) /\ HandledBy(<<Do(d), Do(e)>>, Unlocked)
    BY StepFacts DEF HandledBy, Do, Unlocked
<1>6. HandledBy(ConfigureFt, Unlocked)
    <2> DEFINE start == IF ft_post_scan THEN StopActivity \o <<Do("reset_link_state")>>
                        ELSE InitMac(FALSE, "return")
               rest == <<Do("cluster_configure"), Do("network_beacon"), Do("ft_mode")>>
    <2>1. start \in Seq(Step) /\ HandledBy(start, Unlocked)
        BY <1>2, <1>3, <1>4, HandledConcat DEF OtherSteps, Unlocked
    <2>2. rest \in Seq(Step)
        BY StepFacts, OpNames DEF OtherSteps
    <2>3. HandledBy(rest, Unlocked)
        BY DEF HandledBy, Do, Unlocked
    <2> HIDE DEF start, rest
    <2>4. HandledBy(start \o rest, Unlocked)
        BY <2>1, <2>2, <2>3, HandledConcat
    <2> QED
        BY <2>4 DEF ConfigureFt, start, rest
<1>7. \A d \in {"pt_fast", "pt_cold"} :
          /\ InitMac(TRUE, "return") \o <<Do(d), Do("network_scan")>> \in Seq(Step)
          /\ HandledBy(InitMac(TRUE, "return") \o <<Do(d), Do("network_scan")>>, Unlocked)
    BY <1>2, <1>5, HandledConcat DEF OtherSteps, Unlocked
<1>8. HandledBy(StopActivity \o <<Do("beacon_subscribe")>>, Unlocked)
    BY <1>3, <1>4, HandledConcat DEF OtherSteps
<1>9. HandledBy(StopActivity \o InitMac(TRUE, "recover_later"), Unlocked)
      /\ StopActivity \o InitMac(TRUE, "recover_later") \in Seq(Step)
    BY <1>2, <1>3, HandledConcat DEF Unlocked
<1>10. HandledBy((StopActivity \o InitMac(TRUE, "recover_later"))
                 \o <<Do("recovery_state"), Do("recovery_scan")>>, Unlocked)
    BY <1>5, <1>9, HandledConcat DEF OtherSteps
<1> QED
    BY <1>2, <1>6, <1>7, <1>8, <1>10 DEF Unlocked

\* A step gives the mutex back, or leaves it and goes on in its list, unless
\* it fails and may.
LEMMA StepsAndMutex ==
    ASSUME TypeInv, NEW t \in Threads, StepOf(t)
    PROVE  \/ Unlock(t)
           \/ /\ todo[t] # <<>> /\ Head(todo[t]).do # "unlock" /\ app_mutex' = app_mutex
              /\ \/ UNCHANGED todo
                 \/ Continue(t)
                 \/ Fail(t) /\ Head(todo[t]).do \notin Harmless
<1>1. ASSUME Head(todo[t]).do \in WaitOps, WaitOver(t, TRUE) \/ WaitOver(t, FALSE)
      PROVE  Continue(t) \/ (Fail(t) /\ Head(todo[t]).do \notin Harmless)
    BY <1>1, OpNames DEF WaitOver, Harmless
<1>2. CASE Request(t)
    <2> PICK op \in WaitOps :
            At(t, op) /\ app_mutex' = app_mutex /\ (UNCHANGED todo \/ WaitOver(t, FALSE))
        BY <1>2 DEF Request
    <2> QED
        BY <1>1, OpNames DEF At
<1>3. CASE Wait(t)
    <2>1. app_mutex' = app_mutex /\ t \in waiting
        BY <1>3 DEF Wait, WaitTaken, WaitToken, WaitTimeout, Waits
    <2>2. todo[t] # <<>> /\ Head(todo[t]).do \in WaitOps
        BY <2>1 DEF TypeInv, ThreadType
    <2>3. WaitOver(t, TRUE) \/ WaitOver(t, FALSE)
        BY <1>3 DEF Wait, WaitTaken, WaitToken, WaitTimeout, WaitOver
    <2> QED
        BY <1>1, <2>1, <2>2, <2>3, OpNames
<1>4. CASE start_pt_scan_mode(t)
    BY <1>4 DEF start_pt_scan_mode, At, Harmless
<1>5. CASE NothingToStop(t) \/ cancel_works(t) \/ reset_link_state(t)
    BY <1>5 DEF NothingToStop, cancel_works, reset_link_state, At
<1>6. CASE PtSynced(t) \/ PtState(t) \/ PtScan(t) \/ FtSteps(t)
    BY <1>6 DEF PtSynced, PtState, PtScan, FtSteps, At, Harmless
<1>7. CASE PtSubscribe(t) \/ BeaconSubscribe(t) \/ Resubscribe(t) \/ NoBeacon(t)
    BY <1>7 DEF PtSubscribe, BeaconSubscribe, Resubscribe, NoBeacon, At
<1>8. CASE RecoveryState(t) \/ RecoveryScan(t) \/ RecoverLater(t)
    BY <1>8 DEF RecoveryState, RecoveryScan, RecoverLater, At
<1> QED
    BY <1>2, <1>3, <1>4, <1>5, <1>6, <1>7, <1>8 DEF StepOf

\* A list without the mutex, or with it, is one still after a step of it.
LEMMA HandledRest ==
    ASSUME NEW s \in Seq(Step), s # <<>>
    PROVE  /\ HandledBy(s, Unlocked)
              => /\ HandledBy(Tail(s), Unlocked)
                 /\ Head(s).do \notin Harmless => HandledBy(Handler(Head(s).orElse), Unlocked)
           /\ Held(s) /\ Head(s).do # "unlock"
              => /\ Held(Tail(s))
                 /\ Head(s).do \notin Harmless => Held(Handler(Head(s).orElse))
           /\ Held(s) /\ Head(s).do = "unlock" => Tail(s) = <<>>
           /\ HandledBy(s, Unlocked) => Head(s).do # "unlock"
<1>1. /\ Len(s) \in Nat /\ Len(s) > 0 /\ Head(s) = s[1] /\ Len(Tail(s)) = Len(s) - 1
      /\ \A i \in 1..Len(Tail(s)) : Tail(s)[i] = s[i + 1]
    OBVIOUS
<1>2. ASSUME HandledBy(s, Unlocked) PROVE HandledBy(Tail(s), Unlocked) /\ Head(s).do # "unlock"
    BY <1>1, <1>2 DEF HandledBy
<1>3. ASSUME NEW h \in Unlocked PROVE HandledBy(Handler(h), Unlocked)
    BY <1>3 DEF Handler, HandledBy, Unlocked, Do
<1>4. ASSUME HandledBy(s, Unlocked), Head(s).do \notin Harmless
      PROVE  HandledBy(Handler(Head(s).orElse), Unlocked)
    BY <1>1, <1>3, <1>4 DEF HandledBy
<1>5. ASSUME Held(s), Head(s).do # "unlock"
      PROVE  Held(Tail(s)) /\ (Head(s).do \notin Harmless => Head(s).orElse = "unlock")
    <2>1. Len(s) > 1
        BY <1>1, <1>5 DEF Held
    <2>2. Len(Tail(s)) # 0 /\ Tail(s)[Len(Tail(s))] = s[Len(s)]
        BY <1>1, <2>1
    <2>3. Tail(s) # <<>>
        BY <2>2, EmptySeq
    <2> QED
        BY <1>1, <1>5, <2>1, <2>2, <2>3 DEF Held
<1>6. Held(Handler("unlock"))
    BY DEF Held, Handler, Do
<1>7. ASSUME Held(s), Head(s).do = "unlock" PROVE Tail(s) = <<>>
    <2>1. Len(s) = 1
        BY <1>1, <1>7 DEF Held
    <2>2. Tail(s) \in Seq(Step) /\ Len(Tail(s)) = 0
        BY <1>1, <2>1
    <2> QED
        BY <2>2, EmptySeq
<1> QED
    BY <1>2, <1>4, <1>5, <1>6, <1>7

LEMMA StepMutex == ASSUME TypeInv, MutexInv, NEW t \in Threads, StepOf(t) PROVE MutexInv'
<1>0. todo \in [Threads -> Seq(Step)]
    BY DEF TypeInv, ThreadType
<1>1. todo[t] \in Seq(Step)
    BY <1>0
<1>2. Threads = {"shell", "work", "main"}
    BY DEF Threads
<1>3. CASE Unlock(t)
    <2>1. todo[t] # <<>> /\ Head(todo[t]).do = "unlock" /\ Continue(t) /\ app_mutex' = "free"
        BY <1>3 DEF Unlock, At
    <2>2. t = "shell" /\ app_mutex = "shell"
        BY <1>1, <1>2, <2>1, HandledRest DEF MutexInv
    <2>3. Tail(todo[t]) = <<>>
        BY <1>1, <2>1, <2>2, HandledRest DEF MutexInv
    <2>4. todo'["shell"] = <<>> /\ todo'["work"] = todo["work"] /\ todo'["main"] = todo["main"]
        BY <1>0, <1>2, <2>1, <2>2, <2>3 DEF Continue, Goto
    <2> QED
        BY <2>1, <2>4 DEF MutexInv, HandledBy
<1>4. ASSUME ~Unlock(t) PROVE MutexInv'
    <2>1. /\ todo[t] # <<>> /\ Head(todo[t]).do # "unlock" /\ app_mutex' = app_mutex
          /\ \/ UNCHANGED todo
             \/ Continue(t)
             \/ Fail(t) /\ Head(todo[t]).do \notin Harmless
        BY <1>4, StepsAndMutex
    <2>2. CASE UNCHANGED todo
        BY <2>1, <2>2 DEF MutexInv
    <2>3. CASE ~UNCHANGED todo
        <3>1. PICK s : /\ Goto(t, s)
                       /\ HandledBy(todo[t], Unlocked) => HandledBy(s, Unlocked)
                       /\ Held(todo[t]) => Held(s)
            BY <1>1, <2>1, <2>3, HandledRest DEF Continue, Fail
        <3>2. todo'[t] = s /\ \A u \in Threads \ {t} : todo'[u] = todo[u]
            BY <1>0, <3>1 DEF Goto
        <3> QED
            BY <1>2, <2>1, <3>1, <3>2 DEF MutexInv
    <2> QED
        BY <2>2, <2>3
<1> QED
    BY <1>3, <1>4

\* A command that is given, a work or an event: the thread had nothing to do.
LEMMA ShellMutex == ASSUME TypeInv, MutexInv, Shell PROVE MutexInv'
<1>0. todo \in [Threads -> Seq(Step)] /\ "shell" \in Threads /\ app_mutex \in {"free", "shell"}
    BY DEF TypeInv, ThreadType, StateType, Threads
<1>1. todo["shell"] = <<>>
    BY DEF Shell, cmd_stop, cmd_ft, cmd_scan, cmd_pt_scan, cmd_pt, restart_current_mode, cmd_send,
           Command
<1>2. app_mutex = "free"
    BY <1>0, <1>1 DEF MutexInv, Held
<1>3. ASSUME NEW s, HandledBy(s, Unlocked), Goto("shell", s), app_mutex' = app_mutex
      PROVE  MutexInv'
    <2>1. todo'["shell"] = s /\ todo'["work"] = todo["work"] /\ todo'["main"] = todo["main"]
        BY <1>0, <1>3 DEF Goto, Threads
    <2> QED
        BY <1>2, <1>3, <2>1 DEF MutexInv
<1>4. CASE cmd_pt_scan
    <2> DEFINE s == ScanMode("unlock") \o <<Do("unlock")>>
    <2>1. HandledBy(ScanMode("unlock"), {"unlock"})
        BY HandledInitMac
    <2>2. ScanMode("unlock") \in Seq(Step)
        BY ListFacts, Zenon
    <2>3. <<Do("unlock")>> \in Seq(Step) /\ Do("unlock").do = "unlock"
        BY StepFacts DEF OtherSteps
    <2>4. Held(s)
        BY <2>1, <2>2, <2>3 DEF Held, HandledBy
    <2>5. app_mutex' = "shell" /\ Goto("shell", s)
        BY <1>4 DEF cmd_pt_scan
    <2>6. todo'["shell"] = s /\ todo'["work"] = todo["work"] /\ todo'["main"] = todo["main"]
        BY <1>0, <2>5 DEF Goto, Threads
    <2> QED
        BY <2>4, <2>5, <2>6 DEF MutexInv
<1>5. CASE cmd_stop
    BY <1>3, <1>5, HandledLists DEF cmd_stop
<1>6. CASE cmd_ft
    BY <1>3, <1>6, HandledLists DEF cmd_ft
<1>7. CASE cmd_scan
    <2>1. HandledBy(<<Do("rssi_scan"), Do("post_scan")>>, Unlocked)
        BY DEF HandledBy, Do, Unlocked
    <2> QED
        BY <1>3, <1>7, <2>1 DEF cmd_scan
<1>8. CASE cmd_pt
    <2>1. HandledBy(<<Try("modem_synced", "pt_known")>>, Unlocked)
          /\ <<Try("modem_synced", "pt_known")>> \in Seq(Step)
        <3>1. Try("modem_synced", "pt_known") \in Step
            BY StepFacts DEF OtherSteps
        <3> QED
            BY <3>1 DEF HandledBy, Try, Unlocked
    <2>2. HandledBy(<<Try("modem_synced", "pt_known")>>
             \o (InitMac(TRUE, "return") \o <<Do("pt_cold"), Do("network_scan")>>), Unlocked)
        BY <2>1, HandledLists, HandledConcat
    <2> QED
        BY <1>3, <1>8, <2>2, HandledLists DEF cmd_pt
<1>9. CASE restart_current_mode
    BY <1>3, <1>9, HandledLists DEF restart_current_mode
<1>10. CASE cmd_send
    BY <1>10 DEF cmd_send, MutexInv
<1> QED
    BY <1>4, <1>5, <1>6, <1>7, <1>8, <1>9, <1>10 DEF Shell

LEMMA OthersMutex == ASSUME TypeInv, MutexInv, Work \/ EventLoop \/ Modem PROVE MutexInv'
<1>0. todo \in [Threads -> Seq(Step)] /\ Threads = {"shell", "work", "main"}
    BY DEF TypeInv, ThreadType, Threads
<1>1. ASSUME NEW t \in {"work", "main"}, NEW s, HandledBy(s, Unlocked), Goto(t, s),
             app_mutex' = app_mutex
      PROVE  MutexInv'
    <2>1. todo'[t] = s /\ \A u \in Threads \ {t} : todo'[u] = todo[u]
        BY <1>0, <1>1 DEF Goto
    <2> QED
        BY <1>0, <1>1, <2>1 DEF MutexInv
<1>2. ASSUME NEW d \in OtherSteps \ {"unlock"} PROVE HandledBy(<<Do(d)>>, Unlocked)
    BY DEF HandledBy, Do, Unlocked
<1>3. CASE Work
    <2>1. app_mutex' = app_mutex
        BY <1>3 DEF Work, pt_associate_work, pt_resubscribe_work, pt_subscribe_timeout,
                    pt_recovery_work, Runs
    <2>2. UNCHANGED todo \/ \E s : HandledBy(s, Unlocked) /\ Goto("work", s)
        <3>1. /\ HandledBy(<<Do("resubscribe")>>, Unlocked)
              /\ HandledBy(<<Do("cannot_resubscribe")>>, Unlocked)
              /\ HandledBy(<<Do("no_beacon")>>, Unlocked)
            BY <1>2 DEF OtherSteps
        <3> QED
            BY <1>3, <3>1, HandledLists
               DEF Work, pt_associate_work, pt_resubscribe_work, pt_subscribe_timeout,
                   pt_recovery_work
    <2> QED
        BY <1>1, <2>1, <2>2 DEF MutexInv
<1>4. CASE EventLoop
    <2>1. app_mutex' = app_mutex
        BY <1>4 DEF EventLoop, process_cluster_beacon_event, process_op_network_scan_event,
               process_op_network_scan_stop_event, process_op_cluster_beacon_receive_event,
               process_ntf_association_event, process_association_release_event, Receives
    <2>2. UNCHANGED todo \/ Goto("main", StopActivity \o <<Do("beacon_subscribe")>>)
        BY <1>4 DEF EventLoop, process_cluster_beacon_event, process_op_network_scan_event,
               process_op_network_scan_stop_event, process_op_cluster_beacon_receive_event,
               process_ntf_association_event, process_association_release_event
    <2> QED
        BY <1>1, <2>1, <2>2, HandledLists DEF MutexInv
<1>5. CASE Modem
    <2>1. app_mutex' = app_mutex
        BY <1>5 DEF Modem, Answer, HearsBeacon, ScanEnds, Subscribed, Associated, LinkReleased,
                    RxFailure, cb_ntf_cluster_beacon_rx_failure, ReleaseAndResubscribe, ModemIdle
    <2>2. UNCHANGED todo
        BY <1>5, ModemThread DEF threadVars
    <2> QED
        BY <2>1, <2>2 DEF MutexInv
<1> QED
    BY <1>3, <1>4, <1>5

LEMMA MutexKept == TypeInv /\ MutexInv => MutexGivenBack
<1> SUFFICES ASSUME TypeInv, MutexInv PROVE MutexGivenBack
    OBVIOUS
<1>1. todo["shell"] \in Seq(Step)
    BY DEF TypeInv, ThreadType, Threads
<1>2. Held(todo["shell"]) => \E i \in 1..Len(todo["shell"]) : todo["shell"][i].do = "unlock"
    BY <1>1 DEF Held
<1> QED
    BY <1>2 DEF MutexInv, HandledBy, MutexGivenBack

\* Whatever commands are given and whatever fails in them, the shell gives
\* app_mutex back at the end of the command that took it, exactly once, and no
\* other thread does.
THEOREM MutexReturned == Spec => []MutexGivenBack
<1>1. Init => MutexInv
    BY DEF Init, MutexInv, HandledBy, Threads
<1>2. TypeInv /\ MutexInv /\ [Next]_vars => MutexInv'
    <2>1. UNCHANGED vars /\ MutexInv => MutexInv'
        BY DEF vars, threadVars, MutexInv
    <2> QED
        BY <2>1, StepMutex, ShellMutex, OthersMutex DEF Next
<1> QED
    BY <1>1, <1>2, Types, MutexKept, PTL DEF Spec

-----------------------------------------------------------------------------
(* One association at a time.  A PT that one command starts, whose event   *)
(* loop keeps up and whose requests are neither refused a wait nor         *)
(* answered late, does one thing at a time: it is in one of these phases.  *)

OnePt == (\A s \in Scripts : s = <<"PT">>) /\ Prompt /\ {"late", "refuse_wait", "refuse_release"} \cap Faults = {}

\* The queue holds only what a scan leaves behind, or that and one last event.
Leftovers == {"CLUSTER_BEACON", "OP_NETWORK_SCAN", "OP_NETWORK_SCAN_STOP"}
OldBut(types) ==
    \A i \in 1..Len(app_evt_msgq) :
        \/ app_evt_msgq[i].type \in Leftovers
        \/ i = Len(app_evt_msgq) /\ app_evt_msgq[i].type \in types
Old == OldBut({})
No(type) == \A i \in 1..Len(app_evt_msgq) : app_evt_msgq[i].type # type

\* Only thread t has something to do.  If it waits, for its answer.
Alone(t) ==
    /\ \A u \in Threads \ {t} : todo[u] = <<>> /\ u \notin waiting
    /\ IF t \in waiting
       THEN /\ current_wait = Reason(t)
            /\ \/ asked = <<Head(todo[t]).do>> /\ op_sem = 0
               \/ asked = <<>> /\ op_sem = 1
       ELSE asked = <<>>
NobodyRuns == (\A u \in Threads : todo[u] = <<>>) /\ waiting = {} /\ asked = <<>>

NoReport == link = "off" /\ subscription # "asked" /\ callback = "idle"
RadioOff == scan = "off" /\ NoReport
NoScan == scan = "off" /\ ~pt_scan_in_progress /\ ~pt_pending_subscribe

Start ==
    /\ commands = <<"PT">> /\ ~in_table /\ works = {} /\ app_evt_msgq = <<>>
    /\ NobodyRuns /\ RadioOff /\ NoScan

\* cmd_pt or pt_recovery_work has the modem set up and starts a scan.
Settings == {"stop_scan", "cancel_works", "deactivate", "reset_link_state", "configure", "activate"}
SettingList(s) ==
    /\ s # <<>>
    /\ \A i \in 1..Len(s) :
        /\ s[i].orElse \in {"return", "recover_later"}
        /\ s[i].do \in IF i = Len(s) THEN {"network_scan", "recovery_scan"}
                       ELSE IF i + 1 = Len(s) THEN {"pt_fast", "pt_cold", "recovery_state"}
                       ELSE Settings
SettingBy(t) ==
    /\ Alone(t) /\ SettingList(todo[t])
    /\ t \in waiting => Len(todo[t]) > 2 /\ Head(todo[t]).do # "stop_scan"
    /\ IF Len(todo[t]) = 1 THEN pt_scan_in_progress ELSE NoScan
Setting ==
    /\ works = {} /\ app_evt_msgq = <<>> /\ RadioOff
    /\ \E t \in {"shell", "work"} : SettingBy(t)

Scanning ==
    /\ works = {} /\ NobodyRuns /\ NoReport
    /\ pt_scan_in_progress
    /\ Old /\ No("OP_NETWORK_SCAN_STOP") /\ (scan # "off" => No("OP_NETWORK_SCAN"))

\* process_cluster_beacon_event stops the scan.
Stopping ==
    /\ works = {} /\ Old /\ NoReport /\ ~pt_pending_subscribe /\ Alone("main")
    /\ \/ /\ todo["main"] = StopActivity \o <<Do("beacon_subscribe")>>
          /\ pt_scan_in_progress
          /\ "main" \in waiting /\ asked = <<>> => scan = "off"
       \/ /\ todo["main"] \in {<<Do("cancel_works"), Do("beacon_subscribe")>>,
                               <<Do("beacon_subscribe")>>}
          /\ "main" \notin waiting /\ NoScan

Subscribing ==
    /\ works = {"subscribe_timeout"} /\ NobodyRuns /\ NoScan
    /\ link = "off" /\ callback = "idle"
    /\ OldBut({"OP_CLUSTER_BEACON_RECEIVE"}) /\ (subscription = "asked" => Old)

\* A work is due, or has begun.
Due ==
    /\ works \in {{"associate"}, {"recovery"}} /\ NobodyRuns /\ NoScan
    /\ RadioOff /\ Old
Begun(t) ==
    /\ Alone(t) /\ t \notin waiting
    /\ \E s \in {"no_beacon", "recover_later", "resubscribe", "cannot_resubscribe"} :
          todo[t] = <<Do(s)>>
Single ==
    /\ works = {} /\ NoScan /\ RadioOff /\ app_evt_msgq = <<>>
    /\ \E t \in {"shell", "work"} : Begun(t)

\* There is a link, one is asked for, or there is none.
LinkEvents == {"NTF_ASSOCIATION", "ASSOCIATION_RELEASE"}
Success(event) == event.type \in Leftovers \/ (event.type = "NTF_ASSOCIATION" /\ event.status = "ok")
Idle ==
    /\ works = {} /\ NobodyRuns /\ NoScan /\ subscription # "asked"
    /\ link # "releasing" /\ OldBut(LinkEvents)
    /\ link = "asked" \/ callback # "idle" => Old
    /\ callback # "idle" => link = "on"
    /\ link # "off" => \A i \in 1..Len(app_evt_msgq) : Success(app_evt_msgq[i])

Releasing ==
    /\ works = {"resubscribe"} /\ NobodyRuns /\ NoScan /\ subscription # "asked"
    /\ callback = "idle" /\ link \in {"releasing", "off"}
    /\ OldBut({"ASSOCIATION_RELEASE"}) /\ (link = "releasing" => Old)

Phase == Setting \/ Scanning \/ Stopping \/ Subscribing \/ Due \/ Single \/ Idle \/ Releasing
PhaseInv == app_mutex = "free" /\ (Start \/ (commands = <<>> /\ Phase))

-----------------------------------------------------------------------------
(* What cannot happen, and which step a thread takes.                      *)

LEMMA NoCommand == commands = <<>> => ~Shell
BY DEF Shell, cmd_stop, cmd_ft, cmd_scan, cmd_pt_scan, cmd_pt, restart_current_mode, cmd_send, Command

LEMMA NoWork == works = {} => ~Work
BY DEF Work, pt_associate_work, pt_resubscribe_work, pt_subscribe_timeout, pt_recovery_work, Runs

LEMMA NoEvent == app_evt_msgq = <<>> \/ todo["main"] # <<>> => ~EventLoop
BY DEF EventLoop, process_cluster_beacon_event, process_op_network_scan_event,
       process_op_network_scan_stop_event, process_op_cluster_beacon_receive_event,
       process_ntf_association_event, process_association_release_event, Receives

LEMMA NoAnswer == RadioOff /\ asked = <<>> => ~Modem
BY DEF RadioOff, NoReport, Modem, Answer, HearsBeacon, ScanEnds, Subscribed, Associated, LinkReleased,
       RxFailure, cb_ntf_cluster_beacon_rx_failure, ReleaseAndResubscribe

LEMMA Heads ==
    ASSUME NEW t \in Threads
    PROVE  /\ Request(t) => \E op \in WaitOps : At(t, op)
           /\ NothingToStop(t) => At(t, "stop_scan")
           /\ cancel_works(t) => At(t, "cancel_works")
           /\ reset_link_state(t) => At(t, "reset_link_state")
           /\ PtSynced(t) => At(t, "modem_synced")
           /\ PtState(t) => At(t, "pt_known") \/ At(t, "pt_fast") \/ At(t, "pt_cold")
           /\ PtScan(t) => At(t, "network_scan")
           /\ start_pt_scan_mode(t) => At(t, "start_pt_scan_mode")
           /\ Unlock(t) => At(t, "unlock")
           /\ FtSteps(t) => At(t, "post_scan") \/ At(t, "ft_mode")
           /\ PtSubscribe(t) => At(t, "pt_subscribe")
           /\ BeaconSubscribe(t) => At(t, "beacon_subscribe")
           /\ Resubscribe(t) => At(t, "resubscribe") \/ At(t, "cannot_resubscribe")
           /\ NoBeacon(t) => At(t, "no_beacon")
           /\ RecoveryState(t) => At(t, "recovery_state")
           /\ RecoveryScan(t) => At(t, "recovery_scan")
           /\ RecoverLater(t) => At(t, "recover_later")
           /\ Wait(t) => t \in waiting
BY DEF Request, NothingToStop, Wait, WaitTaken, WaitToken, WaitTimeout, Waits, cancel_works,
       reset_link_state, PtSynced, PtState, PtScan, start_pt_scan_mode, Unlock, FtSteps, PtSubscribe,
       BeaconSubscribe, Resubscribe, NoBeacon, RecoveryState, RecoveryScan, RecoverLater

LEMMA NoStep == ASSUME NEW t \in Threads, todo[t] = <<>>, t \notin waiting PROVE ~StepOf(t)
BY Heads DEF StepOf, At

LEMMA WaitsOnly == ASSUME NEW t \in Threads, t \in waiting, StepOf(t) PROVE Wait(t)
BY Heads DEF StepOf, At

\* The step a thread is at is the one it takes.
LEMMA Which ==
    ASSUME NEW t \in Threads, t \notin waiting, StepOf(t)
    PROVE  LET d == Head(todo[t]).do
           IN  /\ d \in WaitOps => Request(t) \/ NothingToStop(t)
               /\ d = "cancel_works" => cancel_works(t)
               /\ d = "reset_link_state" => reset_link_state(t)
               /\ d \in {"pt_fast", "pt_cold"} => PtState(t) /\ ~At(t, "pt_known")
               /\ d = "network_scan" => PtScan(t)
               /\ d = "beacon_subscribe" => BeaconSubscribe(t)
               /\ d \in {"resubscribe", "cannot_resubscribe"} => Resubscribe(t)
               /\ d = "no_beacon" => NoBeacon(t)
               /\ d = "recovery_state" => RecoveryState(t)
               /\ d = "recovery_scan" => RecoveryScan(t)
               /\ d = "recover_later" => RecoverLater(t)
<1> DEFINE d == Head(todo[t]).do
<1>1. \A x : At(t, x) => d = x
    BY DEF At
<1>2. ~Wait(t)
    BY Heads
<1>3. Request(t) => d \in WaitOps
    BY <1>1, Heads
<1>4. /\ NothingToStop(t) => d = "stop_scan"
      /\ cancel_works(t) => d = "cancel_works"
      /\ reset_link_state(t) => d = "reset_link_state"
      /\ PtSynced(t) => d = "modem_synced"
      /\ PtState(t) => d \in {"pt_known", "pt_fast", "pt_cold"}
      /\ PtScan(t) => d = "network_scan"
      /\ start_pt_scan_mode(t) => d = "start_pt_scan_mode"
      /\ Unlock(t) => d = "unlock"
      /\ FtSteps(t) => d \in {"post_scan", "ft_mode"}
      /\ PtSubscribe(t) => d = "pt_subscribe"
      /\ BeaconSubscribe(t) => d = "beacon_subscribe"
      /\ Resubscribe(t) => d \in {"resubscribe", "cannot_resubscribe"}
      /\ NoBeacon(t) => d = "no_beacon"
      /\ RecoveryState(t) => d = "recovery_state"
      /\ RecoveryScan(t) => d = "recovery_scan"
      /\ RecoverLater(t) => d = "recover_later"
    BY <1>1, Heads
<1> QED
    BY <1>1, <1>2, <1>3, <1>4, OpNames DEF StepOf

-----------------------------------------------------------------------------
(* The lists of steps of cmd_pt and of pt_recovery_work.                   *)

PtHandlers == {"return", "recover_later"}
SetUp(s) == \A i \in 1..Len(s) : s[i].orElse \in PtHandlers /\ s[i].do \in Settings

LEMMA SetUpConcat ==
    ASSUME NEW r \in Seq(Step), NEW s \in Seq(Step), SetUp(r), SetUp(s)
    PROVE  r \o s \in Seq(Step) /\ SetUp(r \o s)
<1>1. /\ r \o s \in Seq(Step) /\ Len(r \o s) = Len(r) + Len(s)
      /\ \A i \in 1..Len(r) + Len(s) : (r \o s)[i] = IF i <= Len(r) THEN r[i] ELSE s[i - Len(r)]
    BY ConcatProperties
<1>2. ASSUME NEW i \in 1..Len(r \o s)
      PROVE  (r \o s)[i].orElse \in PtHandlers /\ (r \o s)[i].do \in Settings
    <2>1. CASE i <= Len(r)
        BY <1>1, <1>2, <2>1 DEF SetUp
    <2>2. CASE ~(i <= Len(r))
        <3>1. i - Len(r) \in 1..Len(s)
            BY <1>1, <2>2
        <3> QED
            BY <1>1, <1>2, <2>2, <3>1 DEF SetUp
    <2> QED
        BY <2>1, <2>2
<1> QED
    BY <1>1, <1>2 DEF SetUp

LEMMA SetUpThenScan ==
    ASSUME NEW s \in Seq(Step), SetUp(s), s # <<>>,
           NEW a \in {"pt_fast", "pt_cold", "recovery_state"}, NEW b \in {"network_scan", "recovery_scan"}
    PROVE  LET r == s \o <<Do(a), Do(b)>>
           IN  SettingList(r) /\ Len(r) \in Nat \ {0, 1, 2}
<1> DEFINE p == <<Do(a), Do(b)>>
           r == s \o p
<1>1. /\ Do(a) \in Step /\ Do(b) \in Step
      /\ Do(a).do = a /\ Do(b).do = b /\ Do(a).orElse = "return" /\ Do(b).orElse = "return"
    BY DEF Do, Step, Handlers, OtherSteps
<1>2. p \in Seq(Step) /\ Len(p) = 2 /\ p[1] = Do(a) /\ p[2] = Do(b)
    BY <1>1
<1>3. /\ r \in Seq(Step) /\ Len(r) = Len(s) + 2 /\ Len(s) \in Nat
      /\ \A i \in 1..Len(s) + 2 : r[i] = IF i <= Len(s) THEN s[i] ELSE p[i - Len(s)]
    BY <1>2, ConcatProperties
<1>4. Len(s) > 0
    BY EmptySeq, <1>3
<1> HIDE DEF r, p
<1>5. ASSUME NEW i \in 1..Len(r)
      PROVE  /\ r[i].orElse \in PtHandlers
             /\ r[i].do \in IF i = Len(r) THEN {"network_scan", "recovery_scan"}
                            ELSE IF i + 1 = Len(r) THEN {"pt_fast", "pt_cold", "recovery_state"}
                            ELSE Settings
    <2>1. CASE i <= Len(s)
        BY <1>3, <1>5, <2>1 DEF SetUp
    <2>2. CASE i = Len(s) + 1
        <3>1. r[i] = p[1]
            BY <1>3, <2>2
        <3> QED
            BY <1>1, <1>2, <1>3, <2>2, <3>1 DEF PtHandlers
    <2>3. CASE i = Len(s) + 2
        <3>1. r[i] = p[2]
            BY <1>3, <2>3
        <3> QED
            BY <1>1, <1>2, <1>3, <2>3, <3>1 DEF PtHandlers
    <2> QED
        BY <1>3, <1>5, <2>1, <2>2, <2>3
<1>6. r # <<>> /\ Len(r) \in Nat \ {0, 1, 2}
    BY <1>3, <1>4
<1> QED
    BY <1>5, <1>6 DEF SettingList, PtHandlers, r, p

LEMMA InitMacSetsUp ==
    ASSUME NEW h \in PtHandlers
    PROVE  /\ InitMac(TRUE, h) \in Seq(Step) /\ SetUp(InitMac(TRUE, h)) /\ InitMac(TRUE, h) # <<>>
           /\ StopActivity \o InitMac(TRUE, h) \in Seq(Step) /\ SetUp(StopActivity \o InitMac(TRUE, h))
           /\ StopActivity \o InitMac(TRUE, h) # <<>>
<1> DEFINE Fine(step) == step \in Step /\ step.orElse \in PtHandlers /\ step.do \in Settings
<1>0. ASSUME NEW d \in Settings PROVE d \in WaitOps \cup OtherSteps
    BY OpNames DEF Settings, OtherSteps
<1>1. \A d \in Settings : Fine(Do(d)) /\ Fine(Try(d, h))
    BY <1>0 DEF Do, Try, Step, Handlers, PtHandlers
<1>2. /\ Fine(Do("stop_scan")) /\ Fine(Do("cancel_works")) /\ Fine(Do("reset_link_state"))
      /\ Fine(Try("deactivate", h)) /\ Fine(Try("configure", h)) /\ Fine(Try("activate", h))
    <2> HIDE DEF Fine
    <2> QED
        BY <1>1 DEF Settings
<1>3. \A s, r : Fine(s) /\ Fine(r) => <<s, r>> \in Seq(Step) /\ SetUp(<<s, r>>)
    <2> SUFFICES ASSUME NEW s, NEW r, Fine(s), Fine(r) PROVE <<s, r>> \in Seq(Step) /\ SetUp(<<s, r>>)
        OBVIOUS
    <2>1. <<s, r>> \in Seq(Step) /\ Len(<<s, r>>) = 2 /\ <<s, r>>[1] = s /\ <<s, r>>[2] = r
        OBVIOUS
    <2> QED
        BY <2>1 DEF SetUp
<1>4. \A s : Fine(s) => <<s>> \in Seq(Step) /\ SetUp(<<s>>)
    <2> SUFFICES ASSUME NEW s, Fine(s) PROVE <<s>> \in Seq(Step) /\ SetUp(<<s>>)
        OBVIOUS
    <2>1. <<s>> \in Seq(Step) /\ Len(<<s>>) = 1 /\ <<s>>[1] = s
        OBVIOUS
    <2> QED
        BY <2>1 DEF SetUp
<1> HIDE DEF Fine
<1>5. StopActivity \in Seq(Step) /\ SetUp(StopActivity)
    BY <1>2, <1>3 DEF StopActivity
<1>6. <<Try("deactivate", h), Do("reset_link_state")>> \in Seq(Step)
      /\ SetUp(<<Try("deactivate", h), Do("reset_link_state")>>)
    BY <1>2, <1>3
<1>7. /\ <<Try("configure", h)>> \in Seq(Step) /\ SetUp(<<Try("configure", h)>>)
      /\ <<Try("activate", h)>> \in Seq(Step) /\ SetUp(<<Try("activate", h)>>)
    BY <1>2, <1>4
<1> DEFINE a == StopActivity \o <<Try("deactivate", h), Do("reset_link_state")>>
           b == a \o <<Try("configure", h)>>
           c == b \o <<Try("activate", h)>>
<1>8. a \in Seq(Step) /\ SetUp(a)
    BY <1>5, <1>6, SetUpConcat
<1>9. b \in Seq(Step) /\ SetUp(b)
    <2> HIDE DEF a
    <2> QED
        BY <1>7, <1>8, SetUpConcat
<1>10. c \in Seq(Step) /\ SetUp(c)
    <2> HIDE DEF b
    <2> QED
        BY <1>7, <1>9, SetUpConcat
<1>11. c # <<>>
    <2> HIDE DEF b
    <2> QED
        BY <1>7, <1>9
<1>12. InitMac(TRUE, h) = c
    BY DEF InitMac
<1> HIDE DEF c
<1>13. StopActivity \o c \in Seq(Step) /\ SetUp(StopActivity \o c)
    BY <1>5, <1>10, SetUpConcat
<1>14. StopActivity \o c # <<>>
    BY <1>5, <1>10, <1>11, ConcatProperties, EmptySeq
<1> QED
    BY <1>10, <1>11, <1>12, <1>13, <1>14

LEMMA SettingTail ==
    ASSUME NEW s \in Seq(Step), SettingList(s)
    PROVE  /\ s # <<>> /\ Head(s).orElse \in PtHandlers /\ Len(s) \in Nat /\ Len(s) > 0
           /\ Len(s) = 1 => Head(s).do \in {"network_scan", "recovery_scan"} /\ Tail(s) = <<>>
           /\ Len(s) = 2 => Head(s).do \in {"pt_fast", "pt_cold", "recovery_state"}
           /\ Len(s) > 2 => Head(s).do \in Settings
           /\ Len(s) > 1 => SettingList(Tail(s)) /\ Len(Tail(s)) = Len(s) - 1
<1>1. s # <<>> /\ Len(s) \in Nat /\ Len(s) > 0 /\ Head(s) = s[1]
    BY EmptySeq DEF SettingList
<1>2. /\ Tail(s) \in Seq(Step) /\ Len(Tail(s)) = Len(s) - 1
      /\ \A i \in 1..Len(s) - 1 : Tail(s)[i] = s[i + 1]
    BY <1>1, HeadTailProperties
<1>3. /\ Len(s) = 1 <=> Tail(s) = <<>>
      /\ Len(s) > 1 => Len(s) # 1
    <2>1. \A r \in Seq(Step) : r = <<>> <=> Len(r) = 0
        BY EmptySeq
    <2>2. Tail(s) = <<>> <=> Len(Tail(s)) = 0
        BY <1>2, <2>1, Zenon
    <2>3. Len(Tail(s)) = 0 <=> Len(s) = 1
        BY <1>1, <1>2
    <2>4. \A n \in Nat : n > 1 => n # 1
        OBVIOUS
    <2> QED
        BY <1>1, <2>2, <2>3, <2>4, Zenon
<1>4. /\ Head(s).orElse \in PtHandlers
      /\ Len(s) = 1 => Head(s).do \in {"network_scan", "recovery_scan"}
      /\ Len(s) = 2 => Head(s).do \in {"pt_fast", "pt_cold", "recovery_state"}
      /\ Len(s) > 2 => Head(s).do \in Settings
    BY <1>1 DEF SettingList, PtHandlers
<1>5. ASSUME Len(s) > 1 PROVE SettingList(Tail(s))
    <2>1. Tail(s) # <<>>
        BY <1>3, <1>5, Zenon
    <2>2. ASSUME NEW i \in 1..Len(s) - 1
          PROVE /\ Tail(s)[i].orElse \in PtHandlers
                /\ Tail(s)[i].do \in IF i = Len(s) - 1 THEN {"network_scan", "recovery_scan"}
                       ELSE IF i + 1 = Len(s) - 1 THEN {"pt_fast", "pt_cold", "recovery_state"}
                       ELSE Settings
        <3>1. i + 1 \in 1..Len(s) /\ Tail(s)[i] = s[i + 1]
            BY <1>1, <1>2
        <3> QED
            BY <1>1, <3>1 DEF SettingList, PtHandlers
    <2> QED
        BY <1>2, <2>1, <2>2 DEF SettingList, PtHandlers
<1> QED
    BY <1>1, <1>2, <1>3, <1>4, <1>5

-----------------------------------------------------------------------------
(* A thread that is alone: it asks, it is answered, it goes on.            *)

phaseVars == <<pt_scan_in_progress, pt_pending_subscribe, works, app_evt_msgq, app_mutex,
               callback, scan, subscription, link, commands>>

LEMMA OnlyOne ==
    ASSUME NEW t \in Threads, Alone(t), NEW u \in Threads, StepOf(u)
    PROVE  u = t
BY NoStep DEF Alone

LEMMA NoStepAtAll == ASSUME NobodyRuns, NEW u \in Threads PROVE ~StepOf(u)
BY NoStep DEF NobodyRuns

LEMMA AloneAfter ==
    ASSUME ThreadType, NEW t \in Threads, Alone(t), NEW s, Goto(t, s),
           waiting' = waiting \ {t}, asked' = <<>>
    PROVE  /\ Alone(t)' /\ todo'[t] = s /\ t \notin waiting'
           /\ s = <<>> => NobodyRuns'
<1>1. /\ todo'[t] = s
      /\ \A u \in Threads \ {t} : todo'[u] = todo[u]
    BY DEF ThreadType, Goto
<1>2. waiting' = {}
    BY DEF ThreadType, Alone
<1> QED
    BY <1>1, <1>2 DEF Alone, NobodyRuns

LEMMA AloneRequest ==
    ASSUME OnePt, ThreadType, NEW t \in Threads, Alone(t), t \notin waiting, Request(t)
    PROVE  /\ Alone(t)' /\ t \in waiting' /\ asked' # <<>>
           /\ Head(todo[t]).do = "stop_scan" => pt_scan_in_progress
           /\ UNCHANGED <<todo, phaseVars>>
<1>1. PICK op \in WaitOps :
          /\ At(t, op)
          /\ op = "stop_scan" => pt_scan_in_progress
          /\ op_sem' = 0 /\ current_wait' = WaitReason[op] /\ waiting' = waiting \cup {t}
          /\ asked' = Append(asked, op) /\ UNCHANGED <<todo, pt_scan_in_progress>>
    <2>1. ~Fault("refuse_wait")
        BY DEF Fault, OnePt
    <2> QED
        BY <2>1 DEF Request
<1>2. Head(todo[t]).do = op /\ asked = <<>>
    BY <1>1 DEF At, Alone
<1>3. asked' = <<op>>
    BY <1>1, <1>2
<1>4. Alone(t)'
    BY <1>1, <1>2, <1>3 DEF Alone, Reason
<1>5. UNCHANGED <<pt_pending_subscribe, works, app_evt_msgq, app_mutex, callback, scan, subscription,
                  link, commands>>
    BY DEF Request, recoveryVars, radioVars
<1> QED
    BY <1>1, <1>2, <1>3, <1>4, <1>5 DEF phaseVars

LEMMA AloneWait ==
    ASSUME OnePt, NEW t \in Threads, Alone(t), callback = "idle", Wait(t)
    PROVE  /\ t \in waiting /\ asked = <<>> /\ asked' = <<>> /\ waiting' = waiting \ {t}
           /\ \E ok \in BOOLEAN : WaitOver(t, ok)
           /\ UNCHANGED <<pt_pending_subscribe, works, app_evt_msgq, app_mutex, callback, scan,
                          subscription, link, commands>>
<1>1. t \in waiting /\ waiting' = waiting \ {t}
    BY DEF Wait, WaitTaken, WaitToken, WaitTimeout, Waits
<1>2. current_wait = Reason(t)
    BY <1>1 DEF Alone
<1>3. ~WaitTaken(t)
    BY <1>2 DEF WaitTaken
<1>4. ~WaitTimeout(t)
    <2> SUFFICES ASSUME WaitTimeout(t) PROVE FALSE
        OBVIOUS
    <2>1. op_sem = 0
        BY DEF WaitTimeout
    <2>2. asked = <<Head(todo[t]).do>>
        BY <1>1, <2>1 DEF Alone
    <2>3. ~NoMoreOf(t)
        BY <2>2 DEF NoMoreOf, Reason
    <2>4. Fault("late")
        BY <2>3 DEF WaitTimeout
    <2> QED
        BY <2>4 DEF Fault, OnePt
<1>5. WaitToken(t)
    BY <1>3, <1>4 DEF Wait
<1>6. op_sem = 1
    BY <1>5 DEF WaitToken
<1>7. asked = <<>>
    BY <1>1, <1>6 DEF Alone
<1>8. \E ok \in BOOLEAN : WaitOver(t, ok)
    BY <1>5 DEF WaitToken
<1>9. /\ asked' = asked
      /\ UNCHANGED <<pt_pending_subscribe, works, app_evt_msgq, app_mutex, callback, scan,
                     subscription, link, commands>>
    BY DEF Wait, recoveryVars, modemVars, radioVars
<1> QED
    BY <1>1, <1>7, <1>8, <1>9

LEMMA AloneAnswer ==
    ASSUME ThreadType, NEW t \in Threads, Alone(t), Answer
    PROVE  /\ t \in waiting /\ Alone(t)' /\ UNCHANGED <<todo, waiting>> /\ asked' = <<>>
           /\ scan' \in {scan, "off"} /\ subscription' \in {subscription, "off"}
           /\ link' \in {link, "off"}
           /\ IF Head(todo[t]).do = "stop_scan"
              THEN scan' = "off" /\ Put("OP_NETWORK_SCAN_STOP", "ok")
              ELSE app_evt_msgq' = app_evt_msgq
           /\ UNCHANGED <<pt_scan_in_progress, pt_pending_subscribe, works, app_mutex, callback, commands>>
<1>1. asked # <<>> /\ asked' = Tail(asked) /\ ModemIdle
    BY DEF Answer
<1>2. t \in waiting /\ current_wait = Reason(t) /\ asked = <<Head(todo[t]).do>>
    BY <1>1 DEF Alone
<1>3. Head(asked) = Head(todo[t]).do /\ asked' = <<>>
    BY <1>1, <1>2
<1>4. UNCHANGED <<todo, waiting, pt_scan_in_progress, pt_pending_subscribe, works, app_mutex, callback,
                  commands>>
    BY <1>1 DEF Answer, ModemIdle, scanVars, threadVars
<1>5. Complete(Reason(t), "ok") \/ Complete(Reason(t), "error")
    BY <1>3 DEF Answer, Reason
<1>6. op_sem' = 1 /\ current_wait' = current_wait
    BY <1>2, <1>5 DEF Complete
<1>7. Alone(t)'
    BY <1>2, <1>3, <1>4, <1>6 DEF Alone, Reason
<1>8. /\ scan' \in {scan, "off"} /\ subscription' \in {subscription, "off"}
      /\ link' \in {link, "off"}
      /\ IF Head(todo[t]).do = "stop_scan"
         THEN scan' = "off" /\ Put("OP_NETWORK_SCAN_STOP", "ok")
         ELSE app_evt_msgq' = app_evt_msgq
    BY <1>3 DEF Answer
<1> QED
    BY <1>2, <1>3, <1>4, <1>7, <1>8

-----------------------------------------------------------------------------
(* The queue of a PT that is in one of the phases.                         *)

LEMMA PutAll ==
    ASSUME QueueType, NEW type \in Events, NEW status \in Status, Put(type, status)
    PROVE  \A i \in 1..Len(app_evt_msgq') :
              \/ i \in 1..Len(app_evt_msgq) /\ app_evt_msgq'[i] = app_evt_msgq[i]
              \/ /\ i = Len(app_evt_msgq')
                 /\ app_evt_msgq'[i] = [type |-> type, status |-> status]
<1> DEFINE e == [type |-> type, status |-> status]
<1>1. e \in Event
    BY DEF Event, Events
<1>2. app_evt_msgq' = app_evt_msgq \/ app_evt_msgq' = Append(app_evt_msgq, e)
    BY DEF Put
<1>3. app_evt_msgq \in Seq(Event) /\ Len(app_evt_msgq) \in Nat
    BY LenProperties DEF QueueType
<1> HIDE DEF e
<1>4. /\ Len(Append(app_evt_msgq, e)) = Len(app_evt_msgq) + 1
      /\ \A i \in 1..Len(app_evt_msgq) : Append(app_evt_msgq, e)[i] = app_evt_msgq[i]
      /\ Append(app_evt_msgq, e)[Len(app_evt_msgq) + 1] = e
    BY <1>1, <1>3, AppendProperties
<1>5. ASSUME NEW i \in 1..Len(app_evt_msgq')
      PROVE  \/ i \in 1..Len(app_evt_msgq) /\ app_evt_msgq'[i] = app_evt_msgq[i]
             \/ i = Len(app_evt_msgq') /\ app_evt_msgq'[i] = e
    <2>1. CASE app_evt_msgq' = app_evt_msgq
        BY <1>5, <2>1
    <2>2. CASE app_evt_msgq' = Append(app_evt_msgq, e)
        <3>1. i \in 1..Len(app_evt_msgq) \/ i = Len(app_evt_msgq) + 1
            BY <1>3, <1>4, <1>5, <2>2
        <3> QED
            BY <1>4, <2>2, <3>1
    <2> QED
        BY <1>2, <2>1, <2>2
<1> QED
    BY <1>5 DEF e

LEMMA TailSeq ==
    ASSUME NEW s \in Seq(Event), s # <<>>, NEW r, Len(r) = Len(s) - 1,
           \A i \in 1..Len(r) : r[i] = s[i + 1]
    PROVE  /\ Head(s) = s[1] /\ 1 \in 1..Len(s)
           /\ \A i \in 1..Len(r) : /\ i + 1 \in 1..Len(s) /\ r[i] = s[i + 1]
                                  /\ i + 1 = Len(s) => i = Len(r)
           /\ Len(s) = 1 => 1..Len(r) = {}
<1>1. Len(s) \in Nat \ {0}
    BY EmptySeq
<1>2. Head(s) = s[1] /\ 1 \in 1..Len(s)
    BY <1>1
<1>3. \A i \in 1..Len(r) : i + 1 \in 1..Len(s) /\ (i + 1 = Len(s) => i = Len(r))
    BY <1>1
<1>4. Len(s) = 1 => 1..Len(r) = {}
    BY <1>1
<1> QED
    BY <1>2, <1>3, <1>4

LEMMA TailAll ==
    ASSUME QueueType, app_evt_msgq # <<>>, app_evt_msgq' = Tail(app_evt_msgq)
    PROVE  /\ Head(app_evt_msgq) = app_evt_msgq[1] /\ 1 \in 1..Len(app_evt_msgq)
           /\ \A i \in 1..Len(app_evt_msgq') :
                 /\ i + 1 \in 1..Len(app_evt_msgq) /\ app_evt_msgq'[i] = app_evt_msgq[i + 1]
                 /\ i + 1 = Len(app_evt_msgq) => i = Len(app_evt_msgq')
           /\ Len(app_evt_msgq) = 1 => 1..Len(app_evt_msgq') = {}
<1> DEFINE s == app_evt_msgq
           r == app_evt_msgq'
<1>1. s \in Seq(Event) /\ s # <<>>
    BY DEF QueueType
<1>2. Len(r) = Len(s) - 1 /\ \A i \in 1..Len(r) : r[i] = s[i + 1]
    BY <1>1, HeadTailProperties
<1> HIDE DEF s, r
<1>3. /\ Head(s) = s[1] /\ 1 \in 1..Len(s)
      /\ \A i \in 1..Len(r) : /\ i + 1 \in 1..Len(s) /\ r[i] = s[i + 1]
                             /\ i + 1 = Len(s) => i = Len(r)
      /\ Len(s) = 1 => 1..Len(r) = {}
    BY <1>1, <1>2, TailSeq
<1> QED
    BY <1>3 DEF s, r

LEMMA PutFacts ==
    ASSUME QueueType, NEW type \in Events, NEW status \in Status, Put(type, status)
    PROVE  /\ Old => \A types : type \in types => OldBut(types)'
           /\ Old /\ type \in Leftovers => Old'
           /\ \A other : other # type /\ No(other) => No(other)'
           /\ Old /\ type = "NTF_ASSOCIATION" /\ status = "ok"
              => \A i \in 1..Len(app_evt_msgq') : Success(app_evt_msgq'[i])
<1> DEFINE e == [type |-> type, status |-> status]
<1>1. ASSUME NEW i \in 1..Len(app_evt_msgq')
      PROVE  \/ i \in 1..Len(app_evt_msgq) /\ app_evt_msgq'[i] = app_evt_msgq[i]
             \/ i = Len(app_evt_msgq') /\ app_evt_msgq'[i] = e
    BY PutAll
<1>2. e.type = type /\ e.status = status
    OBVIOUS
<1> HIDE DEF e
<1>3. Old => \A types : type \in types => OldBut(types)'
    BY <1>1, <1>2 DEF Old, OldBut
<1>4. Old /\ type \in Leftovers => Old'
    BY <1>1, <1>2 DEF Old, OldBut
<1>5. \A other : other # type /\ No(other) => No(other)'
    BY <1>1, <1>2 DEF No
<1>6. Old /\ type = "NTF_ASSOCIATION" /\ status = "ok"
      => \A i \in 1..Len(app_evt_msgq') : Success(app_evt_msgq'[i])
    BY <1>1, <1>2 DEF Old, OldBut, Success
<1> QED
    BY <1>3, <1>4, <1>5, <1>6

LEMMA TailFacts ==
    ASSUME QueueType, app_evt_msgq # <<>>, app_evt_msgq' = Tail(app_evt_msgq)
    PROVE  /\ \A types : OldBut(types) => OldBut(types)'
           /\ Old => Old'
           /\ \A types : OldBut(types) /\ Head(app_evt_msgq).type \notin Leftovers => Old'
           /\ \A types : OldBut(types) => Head(app_evt_msgq).type \in Leftovers \cup types
           /\ \A other : No(other) => No(other)' /\ Head(app_evt_msgq).type # other
           /\ (\A i \in 1..Len(app_evt_msgq) : Success(app_evt_msgq[i]))
              => /\ Success(Head(app_evt_msgq))
                 /\ \A i \in 1..Len(app_evt_msgq') : Success(app_evt_msgq'[i])
<1>1. \A types : OldBut(types) => OldBut(types)'
    BY TailAll DEF OldBut
<1>2. Old => Old'
    BY <1>1 DEF Old
<1>3. ASSUME NEW types, OldBut(types), Head(app_evt_msgq).type \notin Leftovers PROVE Old'
    <2>1. 1 = Len(app_evt_msgq)
        BY <1>3, TailAll DEF OldBut
    <2>2. 1..Len(app_evt_msgq') = {}
        BY <2>1, TailAll
    <2> QED
        BY <2>2, Zenon DEF Old, OldBut
<1>4. \A types : OldBut(types) => Head(app_evt_msgq).type \in Leftovers \cup types
    BY TailAll DEF OldBut
<1>5. \A other : No(other) => No(other)' /\ Head(app_evt_msgq).type # other
    BY TailAll DEF No
<1>6. (\A i \in 1..Len(app_evt_msgq) : Success(app_evt_msgq[i]))
      => /\ Success(Head(app_evt_msgq))
         /\ \A i \in 1..Len(app_evt_msgq') : Success(app_evt_msgq'[i])
    BY TailAll
<1> QED
    BY <1>1, <1>2, <1>3, <1>4, <1>5, <1>6

LEMMA OldMore == Old => \A types : OldBut(types)
BY DEF Old, OldBut

LEMMA NoneOld == app_evt_msgq = <<>> => Old
<1> SUFFICES ASSUME app_evt_msgq = <<>> PROVE Old
    OBVIOUS
<1>1. 1..Len(app_evt_msgq) = {}
    OBVIOUS
<1> QED
    BY <1>1 DEF Old, OldBut

LEMMA EventRest ==
    EventLoop => /\ app_evt_msgq # <<>> /\ app_evt_msgq' = Tail(app_evt_msgq)
                 /\ todo["main"] = <<>>
                 /\ UNCHANGED <<current_wait, op_sem, waiting, asked, app_mutex, callback, scan,
                                subscription, link, commands>>
BY DEF EventLoop, process_cluster_beacon_event, process_op_network_scan_event,
       process_op_network_scan_stop_event, process_op_cluster_beacon_receive_event,
       process_ntf_association_event, process_association_release_event, Receives, waitVars,
       modemVars, radioVars, bounds

\* The event at the head of the queue is the one that is handled.
LEMMA WhichEvent ==
    ASSUME EventLoop
    PROVE  LET type == Head(app_evt_msgq).type
           IN  /\ type = "CLUSTER_BEACON" => process_cluster_beacon_event
               /\ type = "OP_NETWORK_SCAN" => process_op_network_scan_event
               /\ type = "OP_NETWORK_SCAN_STOP" => process_op_network_scan_stop_event
               /\ type = "OP_CLUSTER_BEACON_RECEIVE" => process_op_cluster_beacon_receive_event
               /\ type = "NTF_ASSOCIATION" => process_ntf_association_event
               /\ type = "ASSOCIATION_RELEASE" => process_association_release_event
<1> DEFINE type == Head(app_evt_msgq).type
<1>1. /\ process_cluster_beacon_event => type = "CLUSTER_BEACON"
      /\ process_op_network_scan_event => type = "OP_NETWORK_SCAN"
      /\ process_op_network_scan_stop_event => type = "OP_NETWORK_SCAN_STOP"
      /\ process_op_cluster_beacon_receive_event => type = "OP_CLUSTER_BEACON_RECEIVE"
      /\ process_ntf_association_event => type = "NTF_ASSOCIATION"
      /\ process_association_release_event => type = "ASSOCIATION_RELEASE"
    BY DEF process_cluster_beacon_event, process_op_network_scan_event,
           process_op_network_scan_stop_event, process_op_cluster_beacon_receive_event,
           process_ntf_association_event, process_association_release_event, Receives
<1> HIDE DEF type
<1>2. /\ type = "CLUSTER_BEACON" => process_cluster_beacon_event
      /\ type = "OP_NETWORK_SCAN" => process_op_network_scan_event
      /\ type = "OP_NETWORK_SCAN_STOP" => process_op_network_scan_stop_event
      /\ type = "OP_CLUSTER_BEACON_RECEIVE" => process_op_cluster_beacon_receive_event
      /\ type = "NTF_ASSOCIATION" => process_ntf_association_event
      /\ type = "ASSOCIATION_RELEASE" => process_association_release_event
    BY <1>1 DEF EventLoop
<1> QED
    BY <1>2 DEF type

\* What a scan leaves behind does nothing once nobody wants a beacon.
LEMMA OldEvent ==
    ASSUME EventLoop, Head(app_evt_msgq).type \in Leftovers, NobodyRuns, NoScan
    PROVE  NobodyRuns' /\ NoScan' /\ works' = works
<1>1. \/ process_cluster_beacon_event \/ process_op_network_scan_event
      \/ process_op_network_scan_stop_event
    BY WhichEvent DEF Leftovers
<1>2. UNCHANGED <<todo, works>>
    BY <1>1 DEF process_cluster_beacon_event, process_op_network_scan_event,
                process_op_network_scan_stop_event, NoScan, recoveryVars
<1>3. ~pt_scan_in_progress' /\ ~pt_pending_subscribe'
    BY <1>1 DEF process_cluster_beacon_event, process_op_network_scan_event,
                process_op_network_scan_stop_event, NoScan
<1> QED
    BY <1>2, <1>3, EventRest DEF NobodyRuns, NoScan

-----------------------------------------------------------------------------
(* Where each phase leads.                                                 *)

LEMMA DueOrIdle ==
    ASSUME works' \in {{}, {"associate"}, {"recovery"}}, NobodyRuns', NoScan', NoReport', Old'
    PROVE  (Idle \/ Due)'
<1>1. CASE works' = {}
    <2>1. OldBut(LinkEvents)'
        BY DEF Old, OldBut
    <2> QED
        BY <1>1, <2>1 DEF Idle, NoReport
<1>2. CASE works' # {}
    BY <1>2 DEF Due, RadioOff, NoScan
<1> QED
    BY <1>1, <1>2

LEMMA RecoversFromNone == ScheduleRecovery({}) => works' \in {{}, {"associate"}, {"recovery"}}
BY DEF ScheduleRecovery

LEMMA AnswerOnly == RadioOff /\ Modem => Answer
BY DEF RadioOff, NoReport, Modem, HearsBeacon, ScanEnds, Subscribed, Associated, LinkReleased,
       RxFailure, cb_ntf_cluster_beacon_rx_failure, ReleaseAndResubscribe

LEMMA FromStart == ASSUME OnePt, TypeInv, app_mutex = "free", Start, Next PROVE PhaseInv'
<1>1. cmd_pt
    <2>1. Shell
        BY NoWork, NoEvent, NoAnswer, NoStepAtAll DEF Start, NobodyRuns, Next
    <2>2. Head(commands) = "PT"
        BY DEF Start
    <2> QED
        BY <2>1, <2>2 DEF Shell, cmd_stop, cmd_ft, cmd_scan, cmd_pt_scan, restart_current_mode, cmd_send,
                          Command
<1> DEFINE s == InitMac(TRUE, "return") \o <<Do("pt_fast"), Do("network_scan")>>
<1>2. commands' = <<>> /\ UNCHANGED <<waiting, app_evt_msgq, callback, asked, scan, subscription>>
    BY <1>1 DEF cmd_pt, Command, Start
<1>3. UNCHANGED <<pt_scan_in_progress, pt_pending_subscribe, works, app_mutex, link>>
    BY <1>1 DEF cmd_pt, scanVars, recoveryVars
<1>4. Goto("shell", s)
    BY <1>1 DEF cmd_pt, Start
<1>5. SettingList(s) /\ Len(s) \in Nat \ {0, 1, 2}
    <2>1. "return" \in PtHandlers
        BY DEF PtHandlers
    <2> QED
        BY <2>1, InitMacSetsUp, SetUpThenScan
<1> HIDE DEF s
<1>6. Alone("shell")' /\ todo'["shell"] = s /\ "shell" \notin waiting'
    <2>1. Alone("shell") /\ "shell" \notin waiting /\ "shell" \in Threads /\ waiting' = waiting \ {"shell"}
          /\ asked' = <<>>
        BY <1>2 DEF Start, NobodyRuns, Alone, Threads
    <2> QED
        BY <1>4, <2>1, AloneAfter DEF TypeInv
<1>7. RadioOff' /\ NoScan' /\ works' = {} /\ app_evt_msgq' = <<>>
    BY <1>2, <1>3 DEF Start, RadioOff, NoReport, NoScan
<1>8. SettingBy("shell")'
    <2>1. Len(s) # 1
        BY <1>5
    <2>2. SettingList(todo["shell"])' /\ Len(todo'["shell"]) # 1
        BY <1>5, <1>6, <2>1 DEF SettingList
    <2> QED
        BY <1>6, <1>7, <2>2 DEF SettingBy
<1> QED
    BY <1>2, <1>3, <1>7, <1>8 DEF PhaseInv, Phase, Setting

LEMMA SettingGoes ==
    ASSUME ThreadType, NEW t \in Threads, SettingBy(t), Len(todo[t]) > 1, Continue(t),
           waiting' = waiting \ {t}, asked' = <<>>,
           IF Len(todo[t]) = 2 THEN pt_scan_in_progress' ELSE NoScan'
    PROVE  SettingBy(t)'
<1>1. todo[t] \in Seq(Step) /\ SettingList(todo[t]) /\ Alone(t)
    BY DEF ThreadType, SettingBy
<1>2. SettingList(Tail(todo[t])) /\ Len(Tail(todo[t])) = Len(todo[t]) - 1 /\ Len(todo[t]) \in Nat
    BY <1>1, SettingTail
<1>3. Alone(t)' /\ todo'[t] = Tail(todo[t]) /\ t \notin waiting'
    BY <1>1, AloneAfter DEF Continue
<1>4. IF Len(todo'[t]) = 1 THEN pt_scan_in_progress' ELSE NoScan'
    BY <1>2, <1>3
<1> QED
    BY <1>2, <1>3, <1>4 DEF SettingBy

\* A step of the set-up fails.
LEMMA SettingFails ==
    ASSUME ThreadType, NEW t \in {"shell", "work"}, SettingBy(t), Fail(t), waiting' = waiting \ {t},
           asked' = <<>>, NoScan', RadioOff', works' = {}, app_evt_msgq' = <<>>
    PROVE  (Idle \/ Single)'
<1>0. t \in Threads
    BY DEF Threads
<1>1. todo[t] \in Seq(Step) /\ SettingList(todo[t]) /\ Alone(t)
    BY <1>0 DEF ThreadType, SettingBy
<1>2. Head(todo[t]).orElse \in {"return", "recover_later"}
    BY <1>1, SettingTail DEF PtHandlers
<1>3. CASE Head(todo[t]).orElse = "return"
    <2>1. Goto(t, <<>>)
        BY <1>3 DEF Fail, Handler
    <2>2. NobodyRuns'
        BY <1>0, <1>1, <2>1, AloneAfter
    <2>3. Old'
        <3>1. 1..Len(app_evt_msgq') = {}
            OBVIOUS
        <3> QED
            BY <3>1 DEF Old, OldBut
    <2> QED
        BY <2>2, <2>3, DueOrIdle DEF RadioOff, Due, NoReport, Idle
<1>4. CASE Head(todo[t]).orElse = "recover_later"
    <2>1. Goto(t, <<Do("recover_later")>>)
        BY <1>4 DEF Fail, Handler
    <2>2. Alone(t)' /\ todo'[t] = <<Do("recover_later")>> /\ t \notin waiting'
        BY <1>0, <1>1, <2>1, AloneAfter
    <2> QED
        BY <2>2 DEF Single, Begun
<1> QED
    BY <1>2, <1>3, <1>4

LEMMA FromSetting ==
    ASSUME OnePt, TypeInv, app_mutex = "free", commands = <<>>, Setting, Next
    PROVE  PhaseInv'
<1>1. PICK t \in {"shell", "work"} : SettingBy(t)
    BY DEF Setting
<1>2. works = {} /\ app_evt_msgq = <<>> /\ RadioOff
    BY DEF Setting
<1>3. /\ t \in Threads /\ ThreadType /\ todo[t] \in Seq(Step) /\ SettingList(todo[t]) /\ Alone(t)
      /\ t \in waiting => Len(todo[t]) > 2 /\ Head(todo[t]).do # "stop_scan"
    BY <1>1 DEF Threads, TypeInv, ThreadType, SettingBy
<1>4. /\ Head(todo[t]).orElse \in PtHandlers /\ Len(todo[t]) \in Nat /\ Len(todo[t]) > 0
      /\ Len(todo[t]) = 1 => Head(todo[t]).do \in {"network_scan", "recovery_scan"} /\ Tail(todo[t]) = <<>>
      /\ Len(todo[t]) = 2 => Head(todo[t]).do \in {"pt_fast", "pt_cold", "recovery_state"}
      /\ Len(todo[t]) > 2 => Head(todo[t]).do \in Settings
    BY <1>3, SettingTail
<1>a. \A n \in Nat : n > 0 => (n = 1 \/ n = 2 \/ n > 2) /\ (n > 2 => n # 1 /\ n # 2 /\ n > 1)
    OBVIOUS
<1>b. /\ Len(todo[t]) = 1 \/ Len(todo[t]) = 2 \/ Len(todo[t]) > 2
      /\ Len(todo[t]) > 2 => Len(todo[t]) # 1 /\ Len(todo[t]) # 2 /\ Len(todo[t]) > 1
    BY <1>4, <1>a, Zenon
<1>5. /\ Len(todo[t]) = 1 => pt_scan_in_progress
      /\ Len(todo[t]) # 1 => NoScan
    BY <1>1 DEF SettingBy
<1>6. ASSUME SettingBy(t)', RadioOff', works' = {}, UNCHANGED <<app_evt_msgq, app_mutex, commands>>
      PROVE  PhaseInv'
    BY <1>2, <1>6 DEF PhaseInv, Phase, Setting
<1>7. CASE Modem
    <2>1. Answer
        BY <1>2, <1>7, AnswerOnly
    <2>2. /\ t \in waiting /\ Alone(t)' /\ UNCHANGED <<todo, waiting>>
          /\ scan' \in {scan, "off"} /\ subscription' \in {subscription, "off"}
          /\ link' \in {link, "off"}
          /\ IF Head(todo[t]).do = "stop_scan"
             THEN scan' = "off" /\ Put("OP_NETWORK_SCAN_STOP", "ok")
             ELSE app_evt_msgq' = app_evt_msgq
          /\ UNCHANGED <<pt_scan_in_progress, pt_pending_subscribe, works, app_mutex, callback, commands>>
        BY <1>3, <2>1, AloneAnswer
    <2>3. Len(todo[t]) > 2 /\ Len(todo[t]) # 1 /\ Head(todo[t]).do # "stop_scan"
        BY <1>3, <1>b, <2>2
    <2>4. RadioOff' /\ NoScan' /\ app_evt_msgq' = app_evt_msgq
        BY <1>2, <1>5, <2>2, <2>3 DEF RadioOff, NoReport, NoScan
    <2>5. SettingList(todo[t])'
        BY <1>3, <2>2 DEF SettingList
    <2>6. SettingBy(t)'
        BY <2>2, <2>3, <2>4, <2>5 DEF SettingBy
    <2> QED
        BY <1>2, <1>6, <2>2, <2>4, <2>6
<1>8. CASE StepOf(t) /\ t \in waiting
    <2>1. Wait(t) /\ callback = "idle"
        BY <1>2, <1>3, <1>8, WaitsOnly DEF RadioOff, NoReport
    <2>2. /\ asked' = <<>> /\ waiting' = waiting \ {t} /\ \E ok \in BOOLEAN : WaitOver(t, ok)
          /\ UNCHANGED <<pt_pending_subscribe, works, app_evt_msgq, app_mutex, callback, scan,
                         subscription, link, commands>>
        BY <1>3, <2>1, AloneWait
    <2>3. Len(todo[t]) > 2 /\ Len(todo[t]) # 1 /\ Head(todo[t]).do # "stop_scan"
        BY <1>3, <1>b, <1>8
    <2>4. (Continue(t) \/ Fail(t)) /\ UNCHANGED pt_scan_in_progress
        BY <2>2, <2>3 DEF WaitOver
    <2>5. RadioOff' /\ NoScan' /\ works' = {} /\ app_evt_msgq' = <<>>
        BY <1>2, <1>5, <2>2, <2>3, <2>4 DEF RadioOff, NoReport, NoScan
    <2>6. CASE Continue(t)
        <3>1. Len(todo[t]) > 1 /\ Len(todo[t]) # 2
            BY <1>b, <2>3
        <3>2. SettingBy(t)'
            BY <1>1, <1>3, <2>2, <2>5, <2>6, <3>1, SettingGoes
        <3> QED
            BY <1>6, <2>2, <2>5, <3>2
    <2>7. CASE Fail(t)
        <3>1. (Idle \/ Single)'
            BY <1>1, <1>3, <2>2, <2>5, <2>7, SettingFails
        <3> QED
            BY <2>2, <3>1 DEF PhaseInv, Phase
    <2> QED
        BY <2>4, <2>6, <2>7
<1>9. ASSUME StepOf(t), t \notin waiting, Len(todo[t]) > 1, Continue(t), waiting' = waiting,
             UNCHANGED <<asked, app_mutex, callback, scan, subscription, link, commands, app_evt_msgq>>,
             works' \subseteq works,
             IF Len(todo[t]) = 2 THEN pt_scan_in_progress' ELSE NoScan'
      PROVE  PhaseInv'
    <2>1. asked' = <<>> /\ waiting' = waiting \ {t} /\ works' = {}
        BY <1>2, <1>3, <1>9 DEF Alone
    <2>2. SettingBy(t)'
        BY <1>1, <1>3, <1>9, <2>1, SettingGoes
    <2>3. RadioOff'
        BY <1>2, <1>9 DEF RadioOff, NoReport
    <2> QED
        BY <1>6, <1>9, <2>1, <2>2, <2>3
<1>10. CASE StepOf(t) /\ t \notin waiting /\ Len(todo[t]) > 2
    <2>1. Head(todo[t]).do \in Settings /\ NoScan /\ Len(todo[t]) # 2
        BY <1>4, <1>b, <1>5, <1>10
    <2>2. Request(t) \/ NothingToStop(t) \/ cancel_works(t) \/ reset_link_state(t)
        BY <1>3, <1>10, <2>1, Which, OpNames DEF Settings
    <2>3. CASE Request(t)
        <3>1. /\ Alone(t)' /\ t \in waiting'
              /\ Head(todo[t]).do = "stop_scan" => pt_scan_in_progress
              /\ UNCHANGED <<todo, phaseVars>>
            BY <1>3, <1>10, <2>3, AloneRequest
        <3>2. Head(todo[t]).do # "stop_scan"
            BY <2>1, <3>1 DEF NoScan
        <3>3. RadioOff' /\ NoScan' /\ works' = {} /\ UNCHANGED <<app_evt_msgq, app_mutex, commands>>
            BY <1>2, <2>1, <3>1 DEF phaseVars, RadioOff, NoReport, NoScan
        <3>4. SettingList(todo[t])'
            BY <1>3, <3>1 DEF SettingList
        <3>5. SettingBy(t)'
            BY <1>10, <2>1, <3>1, <3>2, <3>3, <3>4 DEF SettingBy
        <3> QED
            BY <1>6, <3>3, <3>5
    <2>4. CASE NothingToStop(t) \/ cancel_works(t) \/ reset_link_state(t)
        <3>1. /\ Continue(t) /\ waiting' = waiting
              /\ UNCHANGED <<asked, app_mutex, callback, scan, subscription, link, commands, app_evt_msgq>>
              /\ works' \subseteq works
            BY <2>4 DEF NothingToStop, cancel_works, reset_link_state, modemVars, radioVars, bounds,
                        recoveryVars
        <3>2. NoScan'
            BY <2>1, <2>4 DEF NothingToStop, cancel_works, reset_link_state, modemVars, radioVars, NoScan,
                              scanVars
        <3>3. Len(todo[t]) > 1
            BY <1>b, <1>10
        <3> QED
            BY <1>9, <1>10, <2>1, <3>1, <3>2, <3>3
    <2> QED
        BY <2>2, <2>3, <2>4
<1>11. CASE StepOf(t) /\ t \notin waiting /\ Len(todo[t]) = 2
    <2>1. (PtState(t) /\ ~At(t, "pt_known")) \/ RecoveryState(t)
        BY <1>3, <1>4, <1>11, Which
    <2>2. /\ Continue(t) /\ waiting' = waiting /\ pt_scan_in_progress' = TRUE
          /\ UNCHANGED <<asked, app_mutex, callback, scan, subscription, link, commands, app_evt_msgq>>
          /\ works' \subseteq works
        BY <2>1 DEF PtState, RecoveryState, modemVars, radioVars, bounds, recoveryVars
    <2> QED
        BY <1>9, <1>11, <2>2
<1>12. CASE StepOf(t) /\ t \notin waiting /\ Len(todo[t]) = 1
    <2>1. PtScan(t) \/ RecoveryScan(t)
        BY <1>3, <1>4, <1>12, Which
    <2>2. /\ Continue(t) /\ waiting' = waiting
          /\ UNCHANGED <<asked, app_mutex, callback, subscription, link, commands, app_evt_msgq>>
        BY <2>1 DEF PtScan, RecoveryScan
    <2>3. NobodyRuns'
        <3>1. Goto(t, <<>>)
            BY <1>4, <1>12, <2>2 DEF Continue
        <3>2. waiting' = waiting \ {t} /\ asked' = <<>>
            BY <1>3, <1>12, <2>2 DEF Alone
        <3> QED
            BY <1>3, <3>1, <3>2, AloneAfter
    <2>4. NoReport' /\ Old' /\ app_evt_msgq' = <<>>
        <3>1. 1..Len(app_evt_msgq') = {}
            BY <1>2, <2>2
        <3> QED
            BY <1>2, <2>2, <3>1 DEF RadioOff, NoReport, Old, OldBut
    <2>5. CASE UNCHANGED <<pt_scan_in_progress, works>>
        <3>1. No("OP_NETWORK_SCAN")' /\ No("OP_NETWORK_SCAN_STOP")'
            <4>1. 1..Len(app_evt_msgq') = {}
                BY <2>4
            <4> QED
                BY <4>1 DEF No
        <3>2. Scanning'
            BY <1>2, <1>5, <1>12, <2>3, <2>4, <2>5, <3>1 DEF Scanning
        <3> QED
            BY <2>2, <3>2 DEF PhaseInv, Phase
    <2>6. CASE /\ pt_scan_in_progress' = FALSE /\ pt_pending_subscribe' = FALSE /\ scan' = scan
               /\ works' = works \/ ScheduleRecovery(works)
        <3>1. NoScan' /\ works' \in {{}, {"associate"}, {"recovery"}}
            BY <1>2, <2>6, RecoversFromNone DEF RadioOff, NoScan
        <3>2. (Idle \/ Due)'
            BY <2>3, <2>4, <3>1, DueOrIdle
        <3> QED
            BY <2>2, <3>2 DEF PhaseInv, Phase
    <2>7. \/ UNCHANGED <<pt_scan_in_progress, works>>
          \/ /\ pt_scan_in_progress' = FALSE /\ pt_pending_subscribe' = FALSE /\ scan' = scan
             /\ works' = works \/ ScheduleRecovery(works)
        BY <2>1 DEF PtScan, RecoveryScan, scanVars, recoveryVars
    <2> QED
        BY <2>5, <2>6, <2>7
<1>13. Modem \/ StepOf(t)
    BY <1>2, <1>3, NoCommand, NoWork, NoEvent, OnlyOne DEF Next
<1> QED
    BY <1>b, <1>7, <1>8, <1>10, <1>11, <1>12, <1>13, Zenon

LEMMA EventFacts ==
    /\ "CLUSTER_BEACON" \in Events /\ "OP_NETWORK_SCAN" \in Events /\ "OP_NETWORK_SCAN_STOP" \in Events
    /\ "OP_CLUSTER_BEACON_RECEIVE" \in Events /\ "NTF_ASSOCIATION" \in Events
    /\ "ASSOCIATION_RELEASE" \in Events
    /\ "ok" \in Status /\ "no_response" \in Status /\ "error" \in Status
    /\ "CLUSTER_BEACON" \in Leftovers /\ "OP_NETWORK_SCAN" \in Leftovers
    /\ "OP_NETWORK_SCAN_STOP" \in Leftovers
    /\ {"OP_CLUSTER_BEACON_RECEIVE", "NTF_ASSOCIATION", "ASSOCIATION_RELEASE"} \cap Leftovers = {}
BY DEF Events, Status, Leftovers

LEMMA ModemFrame ==
    ModemIdle /\ NoThread =>
        /\ callback = "idle"
        /\ UNCHANGED <<todo, waiting, asked, current_wait, op_sem, pt_scan_in_progress,
                       pt_pending_subscribe, works, app_mutex, commands, callback>>
BY DEF ModemIdle, NoThread, scanVars, threadVars, waitVars

LEMMA FromScanning ==
    ASSUME OnePt, TypeInv, app_mutex = "free", commands = <<>>, Scanning, Next
    PROVE  PhaseInv'
<1>0. /\ works = {} /\ NobodyRuns /\ NoReport /\ pt_scan_in_progress /\ Old
      /\ No("OP_NETWORK_SCAN_STOP") /\ (scan # "off" => No("OP_NETWORK_SCAN"))
      /\ ThreadType /\ QueueType /\ "main" \in Threads
    BY DEF Scanning, TypeInv, Threads
<1>1. CASE EventLoop
    <2>1. /\ app_evt_msgq # <<>> /\ app_evt_msgq' = Tail(app_evt_msgq)
          /\ UNCHANGED <<waiting, asked, app_mutex, callback, scan, subscription, link, commands>>
        BY <1>1, EventRest
    <2>2. /\ Old' /\ No("OP_NETWORK_SCAN_STOP")' /\ (scan # "off" => No("OP_NETWORK_SCAN")')
          /\ Head(app_evt_msgq).type \in Leftovers
          /\ Head(app_evt_msgq).type # "OP_NETWORK_SCAN_STOP"
          /\ scan # "off" => Head(app_evt_msgq).type # "OP_NETWORK_SCAN"
        BY <1>0, <2>1, TailFacts DEF Old
    <2>3. NoReport'
        BY <1>0, <2>1 DEF NoReport
    <2>4. CASE Head(app_evt_msgq).type = "CLUSTER_BEACON"
        <3>1. process_cluster_beacon_event
            BY <1>1, <2>4, WhichEvent
        <3>2. works' = {} /\ pt_scan_in_progress' = pt_scan_in_progress
            BY <1>0, <3>1 DEF process_cluster_beacon_event, recoveryVars
        <3>3. CASE /\ ~pt_pending_subscribe'
                   /\ Goto("main", StopActivity \o <<Do("beacon_subscribe")>>)
            <4>1. Alone("main") /\ waiting' = waiting \ {"main"} /\ asked' = <<>>
                BY <1>0, <2>1 DEF NobodyRuns, Alone
            <4>2. /\ Alone("main")' /\ todo'["main"] = StopActivity \o <<Do("beacon_subscribe")>>
                  /\ "main" \notin waiting'
                BY <1>0, <3>3, <4>1, AloneAfter
            <4>3. Stopping'
                BY <1>0, <2>2, <2>3, <3>2, <3>3, <4>2 DEF Stopping
            <4> QED
                BY <2>1, <4>3 DEF PhaseInv, Phase
        <3>4. CASE UNCHANGED todo
            <4>1. NobodyRuns'
                BY <1>0, <2>1, <3>4 DEF NobodyRuns
            <4>2. Scanning'
                BY <1>0, <2>1, <2>2, <2>3, <3>2, <4>1 DEF Scanning
            <4> QED
                BY <2>1, <4>2 DEF PhaseInv, Phase
        <3> QED
            BY <3>1, <3>3, <3>4 DEF process_cluster_beacon_event
    <2>5. CASE Head(app_evt_msgq).type = "OP_NETWORK_SCAN"
        <3>1. process_op_network_scan_event
            BY <1>1, <2>5, WhichEvent
        <3>2. works' = {} /\ UNCHANGED todo /\ ~pt_scan_in_progress' /\ ~pt_pending_subscribe'
            BY <1>0, <3>1 DEF process_op_network_scan_event, recoveryVars
        <3>3. NobodyRuns' /\ NoScan'
            BY <1>0, <2>1, <2>2, <2>5, <3>2 DEF NobodyRuns, NoScan
        <3>4. (Idle \/ Due)'
            BY <2>2, <2>3, <3>2, <3>3, DueOrIdle
        <3> QED
            BY <2>1, <3>4 DEF PhaseInv, Phase
    <2> QED
        BY <2>2, <2>4, <2>5 DEF Leftovers
<1>2. CASE Modem
    <2>1. HearsBeacon \/ ScanEnds
        BY <1>0, <1>2 DEF NobodyRuns, NoReport, Modem, Answer, Subscribed, Associated, LinkReleased,
                          RxFailure, cb_ntf_cluster_beacon_rx_failure, ReleaseAndResubscribe
    <2>2. /\ ModemIdle /\ NoThread /\ UNCHANGED <<subscription, link>>
          /\ \/ scan # "off" /\ Put("CLUSTER_BEACON", "ok")
             \/ scan' = "off" /\ Put("OP_NETWORK_SCAN", "ok")
        BY <2>1 DEF HearsBeacon, ScanEnds
    <2>3. Old' /\ No("OP_NETWORK_SCAN_STOP")' /\ (scan' # "off" => No("OP_NETWORK_SCAN")')
        BY <1>0, <2>2, PutFacts, EventFacts
    <2>4. NobodyRuns' /\ NoReport' /\ works' = {} /\ pt_scan_in_progress' = pt_scan_in_progress
        BY <1>0, <2>2, ModemFrame DEF NobodyRuns, NoReport
    <2>5. Scanning'
        BY <1>0, <2>3, <2>4 DEF Scanning
    <2> QED
        BY <2>2, <2>5, ModemFrame DEF PhaseInv, Phase
<1>3. EventLoop \/ Modem
    BY <1>0, NoCommand, NoWork, NoStepAtAll DEF Next
<1> QED
    BY <1>1, <1>2, <1>3

LEMMA ThreeSteps == ASSUME NEW a, NEW b, NEW c PROVE <<a, b>> \o <<c>> = <<a, b, c>>
<1> DEFINE S == {a, b, c}
           p == <<a, b>>
           q == <<c>>
           r == p \o q
<1>1. p \in Seq(S) /\ q \in Seq(S) /\ Len(p) = 2 /\ Len(q) = 1 /\ p[1] = a /\ p[2] = b /\ q[1] = c
    OBVIOUS
<1>2. r \in Seq(S) /\ Len(r) = 3 /\ r[1] = a /\ r[2] = b /\ r[3] = c
    <2> HIDE DEF p, q
    <2> QED
        BY <1>1, ConcatProperties
<1>3. r = <<a, b, c>>
    <2> HIDE DEF r
    <2> QED
        BY <1>2
<1> QED
    BY <1>3

LEMMA FromStopping ==
    ASSUME OnePt, TypeInv, app_mutex = "free", commands = <<>>, Stopping, Next
    PROVE  PhaseInv'
<1>0. /\ works = {} /\ Old /\ NoReport /\ ~pt_pending_subscribe /\ Alone("main")
      /\ ThreadType /\ QueueType /\ "main" \in Threads /\ callback = "idle"
    BY DEF Stopping, TypeInv, Threads, NoReport
<1> DEFINE list == <<Do("stop_scan"), Do("cancel_works"), Do("beacon_subscribe")>>
           First == /\ todo["main"] = list /\ pt_scan_in_progress
                    /\ "main" \in waiting /\ asked = <<>> => scan = "off"
           Second == /\ todo["main"] \in {<<Do("cancel_works"), Do("beacon_subscribe")>>,
                                          <<Do("beacon_subscribe")>>}
                     /\ "main" \notin waiting /\ NoScan
<1>1. StopActivity \o <<Do("beacon_subscribe")>> = list
    BY ThreeSteps, Zenon DEF StopActivity
<1>2. First \/ Second
    BY <1>1 DEF Stopping
<1>3. /\ Head(list) = Do("stop_scan") /\ Do("stop_scan").do = "stop_scan" /\ list # <<>>
      /\ Tail(list) = <<Do("cancel_works"), Do("beacon_subscribe")>>
    BY DEF Do
<1>4. ASSUME NEW d, todo["main"] = <<Do(d)>> \/ todo["main"] = <<Do(d), Do("beacon_subscribe")>>
      PROVE  Head(todo["main"]).do = d /\ todo["main"] # <<>>
    BY <1>4 DEF Do
<1>5. todo["main"] # <<>>
    BY <1>2, <1>3, <1>4
<1>6. ASSUME First' \/ Second', works' = {}, Old', NoReport', ~pt_pending_subscribe', Alone("main")',
             UNCHANGED <<app_mutex, commands>>
      PROVE  PhaseInv'
    <2>1. Stopping'
        BY <1>1, <1>6 DEF Stopping
    <2> QED
        BY <1>6, <2>1 DEF PhaseInv, Phase
<1> HIDE DEF list
<1>7. CASE Modem
    <2>1. Answer \/ HearsBeacon \/ ScanEnds
        BY <1>0, <1>7 DEF NoReport, Modem, Subscribed, Associated, LinkReleased, RxFailure,
                          cb_ntf_cluster_beacon_rx_failure, ReleaseAndResubscribe
    <2>2. CASE Answer
        <3>1. /\ "main" \in waiting /\ Alone("main")' /\ UNCHANGED <<todo, waiting>> /\ asked' = <<>>
              /\ subscription' \in {subscription, "off"} /\ link' \in {link, "off"}
              /\ IF Head(todo["main"]).do = "stop_scan"
                 THEN scan' = "off" /\ Put("OP_NETWORK_SCAN_STOP", "ok")
                 ELSE app_evt_msgq' = app_evt_msgq
              /\ UNCHANGED <<pt_scan_in_progress, pt_pending_subscribe, works, app_mutex, callback, commands>>
            BY <1>0, <2>2, AloneAnswer
        <3>2. First /\ Head(todo["main"]).do = "stop_scan"
            BY <1>2, <1>3, <3>1
        <3>3. Old'
            BY <1>0, <3>1, <3>2, PutFacts, EventFacts
        <3>4. First' /\ NoReport'
            BY <1>0, <3>1, <3>2 DEF NoReport
        <3> QED
            BY <1>0, <1>6, <3>1, <3>3, <3>4
    <2>3. CASE HearsBeacon \/ ScanEnds
        <3>1. /\ ModemIdle /\ NoThread /\ UNCHANGED <<subscription, link>> /\ scan # "off"
              /\ Put("CLUSTER_BEACON", "ok") \/ Put("OP_NETWORK_SCAN", "ok")
            BY <2>3 DEF HearsBeacon, ScanEnds
        <3>2. First /\ ("main" \notin waiting \/ asked # <<>>)
            BY <1>2, <3>1 DEF NoScan
        <3>3. UNCHANGED <<todo, waiting, asked, current_wait, op_sem, pt_scan_in_progress,
                       pt_pending_subscribe, works, app_mutex, commands, callback>>
            BY <3>1, ModemFrame
        <3>4. Old'
            BY <1>0, <3>1, PutFacts, EventFacts
        <3>5. First' /\ NoReport'
            BY <1>0, <3>1, <3>2, <3>3 DEF NoReport
        <3>6. Alone("main")'
            BY <1>0, <3>3 DEF Alone, Reason
        <3> QED
            BY <1>0, <1>6, <3>3, <3>4, <3>5, <3>6
    <2> QED
        BY <2>1, <2>2, <2>3
<1>8. CASE StepOf("main") /\ "main" \in waiting
    <2>1. First
        BY <1>2, <1>8
    <2>2. Wait("main")
        BY <1>0, <1>8, WaitsOnly
    <2>3. /\ asked = <<>> /\ asked' = <<>> /\ waiting' = waiting \ {"main"}
          /\ \E ok \in BOOLEAN : WaitOver("main", ok)
          /\ UNCHANGED <<pt_pending_subscribe, works, app_evt_msgq, app_mutex, callback, scan,
                         subscription, link, commands>>
        BY <1>0, <2>2, AloneWait
    <2>4. pt_scan_in_progress' = FALSE /\ Continue("main")
        BY <1>3, <2>1, <2>3 DEF WaitOver
    <2>5. Goto("main", <<Do("cancel_works"), Do("beacon_subscribe")>>)
        BY <1>3, <2>1, <2>4 DEF Continue
    <2>6. /\ Alone("main")' /\ todo'["main"] = <<Do("cancel_works"), Do("beacon_subscribe")>>
          /\ "main" \notin waiting'
        BY <1>0, <2>3, <2>5, AloneAfter
    <2>7. NoScan' /\ NoReport'
        BY <1>0, <1>8, <2>1, <2>3, <2>4 DEF NoScan, NoReport
    <2>8. Old'
        BY <1>0, <2>3 DEF Old, OldBut
    <2> QED
        BY <1>0, <1>6, <2>3, <2>6, <2>7, <2>8
<1>9. CASE StepOf("main") /\ "main" \notin waiting /\ First
    <2>1. Request("main") \/ NothingToStop("main")
        <3>1. Head(todo["main"]).do \in WaitOps
            BY <1>3, <1>9, OpNames
        <3> QED
            BY <1>0, <1>9, <3>1, Which
    <2>2. Request("main")
        BY <1>9, <2>1 DEF NothingToStop
    <2>3. /\ Alone("main")' /\ "main" \in waiting' /\ asked' # <<>> /\ UNCHANGED <<todo, phaseVars>>
        BY <1>0, <1>9, <2>2, AloneRequest
    <2>4. First' /\ NoReport' /\ Old'
        BY <1>0, <1>9, <2>3 DEF phaseVars, NoReport, Old, OldBut
    <2> QED
        BY <1>0, <1>6, <2>3, <2>4 DEF phaseVars
<1>10. CASE StepOf("main") /\ Second /\ todo["main"] = <<Do("cancel_works"), Do("beacon_subscribe")>>
    <2>1. cancel_works("main")
        BY <1>0, <1>4, <1>10, Which
    <2>2. Goto("main", <<Do("beacon_subscribe")>>)
        <3>1. Tail(<<Do("cancel_works"), Do("beacon_subscribe")>>) = <<Do("beacon_subscribe")>>
            OBVIOUS
        <3> QED
            BY <1>10, <2>1, <3>1 DEF cancel_works, Continue
    <2>3. /\ waiting' = waiting \ {"main"} /\ works' = {}
          /\ UNCHANGED <<asked, pt_scan_in_progress, pt_pending_subscribe, app_evt_msgq, app_mutex,
                         callback, scan, subscription, link, commands>>
        BY <1>0, <1>10, <2>1 DEF cancel_works, scanVars, modemVars, radioVars, bounds
    <2>4. asked' = <<>>
        BY <1>0, <1>10, <2>3 DEF Alone
    <2>5. Alone("main")' /\ todo'["main"] = <<Do("beacon_subscribe")>> /\ "main" \notin waiting'
        BY <1>0, <2>2, <2>3, <2>4, AloneAfter
    <2>6. NoScan' /\ NoReport' /\ Old'
        BY <1>0, <1>10, <2>3 DEF NoScan, NoReport, Old, OldBut
    <2> QED
        BY <1>0, <1>6, <2>3, <2>5, <2>6 DEF NoScan
<1>11. CASE StepOf("main") /\ Second /\ todo["main"] = <<Do("beacon_subscribe")>>
    <2>1. BeaconSubscribe("main")
        BY <1>0, <1>4, <1>11, Which
    <2>2. Goto("main", <<>>)
        <3>1. Tail(<<Do("beacon_subscribe")>>) = <<>>
            OBVIOUS
        <3> QED
            BY <1>11, <2>1, <3>1 DEF BeaconSubscribe, Continue
    <2>3. /\ waiting' = waiting \ {"main"} /\ works' = {"subscribe_timeout"}
          /\ UNCHANGED <<asked, pt_scan_in_progress, pt_pending_subscribe, app_evt_msgq, app_mutex,
                         callback, scan, link, commands>>
        BY <1>0, <1>11, <2>1 DEF BeaconSubscribe, scanVars
    <2>4. asked' = <<>>
        BY <1>0, <1>11, <2>3 DEF Alone
    <2>5. NobodyRuns'
        BY <1>0, <2>2, <2>3, <2>4, AloneAfter
    <2>6. NoScan' /\ Old' /\ link' = "off" /\ callback' = "idle"
        BY <1>0, <1>11, <2>3 DEF NoScan, NoReport, Old, OldBut
    <2>7. OldBut({"OP_CLUSTER_BEACON_RECEIVE"})'
        BY <2>6 DEF Old, OldBut
    <2>8. Subscribing'
        BY <2>3, <2>5, <2>6, <2>7 DEF Subscribing
    <2> QED
        BY <1>0, <2>3, <2>8 DEF PhaseInv, Phase
<1>12. Modem \/ StepOf("main")
    BY <1>0, <1>5, NoCommand, NoWork, NoEvent, OnlyOne DEF Next
<1> QED
    BY <1>2, <1>7, <1>8, <1>9, <1>10, <1>11, <1>12

LEMMA FromSubscribing ==
    ASSUME OnePt, TypeInv, app_mutex = "free", commands = <<>>, Subscribing, Next
    PROVE  PhaseInv'
<1>0. /\ works = {"subscribe_timeout"} /\ NobodyRuns /\ NoScan /\ link = "off" /\ callback = "idle"
      /\ OldBut({"OP_CLUSTER_BEACON_RECEIVE"}) /\ (subscription = "asked" => Old)
      /\ ThreadType /\ QueueType /\ "work" \in Threads
    BY DEF Subscribing, TypeInv, Threads
<1>1. CASE EventLoop
    <2>1. /\ app_evt_msgq # <<>> /\ app_evt_msgq' = Tail(app_evt_msgq)
          /\ UNCHANGED <<waiting, asked, app_mutex, callback, scan, subscription, link, commands>>
        BY <1>1, EventRest
    <2>2. CASE Head(app_evt_msgq).type \in Leftovers
        <3>1. NobodyRuns' /\ NoScan' /\ works' = works
            BY <1>0, <1>1, <2>2, OldEvent
        <3>2. OldBut({"OP_CLUSTER_BEACON_RECEIVE"})' /\ (subscription' = "asked" => Old')
            BY <1>0, <2>1, TailFacts
        <3>3. Subscribing'
            BY <1>0, <2>1, <3>1, <3>2 DEF Subscribing
        <3> QED
            BY <2>1, <3>3 DEF PhaseInv, Phase
    <2>3. CASE Head(app_evt_msgq).type \notin Leftovers
        <3>1. Old' /\ Head(app_evt_msgq).type = "OP_CLUSTER_BEACON_RECEIVE"
            BY <1>0, <2>1, <2>3, TailFacts
        <3>2. process_op_cluster_beacon_receive_event
            BY <1>1, <3>1, WhichEvent
        <3>3. works' \in {{}, {"associate"}, {"recovery"}} /\ UNCHANGED <<todo, scanVars>>
            BY <1>0, <3>2 DEF process_op_cluster_beacon_receive_event
        <3>4. NobodyRuns' /\ NoScan'
            BY <1>0, <2>1, <3>3 DEF NobodyRuns, NoScan, scanVars
        <3>5. subscription # "asked"
            <4>1. Old => Head(app_evt_msgq).type \in Leftovers
                BY <1>0, <2>1, TailFacts DEF Old
            <4> QED
                BY <1>0, <2>3, <4>1
        <3>6. (Idle \/ Due)'
            BY <1>0, <2>1, <3>1, <3>3, <3>4, <3>5, DueOrIdle DEF NoReport
        <3> QED
            BY <2>1, <3>6 DEF PhaseInv, Phase
    <2> QED
        BY <2>2, <2>3
<1>2. CASE Work
    <2>1. pt_subscribe_timeout
        BY <1>0, <1>2 DEF Work, pt_associate_work, pt_resubscribe_work, pt_recovery_work, Runs
    <2>2. app_evt_msgq = <<>> /\ app_evt_msgq' = <<>>
        BY <2>1 DEF pt_subscribe_timeout, Runs, InTime, Quiet, OnePt
    <2>3. subscription # "asked"
        BY <2>1 DEF pt_subscribe_timeout, BeaconDue, Fault, OnePt
    <2>4. /\ works' = {}
          /\ UNCHANGED <<waiting, asked, pt_scan_in_progress, pt_pending_subscribe, app_mutex, callback,
                         scan, subscription, commands, link>>
        BY <1>0, <2>1 DEF pt_subscribe_timeout, Runs, scanVars
    <2>5. NoScan' /\ NoReport'
        BY <1>0, <2>3, <2>4 DEF NoScan, NoReport
    <2>6. CASE UNCHANGED todo
        <3>1. NobodyRuns' /\ Old'
            <4>1. Old
                BY <2>2, NoneOld
            <4> QED
                BY <1>0, <2>2, <2>4, <2>6, <4>1 DEF NobodyRuns, Old, OldBut
        <3>2. (Idle \/ Due)'
            BY <2>4, <2>5, <3>1, DueOrIdle
        <3> QED
            BY <1>0, <2>4, <3>2 DEF PhaseInv, Phase
    <2>7. CASE Goto("work", <<Do("no_beacon")>>)
        <3>1. Alone("work") /\ waiting' = waiting \ {"work"} /\ asked' = <<>>
            BY <1>0, <2>4 DEF NobodyRuns, Alone
        <3>2. Alone("work")' /\ todo'["work"] = <<Do("no_beacon")>> /\ "work" \notin waiting'
            BY <1>0, <2>7, <3>1, AloneAfter
        <3>3. Single'
            BY <2>2, <2>4, <2>5, <3>2 DEF Single, Begun, RadioOff, NoScan
        <3> QED
            BY <1>0, <2>4, <3>3 DEF PhaseInv, Phase
    <2> QED
        BY <2>1, <2>6, <2>7 DEF pt_subscribe_timeout
<1>3. CASE Modem
    <2>1. Subscribed
        BY <1>0, <1>3 DEF NobodyRuns, NoScan, Modem, Answer, HearsBeacon, ScanEnds, Associated, LinkReleased,
                          RxFailure, cb_ntf_cluster_beacon_rx_failure, ReleaseAndResubscribe
    <2>2. /\ ModemIdle /\ NoThread /\ UNCHANGED <<scan, link>>
          /\ subscription = "asked" /\ subscription' # "asked"
          /\ \/ Put("OP_CLUSTER_BEACON_RECEIVE", "ok")
             \/ Put("OP_CLUSTER_BEACON_RECEIVE", "error")
        BY <2>1 DEF Subscribed
    <2>3. OldBut({"OP_CLUSTER_BEACON_RECEIVE"})'
        BY <1>0, <2>2, PutFacts, EventFacts
    <2>4. Subscribing'
        BY <1>0, <2>2, <2>3, ModemFrame DEF Subscribing, NobodyRuns, NoScan
    <2> QED
        BY <2>2, <2>4, ModemFrame DEF PhaseInv, Phase
<1>4. EventLoop \/ Work \/ Modem
    BY <1>0, NoCommand, NoStepAtAll DEF Next
<1> QED
    BY <1>1, <1>2, <1>3, <1>4

LEMMA FromDue ==
    ASSUME OnePt, TypeInv, app_mutex = "free", commands = <<>>, Due, Next
    PROVE  PhaseInv'
<1>0. /\ works \in {{"associate"}, {"recovery"}} /\ NobodyRuns /\ NoScan /\ RadioOff /\ Old
      /\ ThreadType /\ QueueType /\ "work" \in Threads
    BY DEF Due, TypeInv, Threads
<1>1. CASE EventLoop
    <2>1. /\ app_evt_msgq # <<>> /\ app_evt_msgq' = Tail(app_evt_msgq)
          /\ UNCHANGED <<waiting, asked, app_mutex, callback, scan, subscription, link, commands>>
        BY <1>1, EventRest
    <2>2. Old' /\ Head(app_evt_msgq).type \in Leftovers
        BY <1>0, <2>1, TailFacts DEF Old
    <2>3. NobodyRuns' /\ NoScan' /\ works' = works
        BY <1>0, <1>1, <2>2, OldEvent
    <2>4. Due'
        BY <1>0, <2>1, <2>2, <2>3 DEF Due, RadioOff, NoReport
    <2> QED
        BY <2>1, <2>4 DEF PhaseInv, Phase
<1>2. CASE pt_associate_work
    <2>1. /\ works' = {} /\ link' \in {"off", "asked"}
          /\ UNCHANGED <<todo, waiting, asked, pt_scan_in_progress, pt_pending_subscribe, app_mutex,
                         callback, scan, subscription, commands, app_evt_msgq>>
        BY <1>0, <1>2 DEF pt_associate_work, Runs, scanVars, RadioOff, NoReport
    <2>2. Old' /\ OldBut(LinkEvents)' /\ \A i \in 1..Len(app_evt_msgq') : Success(app_evt_msgq'[i])
        BY <1>0, <2>1 DEF Old, OldBut, Success
    <2>3. Idle'
        BY <1>0, <2>1, <2>2 DEF Idle, NobodyRuns, NoScan, RadioOff, NoReport
    <2> QED
        BY <2>1, <2>3 DEF PhaseInv, Phase
<1>3. CASE pt_recovery_work
    <2>1. app_evt_msgq = <<>> /\ app_evt_msgq' = <<>>
        BY <1>3 DEF pt_recovery_work, Runs, InTime, Quiet, OnePt
    <2>2. /\ works' = {} /\ UNCHANGED <<waiting, asked, pt_scan_in_progress, pt_pending_subscribe, app_mutex,
                         callback, scan, subscription, commands, link>>
        <3>1. works' = works \ {"recovery"} /\ "recovery" \in works
            BY <1>3 DEF pt_recovery_work, Runs
        <3>2. works' = {}
            BY <1>0, <3>1
        <3> QED
            BY <1>3, <3>2 DEF pt_recovery_work, Runs, scanVars
    <2>3. NoScan' /\ NoReport' /\ RadioOff'
        BY <1>0, <2>2 DEF NoScan, NoReport, RadioOff
    <2>4. CASE UNCHANGED todo
        <3>1. NobodyRuns' /\ Old'
            BY <1>0, <2>1, <2>2, <2>4 DEF NobodyRuns, Old, OldBut
        <3>2. (Idle \/ Due)'
            BY <2>2, <2>3, <3>1, DueOrIdle
        <3> QED
            BY <2>2, <3>2 DEF PhaseInv, Phase
    <2> DEFINE s == (StopActivity \o InitMac(TRUE, "recover_later"))
                    \o <<Do("recovery_state"), Do("recovery_scan")>>
    <2>5. CASE Goto("work", s)
        <3>1. SettingList(s) /\ Len(s) \in Nat \ {0, 1, 2}
            <4>1. "recover_later" \in PtHandlers
                BY DEF PtHandlers
            <4> QED
                BY <4>1, InitMacSetsUp, SetUpThenScan
        <3> HIDE DEF s
        <3>2. Alone("work") /\ waiting' = waiting \ {"work"} /\ asked' = <<>>
            BY <1>0, <2>2 DEF NobodyRuns, Alone
        <3>3. Alone("work")' /\ todo'["work"] = s /\ "work" \notin waiting'
            BY <1>0, <2>5, <3>2, AloneAfter
        <3>4. SettingList(todo["work"])' /\ Len(todo'["work"]) # 1
            BY <3>1, <3>3 DEF SettingList
        <3>5. SettingBy("work")'
            BY <2>3, <3>3, <3>4 DEF SettingBy
        <3> QED
            BY <2>1, <2>2, <2>3, <3>5 DEF PhaseInv, Phase, Setting
    <2>6. StopActivity \o InitMac(TRUE, "recover_later") \o <<Do("recovery_state"), Do("recovery_scan")>> = s
        OBVIOUS
    <2> QED
        BY <1>3, <2>4, <2>5, <2>6 DEF pt_recovery_work
<1>4. EventLoop \/ pt_associate_work \/ pt_recovery_work
    <2>1. EventLoop \/ Work
        BY <1>0, NoCommand, NoStepAtAll, NoAnswer DEF Next, NobodyRuns
    <2> QED
        BY <1>0, <2>1 DEF Work, pt_resubscribe_work, pt_subscribe_timeout, Runs
<1> QED
    BY <1>1, <1>2, <1>3, <1>4

LEMMA FromSingle ==
    ASSUME OnePt, TypeInv, app_mutex = "free", commands = <<>>, Single, Next
    PROVE  PhaseInv'
<1>1. PICK t \in {"shell", "work"} : Begun(t)
    BY DEF Single
<1>2. PICK d \in {"no_beacon", "recover_later", "resubscribe", "cannot_resubscribe"} :
          todo[t] = <<Do(d)>>
    BY <1>1 DEF Begun
<1>0. /\ works = {} /\ NoScan /\ RadioOff /\ app_evt_msgq = <<>> /\ t \in Threads
      /\ ThreadType /\ Alone(t) /\ t \notin waiting /\ asked = <<>>
    BY <1>1 DEF Single, Begun, TypeInv, Threads, Alone
<1>3. StepOf(t)
    BY <1>0, NoCommand, NoWork, NoEvent, NoAnswer, OnlyOne DEF Next
<1>4. Head(todo[t]).do = d /\ Tail(todo[t]) = <<>>
    BY <1>2 DEF Do
<1>5. NoBeacon(t) \/ RecoverLater(t) \/ Resubscribe(t)
    BY <1>0, <1>3, <1>4, Which
<1>6. /\ Continue(t) /\ waiting' = waiting
      /\ UNCHANGED <<asked, pt_scan_in_progress, pt_pending_subscribe, app_evt_msgq, app_mutex, callback,
                     scan, link, commands>>
      /\ \/ ScheduleRecovery(works) /\ subscription' \in {subscription, "off"}
         \/ works' = works \cup {"subscribe_timeout"}
    BY <1>5 DEF NoBeacon, RecoverLater, Resubscribe, ReceiveRefused, scanVars, modemVars, radioVars, bounds
<1>7. NobodyRuns'
    <2>1. Goto(t, <<>>) /\ waiting' = waiting \ {t} /\ asked' = <<>>
        BY <1>0, <1>4, <1>6 DEF Continue
    <2> QED
        BY <1>0, <2>1, AloneAfter
<1>8. NoScan' /\ Old'
    <2>1. Old
        BY <1>0, NoneOld
    <2> QED
        BY <1>0, <1>6, <2>1 DEF NoScan, Old, OldBut
<1>9. CASE ScheduleRecovery(works) /\ subscription' \in {subscription, "off"}
    <2>1. works' \in {{}, {"associate"}, {"recovery"}} /\ NoReport'
        BY <1>0, <1>6, <1>9, RecoversFromNone DEF RadioOff, NoReport
    <2>2. (Idle \/ Due)'
        BY <1>7, <1>8, <2>1, DueOrIdle
    <2> QED
        BY <1>6, <2>2 DEF PhaseInv, Phase
<1>10. CASE works' = works \cup {"subscribe_timeout"}
    <2>1. OldBut({"OP_CLUSTER_BEACON_RECEIVE"})'
        BY <1>8 DEF Old, OldBut
    <2>2. Subscribing'
        BY <1>0, <1>6, <1>7, <1>8, <1>10, <2>1 DEF Subscribing, RadioOff, NoReport
    <2> QED
        BY <1>6, <2>2 DEF PhaseInv, Phase
<1> QED
    BY <1>6, <1>9, <1>10

LEMMA FromIdle ==
    ASSUME OnePt, TypeInv, app_mutex = "free", commands = <<>>, Idle, Next
    PROVE  PhaseInv'
<1>0. /\ works = {} /\ NobodyRuns /\ NoScan /\ subscription # "asked"
      /\ link # "releasing" /\ OldBut(LinkEvents)
      /\ (link = "asked" \/ callback # "idle" => Old)
      /\ (callback # "idle" => link = "on")
      /\ (link # "off" => \A i \in 1..Len(app_evt_msgq) : Success(app_evt_msgq[i]))
      /\ ThreadType /\ QueueType /\ asked = <<>>
    BY DEF Idle, TypeInv, NobodyRuns
<1>1. ASSUME EventLoop, Head(app_evt_msgq).type \in Leftovers PROVE PhaseInv'
    <2>1. /\ app_evt_msgq # <<>> /\ app_evt_msgq' = Tail(app_evt_msgq)
          /\ UNCHANGED <<waiting, asked, app_mutex, callback, scan, subscription, link, commands>>
        BY <1>1, EventRest
    <2>2. NobodyRuns' /\ NoScan' /\ works' = works
        BY <1>0, <1>1, OldEvent
    <2>3. OldBut(LinkEvents)' /\ (Old => Old')
        BY <1>0, <2>1, TailFacts
    <2>4. link # "off" => \A i \in 1..Len(app_evt_msgq') : Success(app_evt_msgq'[i])
        BY <1>0, <2>1, TailFacts
    <2>5. Idle'
        BY <1>0, <2>1, <2>2, <2>3, <2>4 DEF Idle
    <2> QED
        BY <2>1, <2>5 DEF PhaseInv, Phase
<1>2. ASSUME EventLoop, Head(app_evt_msgq).type \notin Leftovers PROVE PhaseInv'
    <2>1. /\ app_evt_msgq # <<>> /\ app_evt_msgq' = Tail(app_evt_msgq)
          /\ UNCHANGED <<waiting, asked, app_mutex, callback, scan, subscription, link, commands>>
        BY <1>2, EventRest
    <2>2. Old' /\ Head(app_evt_msgq).type \in LinkEvents
        BY <1>0, <1>2, <2>1, TailFacts
    <2>3. callback = "idle" /\ link # "asked"
        <3>1. Old => Head(app_evt_msgq).type \in Leftovers
            BY <1>0, <2>1, TailFacts DEF Old
        <3> QED
            BY <1>0, <1>2, <3>1
    <2>4. link # "off" => Success(Head(app_evt_msgq))
        BY <1>0, <2>1, TailFacts
    <2>5. process_ntf_association_event \/ process_association_release_event
        BY <1>2, <2>2, WhichEvent DEF LinkEvents
    <2>6. UNCHANGED <<todo, pt_scan_in_progress, pt_pending_subscribe>>
        BY <2>5 DEF process_ntf_association_event, process_association_release_event, scanVars
    <2>7. NobodyRuns' /\ NoScan'
        BY <1>0, <2>1, <2>6 DEF NobodyRuns, NoScan
    <2>8. CASE link = "off"
        <3>1. NoReport'
            BY <1>0, <2>1, <2>3, <2>8 DEF NoReport
        <3>2. \/ works' = works \/ works' = works \cup {"associate"}
              \/ ScheduleRecovery(works)
            BY <2>5 DEF process_ntf_association_event, process_association_release_event, recoveryVars
        <3>3. works' \in {{}, {"associate"}, {"recovery"}}
            BY <1>0, <3>2, RecoversFromNone
        <3>4. (Idle \/ Due)'
            BY <2>2, <2>7, <3>1, <3>3, DueOrIdle
        <3> QED
            BY <2>1, <3>4 DEF PhaseInv, Phase
    <2>9. CASE link # "off"
        <3>1. Head(app_evt_msgq).type = "NTF_ASSOCIATION" /\ Head(app_evt_msgq).status = "ok"
            BY <1>2, <2>4, <2>9 DEF Success
        <3>2. process_ntf_association_event
            BY <1>2, <3>1, WhichEvent
        <3>3. works' = works
            BY <3>1, <3>2 DEF process_ntf_association_event, Received
        <3>4. /\ OldBut(LinkEvents)'
              /\ \A i \in 1..Len(app_evt_msgq') : Success(app_evt_msgq'[i])
            BY <2>2 DEF Old, OldBut, Success
        <3>5. Idle'
            BY <1>0, <2>1, <2>2, <2>7, <3>3, <3>4 DEF Idle
        <3> QED
            BY <2>1, <3>5 DEF PhaseInv, Phase
    <2> QED
        BY <2>8, <2>9
<1>3. ASSUME \/ Associated /\ Old /\ link = "asked"
             \/ LinkReleased /\ link = "on" /\ Old
      PROVE  PhaseInv'
    <2>1. ModemIdle /\ NoThread /\ UNCHANGED <<scan, subscription>>
        BY <1>3 DEF Associated, LinkReleased
    <2>2. \/ link' = "on" /\ Put("NTF_ASSOCIATION", "ok")
          \/ /\ link' = "off"
             /\ \/ Put("NTF_ASSOCIATION", "no_response") \/ Put("NTF_ASSOCIATION", "error")
                \/ Put("ASSOCIATION_RELEASE", "ok")
        BY <1>3 DEF Associated, LinkReleased
    <2>3. OldBut(LinkEvents)'
        <3>1. "NTF_ASSOCIATION" \in LinkEvents /\ "ASSOCIATION_RELEASE" \in LinkEvents
            BY DEF LinkEvents
        <3> QED
            BY <1>0, <1>3, <2>2, <3>1, PutFacts, EventFacts
    <2>4. link' # "off" => \A i \in 1..Len(app_evt_msgq') : Success(app_evt_msgq'[i])
        BY <1>0, <1>3, <2>2, PutFacts, EventFacts
    <2>5. Idle'
        BY <1>0, <2>1, <2>2, <2>3, <2>4, ModemFrame DEF Idle, NobodyRuns, NoScan
    <2> QED
        BY <2>1, <2>5, ModemFrame DEF PhaseInv, Phase
<1>4. CASE RxFailure
    <2>1. /\ app_evt_msgq = <<>> /\ link = "on" /\ callback' = "rx_failure" /\ subscription' = "off"
          /\ UNCHANGED <<works, app_evt_msgq, asked, scan, link>>
        BY <1>4 DEF RxFailure, InTime, Quiet, OnePt
    <2>2. UNCHANGED <<todo, waiting, pt_scan_in_progress, pt_pending_subscribe, app_mutex, commands>>
        BY <1>4 DEF RxFailure, ModemIdle, threadVars, scanVars
    <2>3. 1..Len(app_evt_msgq') = {}
        BY <2>1
    <2>4. /\ Old' /\ OldBut(LinkEvents)'
          /\ \A i \in 1..Len(app_evt_msgq') : Success(app_evt_msgq'[i])
        BY <2>3 DEF Old, OldBut
    <2>5. Idle'
        BY <1>0, <2>1, <2>2, <2>4 DEF Idle, NobodyRuns, NoScan
    <2> QED
        BY <2>2, <2>5 DEF PhaseInv, Phase
<1>5. CASE cb_ntf_cluster_beacon_rx_failure
    <2>1. /\ callback = "rx_failure" /\ callback' = "release"
          /\ UNCHANGED <<works, app_evt_msgq, asked, scan, subscription, link, app_mutex, todo, waiting,
                         pt_scan_in_progress, pt_pending_subscribe, commands>>
        BY <1>5 DEF cb_ntf_cluster_beacon_rx_failure, threadVars, scanVars, recoveryVars, radioVars, bounds
    <2>2. Idle'
        BY <1>0, <2>1 DEF Idle, NobodyRuns, NoScan, Old, OldBut
    <2> QED
        BY <2>1, <2>2 DEF PhaseInv, Phase
<1>8. CASE ReleaseAndResubscribe
    <2>1. /\ callback = "release" /\ callback' = "idle" /\ works' = works \cup {"resubscribe"}
          /\ link' = Released
          /\ UNCHANGED <<app_evt_msgq, asked, scan, subscription, app_mutex, todo, waiting,
                         pt_scan_in_progress, pt_pending_subscribe, commands>>
        BY <1>8 DEF ReleaseAndResubscribe, Release, Fault, OnePt, threadVars, scanVars
    <2>2. Old /\ link' = "releasing"
        BY <1>0, <2>1 DEF Released
    <2>3. Old' /\ OldBut({"ASSOCIATION_RELEASE"})'
        BY <2>1, <2>2 DEF Old, OldBut
    <2>4. Releasing'
        BY <1>0, <2>1, <2>2, <2>3 DEF Releasing, NobodyRuns, NoScan
    <2> QED
        BY <2>1, <2>4 DEF PhaseInv, Phase
<1>6. EventLoop \/ Modem
    BY <1>0, NoCommand, NoWork, NoStepAtAll DEF Next
<1>7. CASE Modem
    <2>1. \/ Associated \/ LinkReleased \/ RxFailure \/ cb_ntf_cluster_beacon_rx_failure
          \/ ReleaseAndResubscribe
        BY <1>0, <1>7 DEF NoScan, Modem, Answer, HearsBeacon, ScanEnds, Subscribed
    <2>2. Associated => link = "asked" /\ Old
        BY <1>0 DEF Associated
    <2>3. LinkReleased => link = "on" /\ Old
        <3>1. LinkReleased => link = "on" /\ app_evt_msgq = <<>>
            BY <1>0 DEF LinkReleased, InTime, Quiet, OnePt
        <3> QED
            BY <3>1, NoneOld
    <2> QED
        BY <1>3, <1>4, <1>5, <1>8, <2>1, <2>2, <2>3
<1> QED
    BY <1>1, <1>2, <1>6, <1>7

LEMMA FromReleasing ==
    ASSUME OnePt, TypeInv, app_mutex = "free", commands = <<>>, Releasing, Next
    PROVE  PhaseInv'
<1>0. /\ works = {"resubscribe"} /\ NobodyRuns /\ NoScan /\ subscription # "asked"
      /\ callback = "idle" /\ link \in {"releasing", "off"}
      /\ OldBut({"ASSOCIATION_RELEASE"}) /\ (link = "releasing" => Old)
      /\ ThreadType /\ QueueType /\ "work" \in Threads
    BY DEF Releasing, TypeInv, Threads
<1>1. CASE EventLoop
    <2>1. /\ app_evt_msgq # <<>> /\ app_evt_msgq' = Tail(app_evt_msgq)
          /\ UNCHANGED <<waiting, asked, app_mutex, callback, scan, subscription, link, commands>>
        BY <1>1, EventRest
    <2>2. OldBut({"ASSOCIATION_RELEASE"})' /\ (link' = "releasing" => Old')
        BY <1>0, <2>1, TailFacts
    <2>3. NobodyRuns' /\ NoScan' /\ works' = works
        <3>1. CASE Head(app_evt_msgq).type \in Leftovers
            BY <1>0, <1>1, <3>1, OldEvent
        <3>2. CASE Head(app_evt_msgq).type \notin Leftovers
            <4>1. Head(app_evt_msgq).type = "ASSOCIATION_RELEASE"
                BY <1>0, <2>1, <3>2, TailFacts
            <4>2. process_association_release_event
                BY <1>1, <4>1, WhichEvent
            <4>3. UNCHANGED <<works, todo, pt_scan_in_progress, pt_pending_subscribe>>
                BY <1>0, <4>2 DEF process_association_release_event, scanVars, recoveryVars
            <4> QED
                BY <1>0, <2>1, <4>3 DEF NobodyRuns, NoScan
        <3> QED
            BY <3>1, <3>2
    <2>4. Releasing'
        BY <1>0, <2>1, <2>2, <2>3 DEF Releasing
    <2> QED
        BY <2>1, <2>4 DEF PhaseInv, Phase
<1>2. CASE Work
    <2>1. pt_resubscribe_work
        BY <1>0, <1>2 DEF Work, pt_associate_work, pt_subscribe_timeout, pt_recovery_work, Runs
    <2>2. app_evt_msgq = <<>> /\ app_evt_msgq' = <<>> /\ link = "off"
        BY <1>0, <2>1 DEF pt_resubscribe_work, Runs, InTime, Quiet, OnePt
    <2>3. /\ works' = {}
          /\ UNCHANGED <<waiting, asked, pt_scan_in_progress, pt_pending_subscribe, app_mutex, callback,
                         scan, subscription, commands, link>>
        BY <1>0, <2>1 DEF pt_resubscribe_work, Runs, scanVars
    <2>4. NoScan' /\ NoReport'
        BY <1>0, <2>2, <2>3 DEF NoScan, NoReport
    <2>5. CASE UNCHANGED todo
        <3>1. Old
            BY <2>2, NoneOld
        <3>2. NobodyRuns' /\ Old'
            BY <1>0, <2>2, <2>3, <2>5, <3>1 DEF NobodyRuns, Old, OldBut
        <3>3. (Idle \/ Due)'
            BY <2>3, <2>4, <3>2, DueOrIdle
        <3> QED
            BY <2>3, <3>3 DEF PhaseInv, Phase
    <2>6. ASSUME NEW d \in {"resubscribe", "cannot_resubscribe"}, Goto("work", <<Do(d)>>) PROVE PhaseInv'
        <3>1. Alone("work") /\ waiting' = waiting \ {"work"} /\ asked' = <<>>
            BY <1>0, <2>3 DEF NobodyRuns, Alone
        <3>2. Alone("work")' /\ todo'["work"] = <<Do(d)>> /\ "work" \notin waiting'
            BY <1>0, <2>6, <3>1, AloneAfter
        <3>3. Begun("work")'
            BY <3>2 DEF Begun
        <3>4. Single'
            BY <2>2, <2>3, <2>4, <3>3 DEF Single, RadioOff, NoScan
        <3> QED
            BY <2>3, <3>4 DEF PhaseInv, Phase
    <2>7. \/ UNCHANGED todo \/ Goto("work", <<Do("resubscribe")>>)
          \/ Goto("work", <<Do("cannot_resubscribe")>>)
        BY <2>1 DEF pt_resubscribe_work
    <2> QED
        BY <2>5, <2>6, <2>7
<1>3. CASE Modem
    <2>1. LinkReleased
        BY <1>0, <1>3 DEF NobodyRuns, NoScan, Modem, Answer, HearsBeacon, ScanEnds, Subscribed, Associated,
                          RxFailure, cb_ntf_cluster_beacon_rx_failure, ReleaseAndResubscribe
    <2>2. /\ ModemIdle /\ NoThread /\ UNCHANGED <<scan, subscription>>
          /\ link' = "off" /\ Old
          /\ Put("ASSOCIATION_RELEASE", "ok") \/ UNCHANGED app_evt_msgq
        BY <1>0, <2>1 DEF LinkReleased
    <2>3. OldBut({"ASSOCIATION_RELEASE"})'
        <3>1. CASE UNCHANGED app_evt_msgq
            BY <1>0, <3>1 DEF OldBut
        <3>2. CASE Put("ASSOCIATION_RELEASE", "ok")
            BY <1>0, <2>2, <3>2, PutFacts, EventFacts
        <3> QED
            BY <2>2, <3>1, <3>2
    <2>4. Releasing'
        BY <1>0, <2>2, <2>3, ModemFrame DEF Releasing, NobodyRuns, NoScan
    <2> QED
        BY <2>2, <2>4, ModemFrame DEF PhaseInv, Phase
<1>4. EventLoop \/ Work \/ Modem
    BY <1>0, NoCommand, NoStepAtAll DEF Next
<1> QED
    BY <1>1, <1>2, <1>3, <1>4

-----------------------------------------------------------------------------
(* One association at a time.                                              *)

LEMMA PhaseStays == PhaseInv /\ UNCHANGED vars => PhaseInv'
BY DEF vars, linkVars, scanVars, modeVars, channelVars, recoveryVars, waitVars, threadVars, modemVars,
       radioVars, bounds, PhaseInv, Phase, Start, Setting, SettingBy, SettingList, Scanning, Stopping,
       Subscribing, Due, Single, Begun, Idle, Releasing, Alone, Reason, NobodyRuns, NoReport, RadioOff,
       NoScan, Old, OldBut, No, Success

LEMMA PhaseNext == OnePt /\ TypeInv /\ PhaseInv /\ [Next]_vars => PhaseInv'
BY PhaseStays, FromStart, FromSetting, FromScanning, FromStopping, FromSubscribing, FromDue, FromSingle,
   FromIdle, FromReleasing DEF PhaseInv, Phase

LEMMA PhaseInit == OnePt /\ Init => PhaseInv
<1> SUFFICES ASSUME OnePt, Init PROVE PhaseInv
    OBVIOUS
<1>1. commands = <<"PT">>
    BY DEF OnePt, Init
<1>2. NobodyRuns /\ RadioOff /\ NoScan
    BY DEF Init, NobodyRuns, RadioOff, NoReport, NoScan
<1>3. Start
    BY <1>1, <1>2 DEF Init, Start
<1> QED
    BY <1>3 DEF Init, PhaseInv

\* Only pt_associate_work_handler asks for an association, and then it was due.
LEMMA AsksWhenDue ==
    [Next]_vars /\ pt_association_pending' /\ ~pt_association_pending => "associate" \in works
<1> SUFFICES ASSUME Next \/ UNCHANGED vars, pt_association_pending', ~pt_association_pending
             PROVE  "associate" \in works
    OBVIOUS
<1>1. ~Shell
    BY Zenon DEF Shell, cmd_stop, cmd_ft, cmd_scan, cmd_pt_scan, cmd_pt, restart_current_mode, cmd_send,
                 linkVars
<1>2. ASSUME NEW t \in Threads, StepOf(t) PROVE FALSE
    BY <1>2, Zenon
       DEF StepOf, Request, NothingToStop, Wait, cancel_works, reset_link_state, PtSynced, PtState, PtScan,
           start_pt_scan_mode, Unlock, FtSteps, PtSubscribe, BeaconSubscribe, Resubscribe, NoBeacon,
           RecoveryState, RecoveryScan, RecoverLater, linkVars
<1>3. ~EventLoop
    BY Zenon DEF EventLoop, process_cluster_beacon_event, process_op_network_scan_event,
                 process_op_network_scan_stop_event, process_op_cluster_beacon_receive_event,
                 process_ntf_association_event, process_association_release_event, linkVars
<1>4. ~Modem
    BY Zenon DEF Modem, Answer, HearsBeacon, ScanEnds, Subscribed, Associated, LinkReleased, RxFailure,
                 cb_ntf_cluster_beacon_rx_failure, ReleaseAndResubscribe, NoThread, linkVars
<1>5. ~UNCHANGED vars
    BY Zenon DEF vars, linkVars
<1>6. CASE Work
    BY <1>6, Zenon DEF Work, pt_associate_work, pt_resubscribe_work, pt_subscribe_timeout,
                       pt_recovery_work, Runs
<1> QED
    BY <1>1, <1>2, <1>3, <1>4, <1>5, <1>6 DEF Next

LEMMA DueHasNoLink == PhaseInv /\ "associate" \in works => link = "off"
BY DEF PhaseInv, Phase, Start, Setting, Scanning, Stopping, Subscribing, Due, Single, Idle, Releasing,
       RadioOff, NoReport

\* A PT that one command starts, that handles what is reported before its next
\* work, and whose modem refuses no wait and no release and answers no wait
\* late, asks for an association only when it has none and none is being made
\* or released, whatever else goes wrong and however often.
THEOREM OneAssociationAtATime == ASSUME OnePt PROVE Spec => OneAssociation
<1>1. TypeInv /\ PhaseInv /\ [Next]_vars => PhaseInv'
    BY PhaseNext
<1>2. Init => PhaseInv
    BY PhaseInit
<1>3. PhaseInv /\ [Next]_vars => [pt_association_pending' /\ ~pt_association_pending => link = "off"]_vars
    BY AsksWhenDue, DueHasNoLink
<1> QED
    BY <1>1, <1>2, <1>3, Types, PTL DEF Spec, OneAssociation
=============================================================================
