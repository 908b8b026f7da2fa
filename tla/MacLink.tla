------------------------------ MODULE MacLink ------------------------------
(***************************************************************************)
(* How the PT of the MAC variant gets its link and gets it back, and how   *)
(* its threads share one modem: src/mac_impl/mac_main.c.  The shell's      *)
(* commands, the delayed works of the system workqueue and the event loop  *)
(* of Mac_main are three threads that ask the modem for operations and     *)
(* wait for them with one global wait; the modem's callbacks run in a      *)
(* fourth.                                                                 *)
(*                                                                         *)
(* A thread's work is a list of steps, each a piece of code in which it    *)
(* neither blocks nor lets go of app_mutex.  The modem (external) answers  *)
(* what it is asked, in order, and reports what happens on the radio.      *)
(***************************************************************************)
EXTENDS Naturals, Sequences

CONSTANTS
    Scripts,        \* what may be typed in the shell: sequences of commands
    Carriers,       \* whether current_carrier may be the FT's channel
    Faults,         \* what may go wrong
    MaxFaults,      \* bound: how often
    Prompt,         \* TRUE: the event loop has handled what is reported before
                    \* the next work (100 ms or more) or loss of the link
    QueueDepth,     \* entries of app_evt_msgq (16 in the code)
    MaxRetries      \* associations tried before a recovery (10 in the code)

CommandNames == {"PT", "PT_SCAN", "FT", "SCAN", "STOP", "RESTART", "SEND"}
FaultKinds == {
    "refuse_wait", "refuse_scan", "refuse_subscribe", "refuse_associate",
    "refuse_release",   \* the modem refuses an operation
    "status",       \* an operation waited for ends with an error
    "late",         \* an answer comes after its timeout
    "unheard",      \* a scan ends without a beacon
    "subscribe_error",
    "no_response", "rejected",  \* an association fails
    "release", "rx_failure"}    \* a link is lost

ASSUME MacLinkAssumption ==
    /\ Scripts \subseteq Seq(CommandNames) /\ Faults \subseteq FaultKinds
    /\ {MaxFaults, QueueDepth} \subseteq Nat
    /\ MaxRetries \in Nat \ {0} /\ Prompt \in BOOLEAN /\ Carriers \subseteq BOOLEAN

VARIABLES
    \* what the threads share
    current_mode, ft_post_scan,
    pt_associated, pt_scan_in_progress, pt_association_pending,
    pt_pending_subscribe,
    pt_parent_long_rd_id,   \* 1 for the FT's, 0 for none
    on_channel,             \* pt_parent_channel is the FT's
    carrier,                \* current_carrier is the FT's
    period_known,           \* pt_parent_ft_period_ms # 0
    in_table,               \* pt_beacon_table has an entry for the channel
    pt_association_retries, pt_recovery_attempts,
    works,                  \* the delayable works that are scheduled
    app_evt_msgq,
    app_mutex,              \* "free", or the thread that holds it over steps
    current_wait, wait_status, op_sem,
    \* the threads
    todo,                   \* the steps each has before it
    waiting,                \* the threads in wait_for_prepared_operation
    ch,                     \* the local ch of the works: it is the FT's channel
    \* the modem
    callback,               \* its thread: "idle", waiting for app_mutex
                            \* ("rx_failure"), or past that ("release")
    asked,                  \* the operations it has not answered yet
    active, scan, subscription, link,
    \* bounds
    commands,               \* still to be typed
    faults

linkVars == <<pt_associated, pt_association_pending, pt_parent_long_rd_id,
              pt_association_retries>>
scanVars == <<pt_scan_in_progress, pt_pending_subscribe>>
channelVars == <<on_channel, carrier, ch>>
modeVars == <<current_mode, ft_post_scan, period_known, in_table, channelVars>>
recoveryVars == <<pt_recovery_attempts, works>>
waitVars == <<current_wait, wait_status, op_sem>>
threadVars == <<todo, waiting>>
radioVars == <<active, scan, subscription, link>>
modemVars == <<callback, asked, radioVars>>
bounds == <<commands, faults>>
vars == <<linkVars, scanVars, modeVars, recoveryVars, app_evt_msgq, app_mutex,
          waitVars, threadVars, modemVars, bounds>>

Threads == {"shell", "work", "main"}
Works == {"associate", "resubscribe", "subscribe_timeout", "recovery"}
Status == {"ok", "no_response", "error"}
Event == [type : {"CLUSTER_BEACON", "OP_NETWORK_SCAN", "OP_NETWORK_SCAN_STOP",
                  "OP_CLUSTER_BEACON_RECEIVE", "NTF_ASSOCIATION",
                  "ASSOCIATION_RELEASE"},
          status : Status]

\* The operations that are waited for, and the reasons of their waits.
WaitReason == [
    deactivate |-> "FUNCTIONAL", activate |-> "FUNCTIONAL",
    configure |-> "CONFIGURE", cluster_configure |-> "CLUSTER_CONFIGURE",
    network_beacon |-> "NETWORK_BEACON_CONFIGURE", rssi_scan |-> "RSSI_SCAN",
    stop_scan |-> "NETWORK_SCAN_STOP"]
WaitOps == DOMAIN WaitReason
Reasons == {"NONE"} \cup {WaitReason[op] : op \in WaitOps}

\* A step, and what is done instead of the steps after it when it fails.
OtherSteps == {"cancel_works", "reset_link_state", "pt_fast", "pt_cold",
    "network_scan", "pt_subscribe", "start_pt_scan_mode", "unlock", "post_scan", "ft_mode",
    "modem_synced", "pt_known", "beacon_subscribe", "resubscribe", "cannot_resubscribe", "no_beacon",
    "recovery_state", "recovery_scan", "recover_later"}
Handlers == {"return", "unlock", "recover_later", "pt_known"}
Step == [do : WaitOps \cup OtherSteps, orElse : Handlers]
Do(step) == [do |-> step, orElse |-> "return"]
Try(step, handler) == [do |-> step, orElse |-> handler]
\* Mutant: an error path returns at once.
HandlerForgotten(h) == <<>>
Handler(h) ==
    IF h = "return" THEN <<>>
    ELSE IF h = "pt_known" THEN <<Do("pt_known"), Do("pt_subscribe")>> ELSE <<Do(h)>>

Init ==
    \* Mac_main has come to its loop.
    /\ current_mode = "IDLE" /\ ft_post_scan = FALSE
    /\ pt_associated = FALSE /\ pt_scan_in_progress = FALSE
    /\ pt_association_pending = FALSE /\ pt_pending_subscribe = FALSE
    /\ pt_parent_long_rd_id = 0 /\ period_known = FALSE /\ in_table = FALSE
    /\ pt_association_retries = 0 /\ pt_recovery_attempts = 0
    /\ works = {} /\ app_evt_msgq = <<>> /\ app_mutex = "free"
    /\ current_wait = "NONE" /\ wait_status = "ok" /\ op_sem = 0
    /\ todo = [t \in Threads |-> <<>>] /\ waiting = {}
    /\ callback = "idle" /\ asked = <<>>
    /\ active = TRUE /\ scan = "off" /\ subscription = "off" /\ link = "off"
    /\ on_channel \in Carriers /\ carrier = on_channel /\ ch = FALSE
    /\ commands \in Scripts /\ faults = 0

-----------------------------------------------------------------------------
(* Procedures, as lists of steps.                                          *)

\* stop_pt_activity
StopActivity == <<Do("stop_scan"), Do("cancel_works")>>

\* init_mac
InitMac(reconfigure, handler) ==
    StopActivity
    \o <<Try("deactivate", handler), Do("reset_link_state")>>
    \o (IF reconfigure THEN <<Try("configure", handler)>> ELSE <<>>)
    \o <<Try("activate", handler)>>

\* start_pt_scan_mode
ScanMode(handler) == InitMac(TRUE, handler) \o <<Try("start_pt_scan_mode", handler)>>

\* configure_ft
ConfigureFt ==
    (IF ft_post_scan
     THEN StopActivity \o <<Do("reset_link_state")>>
     ELSE InitMac(FALSE, "return"))
    \o <<Do("cluster_configure"), Do("network_beacon"), Do("ft_mode")>>

-----------------------------------------------------------------------------
(* Pieces the steps are made of.                                           *)

Fault(kind) == kind \in Faults /\ faults < MaxFaults /\ faults' = faults + 1

\* Without its radio the modem refuses what needs it.
Taken == active /\ UNCHANGED faults
Refused(kind) == (~active /\ UNCHANGED faults) \/ Fault(kind)

\* app_event_put: an event too many is dropped.
Put(type, status) ==
    app_evt_msgq' = IF Len(app_evt_msgq) < QueueDepth
                    THEN Append(app_evt_msgq, [type |-> type, status |-> status])
                    ELSE app_evt_msgq

\* pt_schedule_fast_recovery, with the works "others" scheduled as well.
ScheduleRecovery(others) ==
    IF pt_recovery_attempts >= 5
    THEN pt_recovery_attempts' = 0 /\ works' = others
    ELSE /\ pt_recovery_attempts' = pt_recovery_attempts + 1
         /\ works' = others \cup {"recovery"}

\* Thread t is free to enter a section that app_mutex protects.
Locks(t) == app_mutex \in {"free", t}

Quiet == app_evt_msgq = <<>> /\ todo["main"] = <<>> /\ link # "releasing"
InTime == Prompt => Quiet

At(t, step) == t \notin waiting /\ todo[t] # <<>> /\ Head(todo[t]).do = step
Goto(t, steps) == todo' = [todo EXCEPT ![t] = steps]
Continue(t) == Goto(t, Tail(todo[t]))
Fail(t) == Goto(t, Handler(Head(todo[t]).orElse))

-----------------------------------------------------------------------------
(* Waiting for the modem.                                                  *)

\* stop_pt_activity does not care how the wait for the scan ends.
WaitOver(t, ok) ==
    IF Head(todo[t]).do = "stop_scan"
    THEN pt_scan_in_progress' = FALSE /\ Continue(t)
    ELSE /\ IF ok THEN Continue(t) ELSE Fail(t)
         /\ UNCHANGED pt_scan_in_progress

\* prepare_wait, the request, and cancel_wait if the modem refuses it.
Request(t) ==
    \E op \in WaitOps :
        /\ At(t, op)
        /\ op = "stop_scan" => pt_scan_in_progress
        /\ op_sem' = 0 /\ wait_status' = "EINPROGRESS"
        /\ \/ /\ current_wait' = WaitReason[op]
              /\ waiting' = waiting \cup {t}
              /\ asked' = Append(asked, op)
              /\ UNCHANGED <<todo, pt_scan_in_progress, faults>>
           \/ /\ Fault("refuse_wait")
              /\ current_wait' = "NONE"
              /\ WaitOver(t, FALSE)
              /\ UNCHANGED <<waiting, asked>>
    /\ UNCHANGED <<linkVars, pt_pending_subscribe, modeVars, recoveryVars, app_evt_msgq,
                   app_mutex, callback, radioVars, commands>>

NothingToStop(t) ==
    /\ At(t, "stop_scan") /\ ~pt_scan_in_progress
    /\ Continue(t)
    /\ UNCHANGED <<linkVars, scanVars, modeVars, recoveryVars, app_evt_msgq, app_mutex,
                   waitVars, waiting, modemVars, bounds>>

Waits(t) == t \in waiting /\ waiting' = waiting \ {t}
Reason(t) == WaitReason[Head(todo[t]).do]
NoMoreOf(t) == \A i \in 1..Len(asked) : WaitReason[asked[i]] # Reason(t)

\* wait_for_prepared_operation finds that another thread has prepared since;
\* or it gets the token; or the time is over.  A thread that was in
\* k_sem_take already when another prepared stays there.
WaitTaken(t) ==
    /\ Waits(t) /\ current_wait # Reason(t)
    /\ WaitOver(t, FALSE)
    /\ UNCHANGED <<waitVars, faults>>

WaitToken(t) ==
    /\ Waits(t) /\ op_sem = 1
    /\ op_sem' = 0 /\ current_wait' = "NONE"
    /\ WaitOver(t, wait_status = "ok")
    /\ UNCHANGED <<wait_status, faults>>

\* The modem is in time unless it has nothing to answer, or cannot.
WaitTimeout(t) ==
    /\ Waits(t) /\ op_sem = 0
    /\ current_wait' = "NONE"
    /\ WaitOver(t, FALSE)
    /\ IF NoMoreOf(t) \/ callback = "rx_failure" THEN UNCHANGED faults ELSE Fault("late")
    /\ UNCHANGED <<op_sem, wait_status>>

Wait(t) ==
    /\ WaitTaken(t) \/ WaitToken(t) \/ WaitTimeout(t)
    /\ UNCHANGED <<linkVars, pt_pending_subscribe, modeVars, recoveryVars, app_evt_msgq,
                   app_mutex, modemVars, commands>>

-----------------------------------------------------------------------------
(* The other steps.                                                        *)

cancel_works(t) ==
    /\ At(t, "cancel_works") /\ Continue(t)
    /\ works' = works \ {"subscribe_timeout", "recovery"}
    /\ UNCHANGED <<linkVars, scanVars, modeVars, pt_recovery_attempts, app_evt_msgq,
                   app_mutex, waitVars, waiting, modemVars, bounds>>

reset_link_state(t) ==
    /\ At(t, "reset_link_state") /\ Continue(t)
    /\ pt_associated' = FALSE /\ pt_association_pending' = FALSE
    /\ pt_scan_in_progress' = FALSE /\ pt_pending_subscribe' = FALSE
    /\ pt_parent_long_rd_id' = 0 /\ period_known' = FALSE
    /\ pt_association_retries' = 0 /\ pt_recovery_attempts' = 0
    /\ on_channel' = carrier
    /\ UNCHANGED <<current_mode, ft_post_scan, in_table, carrier, ch, works, app_evt_msgq, app_mutex,
                   waitVars, waiting, modemVars, bounds>>

\* cmd_pt that has found an entry in the beacon table: may it use it at once?
ModemSynced == current_mode = "PT" /\ ~pt_scan_in_progress /\ ~pt_associated

PtSynced(t) ==
    /\ At(t, "modem_synced") /\ Locks(t)
    /\ IF ModemSynced THEN Fail(t) ELSE Continue(t)
    /\ UNCHANGED <<linkVars, scanVars, modeVars, recoveryVars, app_evt_msgq, app_mutex,
                   waitVars, waiting, modemVars, bounds>>

\* cmd_pt sets the state: with that entry, or after init_mac without or with one.
PtState(t) ==
    /\ At(t, "pt_known") \/ At(t, "pt_fast") \/ At(t, "pt_cold")
    /\ Continue(t) /\ Locks(t)
    /\ current_mode' = "PT" /\ period_known' = TRUE /\ on_channel' = TRUE
    /\ pt_parent_long_rd_id' = IF At(t, "pt_fast") THEN 0 ELSE 1
    /\ pt_association_pending' = FALSE /\ pt_association_retries' = 0
    /\ IF At(t, "pt_known") THEN UNCHANGED scanVars
       ELSE pt_pending_subscribe' = TRUE /\ pt_scan_in_progress' = TRUE
    /\ UNCHANGED <<pt_associated, ft_post_scan, in_table, carrier, ch, recoveryVars, app_evt_msgq,
                   app_mutex, waitVars, waiting, modemVars, bounds>>

\* A scan of the FT's channel, or of another one.
ScanOf(fts) == Taken /\ scan' = (IF scan # "off" THEN scan ELSE IF fts THEN "on" ELSE "elsewhere")
StartScan == ScanOf(TRUE)

PtScan(t) ==
    /\ At(t, "network_scan") /\ Continue(t)
    /\ \/ StartScan /\ UNCHANGED scanVars
       \/ /\ Refused("refuse_scan") /\ Locks(t)
          /\ pt_pending_subscribe' = FALSE /\ pt_scan_in_progress' = FALSE
          /\ UNCHANGED scan
    /\ UNCHANGED <<linkVars, modeVars, recoveryVars, app_evt_msgq, app_mutex, waitVars,
                   waiting, callback, asked, active, subscription, link, commands>>

\* The end of start_pt_scan_mode.
start_pt_scan_mode(t) ==
    /\ At(t, "start_pt_scan_mode")
    /\ current_mode' = "PT" /\ in_table' = FALSE
    /\ \/ StartScan /\ pt_scan_in_progress' = TRUE /\ Continue(t)
       \/ Refused("refuse_scan") /\ Fail(t) /\ UNCHANGED <<pt_scan_in_progress, scan>>
    /\ UNCHANGED <<linkVars, pt_pending_subscribe, ft_post_scan, period_known, channelVars,
                   recoveryVars, app_evt_msgq, app_mutex, waitVars, waiting, callback, asked, active,
                   subscription, link, commands>>

Unlock(t) ==
    /\ At(t, "unlock") /\ Continue(t)
    /\ app_mutex' = "free"
    /\ UNCHANGED <<linkVars, scanVars, modeVars, recoveryVars, app_evt_msgq, waitVars,
                   waiting, modemVars, bounds>>

\* current_carrier may become the channel found best, or the one typed.
ChooseCarrier == carrier' \in Carriers \cup {carrier}

\* The ends of run_rssi_scan and configure_ft.
FtSteps(t) ==
    /\ \/ At(t, "post_scan") /\ ft_post_scan' = TRUE /\ ChooseCarrier /\ UNCHANGED current_mode
       \/ At(t, "ft_mode") /\ current_mode' = "FT" /\ UNCHANGED <<ft_post_scan, carrier>>
    /\ Continue(t)
    /\ UNCHANGED <<linkVars, scanVars, period_known, in_table, on_channel, ch, recoveryVars,
                   app_evt_msgq, app_mutex, waitVars, waiting, modemVars, bounds>>

\* dect_adapter_cluster_beacon_receive_start, of the FT's channel or of another
\* one, where there is nothing to receive.
ReceiveStart(fts) == Taken /\ subscription' = IF fts THEN "asked" ELSE "off"
ReceiveRefused == Refused("refuse_subscribe") /\ UNCHANGED subscription

\* cmd_pt with a modem that knows the FT's timing.
PtSubscribe(t) ==
    /\ At(t, "pt_subscribe") /\ Continue(t)
    /\ ReceiveStart(TRUE) \/ ReceiveRefused
    /\ UNCHANGED <<linkVars, scanVars, modeVars, recoveryVars, app_evt_msgq, app_mutex,
                   waitVars, waiting, callback, asked, active, scan, link, commands>>

\* process_cluster_beacon_event after the scan is stopped.
BeaconSubscribe(t) ==
    /\ At(t, "beacon_subscribe") /\ Continue(t) /\ Locks(t)
    /\ pt_parent_long_rd_id' = 1 /\ period_known' = TRUE
    /\ ReceiveStart(on_channel) \/ ReceiveRefused
    /\ works' = works \cup {"subscribe_timeout"}
    /\ UNCHANGED <<pt_associated, pt_association_pending, pt_association_retries, scanVars,
                   current_mode, ft_post_scan, in_table, channelVars, pt_recovery_attempts, app_evt_msgq,
                   app_mutex, waitVars, waiting, callback, asked, active, scan, link, commands>>

\* pt_resubscribe_work_handler after its first section.
Resubscribe(t) ==
    /\ At(t, "resubscribe") \/ At(t, "cannot_resubscribe")
    /\ Continue(t)
    /\ \/ /\ At(t, "resubscribe") /\ ReceiveStart(ch)
          /\ works' = works \cup {"subscribe_timeout"}
          /\ UNCHANGED <<pt_parent_long_rd_id, pt_recovery_attempts>>
       \/ /\ \/ At(t, "resubscribe") /\ ReceiveRefused
             \/ At(t, "cannot_resubscribe") /\ UNCHANGED <<subscription, faults>>
          /\ Locks(t)
          /\ pt_parent_long_rd_id' = 0
          /\ ScheduleRecovery(works)
    /\ UNCHANGED <<pt_associated, pt_association_pending, pt_association_retries, scanVars,
                   modeVars, app_evt_msgq, app_mutex, waitVars, waiting, callback, asked,
                   active, scan, link, commands>>

\* pt_subscribe_timeout_handler after its first section.
NoBeacon(t) ==
    /\ At(t, "no_beacon") /\ Continue(t) /\ Locks(t)
    /\ subscription' = "off"
    /\ ScheduleRecovery(works)
    /\ UNCHANGED <<linkVars, scanVars, modeVars, app_evt_msgq, app_mutex, waitVars, waiting,
                   callback, asked, active, scan, link, bounds>>

\* pt_recovery_work_handler after init_mac, well or not.
RecoveryState(t) ==
    /\ At(t, "recovery_state") /\ Continue(t) /\ Locks(t)
    /\ current_mode' = "PT" /\ on_channel' = ch
    /\ pt_association_pending' = FALSE /\ pt_association_retries' = 0
    /\ pt_pending_subscribe' = TRUE /\ pt_scan_in_progress' = TRUE
    /\ UNCHANGED <<pt_associated, pt_parent_long_rd_id, ft_post_scan, period_known, in_table,
                   carrier, ch, recoveryVars, app_evt_msgq, app_mutex, waitVars, waiting, modemVars, bounds>>

RecoveryScan(t) ==
    /\ At(t, "recovery_scan") /\ Continue(t)
    /\ \/ ScanOf(ch) /\ UNCHANGED <<scanVars, recoveryVars>>
       \/ /\ Refused("refuse_scan") /\ Locks(t)
          /\ pt_pending_subscribe' = FALSE /\ pt_scan_in_progress' = FALSE
          /\ ScheduleRecovery(works)
          /\ UNCHANGED scan
    /\ UNCHANGED <<linkVars, modeVars, app_evt_msgq, app_mutex, waitVars, waiting, callback,
                   asked, active, subscription, link, commands>>

RecoverLater(t) ==
    /\ At(t, "recover_later") /\ Continue(t) /\ Locks(t)
    /\ ScheduleRecovery(works)
    /\ UNCHANGED <<linkVars, scanVars, modeVars, app_evt_msgq, app_mutex, waitVars, waiting,
                   modemVars, bounds>>

StepOf(t) ==
    \/ Request(t) \/ NothingToStop(t) \/ Wait(t)
    \/ cancel_works(t) \/ reset_link_state(t)
    \/ PtSynced(t) \/ PtState(t) \/ PtScan(t) \/ start_pt_scan_mode(t) \/ Unlock(t) \/ FtSteps(t)
    \/ PtSubscribe(t) \/ BeaconSubscribe(t) \/ Resubscribe(t) \/ NoBeacon(t)
    \/ RecoveryState(t) \/ RecoveryScan(t) \/ RecoverLater(t)

-----------------------------------------------------------------------------
(* The shell.                                                              *)

Command(c) ==
    /\ commands # <<>> /\ Head(commands) = c
    /\ commands' = Tail(commands)
    /\ todo["shell"] = <<>>
    /\ UNCHANGED <<waitVars, waiting, app_evt_msgq, callback, asked, active, scan, subscription>>

\* dect_adapter_association_release, whose result nobody looks at.
Released == IF link = "on" THEN "releasing" ELSE link
\* Mutant: it is not called.
NotReleased == UNCHANGED <<link, faults>>
Release ==
    \/ link' = Released /\ UNCHANGED faults
    \/ Fault("refuse_release") /\ UNCHANGED link

cmd_stop ==
    /\ Command("STOP") /\ Locks("shell")
    /\ IF pt_associated /\ pt_parent_long_rd_id # 0 THEN Release ELSE UNCHANGED <<link, faults>>
    /\ current_mode' = "IDLE"
    /\ Goto("shell", InitMac(FALSE, "return"))
    /\ UNCHANGED <<linkVars, scanVars, ft_post_scan, period_known, in_table, channelVars,
                   recoveryVars, app_mutex>>

cmd_ft ==
    /\ Command("FT")
    /\ Goto("shell", ConfigureFt)
    /\ ft_post_scan' = FALSE /\ ChooseCarrier
    /\ UNCHANGED <<linkVars, scanVars, current_mode, period_known, in_table, on_channel, ch,
                   recoveryVars, app_mutex, link, faults>>

cmd_scan ==
    /\ Command("SCAN")
    /\ Goto("shell", <<Do("rssi_scan"), Do("post_scan")>>)
    /\ UNCHANGED <<linkVars, scanVars, modeVars, recoveryVars, app_mutex, link, faults>>

\* The one command that holds the mutex while it waits.
cmd_pt_scan ==
    /\ Command("PT_SCAN") /\ app_mutex = "free"
    /\ app_mutex' = "shell"
    /\ Goto("shell", ScanMode("unlock") \o <<Do("unlock")>>)
    /\ UNCHANGED <<linkVars, scanVars, modeVars, recoveryVars, link, faults>>

\* It looks for the channel in the beacon table; what it finds is its own.
cmd_pt ==
    /\ Command("PT") /\ Locks("shell")
    /\ LET Scan(state) == InitMac(TRUE, "return") \o <<Do(state), Do("network_scan")>>
       IN  Goto("shell", IF in_table THEN <<Try("modem_synced", "pt_known")>> \o Scan("pt_cold")
                         ELSE Scan("pt_fast"))
    /\ UNCHANGED <<linkVars, scanVars, modeVars, recoveryVars, app_mutex, link, faults>>

\* restart_current_mode, after POWERSAVE; PERIOD and ACTIVETIME do the same to
\* an FT.
restart_current_mode ==
    /\ Command("RESTART")
    /\ \/ /\ current_mode = "FT"
          /\ Goto("shell", ConfigureFt) /\ ft_post_scan' = FALSE
       \/ /\ current_mode = "PT"
          /\ Goto("shell", ScanMode("return")) /\ UNCHANGED ft_post_scan
    /\ UNCHANGED <<linkVars, scanVars, current_mode, period_known, in_table, channelVars,
                   recoveryVars, app_mutex, link, faults>>

\* The third SEND in a row that fails.
cmd_send ==
    /\ Command("SEND") /\ Locks("shell")
    /\ current_mode # "FT" /\ pt_associated
    /\ pt_associated' = FALSE
    /\ ScheduleRecovery(works)
    /\ UNCHANGED <<pt_association_pending, pt_parent_long_rd_id, pt_association_retries,
                   scanVars, modeVars, app_mutex, link, todo, faults>>

Shell == cmd_stop \/ cmd_ft \/ cmd_scan \/ cmd_pt_scan \/ cmd_pt \/ restart_current_mode
         \/ cmd_send

-----------------------------------------------------------------------------
(* The works.  Each first looks, in a section of its own, whether there is *)
(* still something to do.                                                  *)

Runs(w) ==
    /\ w \in works /\ todo["work"] = <<>> /\ Locks("work")
    /\ ch' = IF w \in {"resubscribe", "recovery"} THEN on_channel ELSE ch
    /\ UNCHANGED <<pt_associated, pt_parent_long_rd_id, pt_association_retries, scanVars,
                   current_mode, ft_post_scan, period_known, in_table, on_channel, carrier,
                   pt_recovery_attempts, app_evt_msgq, app_mutex, waitVars, waiting,
                   callback, asked, active, scan, subscription, commands>>

pt_associate_work ==
    /\ Runs("associate") /\ works' = works \ {"associate"}
    /\ IF current_mode # "PT" \/ pt_associated \/ pt_association_pending
             \/ pt_parent_long_rd_id = 0
       THEN UNCHANGED <<pt_association_pending, link, faults>>
       ELSE \/ Taken /\ link' = "asked" /\ pt_association_pending' = TRUE
            \/ Refused("refuse_associate") /\ UNCHANGED <<pt_association_pending, link>>
    /\ UNCHANGED todo

pt_resubscribe_work ==
    /\ InTime /\ Runs("resubscribe") /\ works' = works \ {"resubscribe"}
    /\ IF current_mode # "PT" \/ pt_associated
       THEN UNCHANGED todo
       ELSE Goto("work", IF period_known /\ pt_parent_long_rd_id # 0
                         THEN <<Do("resubscribe")>> ELSE <<Do("cannot_resubscribe")>>)
    /\ UNCHANGED <<pt_association_pending, link, faults>>

\* The FT's beacon comes within two of its periods, unless it is late.
BeaconDue ==
    \/ subscription = "asked"
    \/ \E i \in 1..Len(app_evt_msgq) : app_evt_msgq[i].type = "OP_CLUSTER_BEACON_RECEIVE"

pt_subscribe_timeout ==
    /\ InTime /\ Runs("subscribe_timeout") /\ works' = works \ {"subscribe_timeout"}
    /\ IF BeaconDue THEN Fault("late") ELSE UNCHANGED faults
    /\ IF current_mode = "PT" /\ ~pt_associated /\ ~pt_association_pending
       THEN Goto("work", <<Do("no_beacon")>>)
       ELSE UNCHANGED todo
    /\ UNCHANGED <<pt_association_pending, link>>

pt_recovery_work ==
    /\ InTime /\ Runs("recovery") /\ works' = works \ {"recovery"}
    /\ IF current_mode # "PT" \/ pt_associated
       THEN UNCHANGED todo
       ELSE Goto("work", StopActivity \o InitMac(TRUE, "recover_later")
                         \o <<Do("recovery_state"), Do("recovery_scan")>>)
    /\ UNCHANGED <<pt_association_pending, link, faults>>

-----------------------------------------------------------------------------
(* The event loop.                                                         *)

Receives(type) ==
    /\ todo["main"] = <<>>
    /\ app_evt_msgq # <<>> /\ Head(app_evt_msgq).type = type
    /\ app_evt_msgq' = Tail(app_evt_msgq)
    /\ UNCHANGED <<current_mode, ft_post_scan, period_known, channelVars, app_mutex, waitVars,
                   waiting, modemVars, bounds>>
Received == Head(app_evt_msgq).status

process_cluster_beacon_event ==
    /\ Receives("CLUSTER_BEACON")
    /\ current_mode = "PT" => Locks("main")
    /\ IF current_mode = "PT" /\ pt_pending_subscribe /\ on_channel
       THEN /\ pt_pending_subscribe' = FALSE
            /\ Goto("main", StopActivity \o <<Do("beacon_subscribe")>>)
            /\ UNCHANGED in_table
       ELSE /\ in_table' = (in_table \/ current_mode = "PT")
            /\ UNCHANGED <<pt_pending_subscribe, todo>>
    /\ UNCHANGED <<linkVars, pt_scan_in_progress, recoveryVars>>

process_op_network_scan_event ==
    /\ Receives("OP_NETWORK_SCAN") /\ Locks("main")
    /\ pt_scan_in_progress' = FALSE /\ pt_pending_subscribe' = FALSE
    /\ UNCHANGED <<linkVars, in_table, recoveryVars, todo>>

process_op_network_scan_stop_event ==
    /\ Receives("OP_NETWORK_SCAN_STOP") /\ Locks("main")
    /\ pt_scan_in_progress' = FALSE
    /\ UNCHANGED <<linkVars, pt_pending_subscribe, in_table, recoveryVars, todo>>

process_op_cluster_beacon_receive_event ==
    /\ Receives("OP_CLUSTER_BEACON_RECEIVE") /\ Locks("main")
    /\ works' = (works \ {"subscribe_timeout"})
          \cup (IF /\ Received = "ok" /\ current_mode = "PT"
                  /\ ~pt_associated /\ ~pt_association_pending
               THEN {"associate"} ELSE {})
    /\ UNCHANGED <<linkVars, scanVars, in_table, pt_recovery_attempts, todo>>

\* Mutant: one association too many.
TriesTooLong == pt_association_retries < MaxRetries
TriesAgain == pt_association_retries + 1 < MaxRetries

process_ntf_association_event ==
    /\ Receives("NTF_ASSOCIATION") /\ Locks("main")
    /\ pt_association_pending' = FALSE
    /\ \/ /\ Received = "ok"
          /\ pt_associated' = TRUE /\ pt_parent_long_rd_id' = 1
          /\ pt_association_retries' = 0 /\ pt_recovery_attempts' = 0
          /\ UNCHANGED works
       \/ /\ Received = "no_response" /\ TriesAgain
          /\ pt_association_retries' = pt_association_retries + 1
          /\ works' = works \cup {"associate"}
          /\ UNCHANGED <<pt_associated, pt_parent_long_rd_id, pt_recovery_attempts>>
       \/ /\ \/ Received = "no_response" /\ ~TriesAgain
             \/ Received = "error"
          /\ pt_association_retries' = 0
          /\ ScheduleRecovery(works)
          /\ UNCHANGED <<pt_associated, pt_parent_long_rd_id>>
    /\ UNCHANGED <<scanVars, in_table, todo>>

process_association_release_event ==
    /\ Receives("ASSOCIATION_RELEASE") /\ Locks("main")
    /\ IF pt_parent_long_rd_id # 1
       THEN UNCHANGED <<linkVars, recoveryVars>>
       ELSE /\ pt_associated' = FALSE /\ pt_association_pending' = FALSE
            /\ IF "resubscribe" \in works
               THEN UNCHANGED <<pt_parent_long_rd_id, recoveryVars>>
               ELSE pt_parent_long_rd_id' = 0 /\ ScheduleRecovery(works)
            /\ UNCHANGED pt_association_retries
    /\ UNCHANGED <<scanVars, in_table, todo>>

EventLoop ==
    \/ process_cluster_beacon_event \/ process_op_network_scan_event
    \/ process_op_network_scan_stop_event \/ process_op_cluster_beacon_receive_event
    \/ process_ntf_association_event \/ process_association_release_event

-----------------------------------------------------------------------------
(* The modem and its callbacks.                                            *)

ModemIdle ==
    /\ callback = "idle"
    /\ UNCHANGED <<scanVars, modeVars, pt_parent_long_rd_id, pt_association_retries,
                   pt_recovery_attempts, app_mutex, threadVars, commands>>
NoThread == UNCHANGED <<pt_associated, pt_association_pending, works, waitVars, callback, asked, active>>

\* complete_wait
Complete(reason, status) ==
    IF current_wait = reason
    THEN wait_status' = status /\ op_sem' = 1 /\ UNCHANGED current_wait
    ELSE UNCHANGED waitVars

\* The oldest operation asked for is done.
Answer ==
    /\ asked # <<>> /\ ModemIdle
    /\ LET op == Head(asked)
       IN  /\ asked' = Tail(asked)
           /\ \/ Complete(WaitReason[op], "ok") /\ UNCHANGED faults
              \/ Complete(WaitReason[op], "error") /\ Fault("status")
           /\ active' = IF op = "deactivate" THEN FALSE
                        ELSE IF op = "activate" THEN TRUE ELSE active
           /\ scan' = IF op \in {"deactivate", "stop_scan"} THEN "off" ELSE scan
           /\ subscription' = IF op = "deactivate" THEN "off" ELSE subscription
           /\ link' = IF op = "deactivate" THEN "off" ELSE link
           /\ IF op = "stop_scan" THEN Put("OP_NETWORK_SCAN_STOP", "ok")
              ELSE UNCHANGED app_evt_msgq
    /\ UNCHANGED <<pt_associated, pt_association_pending, works, callback>>

\* A beacon is heard; the next comes when this one has been dealt with.
HearsBeacon ==
    /\ scan \in {"on", "heard"} /\ ModemIdle /\ NoThread
    /\ \A i \in 1..Len(app_evt_msgq) : app_evt_msgq[i].type # "CLUSTER_BEACON"
    /\ scan' = "heard"
    /\ Put("CLUSTER_BEACON", "ok")
    /\ UNCHANGED <<subscription, link, faults>>

ScanEnds ==
    /\ ModemIdle /\ NoThread
    /\ \/ scan \in {"heard", "elsewhere"} /\ UNCHANGED faults
       \/ scan = "on" /\ Fault("unheard")
    /\ scan' = "off"
    /\ Put("OP_NETWORK_SCAN", "ok")
    /\ UNCHANGED <<subscription, link>>

Subscribed ==
    /\ subscription = "asked" /\ ModemIdle /\ NoThread
    /\ \/ /\ subscription' = "on" /\ Put("OP_CLUSTER_BEACON_RECEIVE", "ok")
          /\ UNCHANGED faults
       \/ /\ subscription' = "off" /\ Put("OP_CLUSTER_BEACON_RECEIVE", "error")
          /\ Fault("subscribe_error")
    /\ UNCHANGED <<scan, link>>

Associated ==
    /\ link = "asked" /\ ModemIdle /\ NoThread
    /\ \/ link' = "on" /\ Put("NTF_ASSOCIATION", "ok") /\ UNCHANGED faults
       \/ /\ link' = "off"
          /\ \/ Put("NTF_ASSOCIATION", "no_response") /\ Fault("no_response")
             \/ Put("NTF_ASSOCIATION", "error") /\ Fault("rejected")
    /\ UNCHANGED <<scan, subscription>>

\* The modem has released the link, and may or may not notify a release that
\* it was asked for; or the FT releases it.
LinkReleased ==
    /\ ModemIdle /\ NoThread
    /\ \/ /\ link = "releasing" /\ UNCHANGED faults
          /\ Put("ASSOCIATION_RELEASE", "ok") \/ UNCHANGED app_evt_msgq
       \/ /\ link = "on" /\ InTime /\ Fault("release")
          /\ Put("ASSOCIATION_RELEASE", "ok")
    /\ link' = "off"
    /\ UNCHANGED <<scan, subscription>>

\* The FT's beacons are not heard any more: cb_ntf_cluster_beacon_rx_failure,
\* which waits for app_mutex in the modem's thread.
RxFailure ==
    /\ subscription = "on" /\ link = "on" /\ ModemIdle /\ InTime
    /\ Fault("rx_failure")
    /\ subscription' = "off"
    /\ callback' = "rx_failure"
    /\ UNCHANGED <<pt_associated, pt_association_pending, works, app_evt_msgq, waitVars,
                   asked, active, scan, link>>

cb_ntf_cluster_beacon_rx_failure ==
    /\ callback = "rx_failure" /\ app_mutex = "free"
    /\ callback' = "release"
    /\ pt_associated' = FALSE /\ pt_association_pending' = FALSE
    /\ UNCHANGED <<pt_parent_long_rd_id, pt_association_retries, scanVars, modeVars,
                   recoveryVars, app_evt_msgq, app_mutex, waitVars, threadVars, asked,
                   radioVars, bounds>>

\* Its calls after the mutex.
ReleaseAndResubscribe ==
    /\ callback = "release"
    /\ callback' = "idle"
    /\ Release
    /\ works' = works \cup {"resubscribe"}
    /\ UNCHANGED <<linkVars, scanVars, modeVars, pt_recovery_attempts, app_evt_msgq, app_mutex,
                   waitVars, threadVars, asked, active, scan, subscription, commands>>

Modem ==
    \/ Answer \/ HearsBeacon \/ ScanEnds \/ Subscribed \/ Associated \/ LinkReleased
    \/ RxFailure \/ cb_ntf_cluster_beacon_rx_failure \/ ReleaseAndResubscribe

-----------------------------------------------------------------------------
Work == pt_associate_work \/ pt_resubscribe_work \/ pt_subscribe_timeout \/ pt_recovery_work

Next ==
    \/ Shell
    \/ \E t \in Threads : StepOf(t)
    \/ Work
    \/ EventLoop
    \/ Modem

Spec == Init /\ [][Next]_vars

\* The threads run when they can, works come due, and the modem answers and
\* reports; what goes wrong, and what is typed, need not happen.
FairSpec ==
    /\ Spec
    /\ \A t \in Threads : SF_vars(StepOf(t))
    /\ WF_vars(pt_associate_work) /\ SF_vars(pt_resubscribe_work)
    /\ SF_vars(pt_subscribe_timeout) /\ SF_vars(pt_recovery_work)
    /\ WF_vars(EventLoop)
    /\ WF_vars(Answer) /\ WF_vars(HearsBeacon) /\ WF_vars(Subscribed)
    /\ WF_vars(Associated) /\ WF_vars(LinkReleased)
    /\ WF_vars(cb_ntf_cluster_beacon_rx_failure) /\ WF_vars(ReleaseAndResubscribe)

-----------------------------------------------------------------------------
(* Correctness.                                                            *)

\* Every variable has its type.
TypeOK ==
    /\ current_mode \in {"IDLE", "FT", "PT"}
    /\ {ft_post_scan, pt_associated, pt_scan_in_progress, pt_association_pending,
        pt_pending_subscribe, period_known, in_table, active, on_channel, carrier, ch}
            \subseteq BOOLEAN
    /\ pt_parent_long_rd_id \in 0..1
    /\ pt_association_retries \in 0..MaxRetries - 1 /\ pt_recovery_attempts \in 0..5
    /\ works \subseteq Works
    /\ app_evt_msgq \in Seq(Event) /\ Len(app_evt_msgq) <= QueueDepth
    /\ app_mutex \in {"free", "shell"}
    /\ current_wait \in Reasons /\ op_sem \in 0..1
    /\ wait_status \in {"ok", "error", "EINPROGRESS"}
    /\ todo \in [Threads -> Seq(Step)] /\ waiting \subseteq Threads
    /\ callback \in {"idle", "rx_failure", "release"} /\ asked \in Seq(WaitOps)
    /\ scan \in {"off", "on", "heard", "elsewhere"} /\ subscription \in {"off", "asked", "on"}
    /\ link \in {"off", "asked", "on", "releasing"}
    /\ commands \in Seq(CommandNames) /\ faults \in 0..MaxFaults

\* Again and again the shell, the workqueue and the event loop are all at the
\* end of what they have begun: nobody keeps the mutex or waits for good,
\* although they take each other's answers, and although PT_SCAN waits for the
\* modem with the mutex that the modem's own thread may be waiting for.
ThreadsReturn == []<>(\A t \in Threads : todo[t] = <<>>)

\* The PT asks for an association only when it has none, and none is being
\* made or released: cb_ntf_cluster_beacon_rx_failure and the retries of
\* cb_ntf_association both lead back to pt_associate_work_handler.  A release that
\* the modem refuses, which the code does not notice, breaks it.
OneAssociation ==
    [][pt_association_pending' /\ ~pt_association_pending => link = "off"]_vars

\* A link that is lost, or not made, comes back for good once nothing goes wrong
\* any more: no chain of retries, resubscription and recovery ends with nothing
\* scheduled, or goes round for ever.  This is so
\*  - of the faults that the code answers with a retry or a recovery, which are
\*    RecoverableFaults.  After a scan that hears nothing, a failed subscription,
\*    a refused association or wait, or a late answer, nothing may be scheduled
\*    any more (lines 713, 940 and 997 tell the user to type PT), and after a
\*    refused release the modem has a link that the PT knows nothing of;
\*  - until pt_recovery_attempts has come to 5, whereupon the next failure gives
\*    up (line 996);
\*  - unless a PT whose current_carrier is not the FT's channel loses that
\*    channel on the way: it then stays away from it.
RecoverableFaults == {"release", "rx_failure", "no_response", "rejected", "refuse_scan",
                      "refuse_subscribe", "status"}
Linked == pt_associated /\ link = "on"
Astray == ~carrier /\ ~on_channel
LinkRecovers ==
    Prompt /\ Faults \subseteq RecoverableFaults =>
        (Linked ~> ([]Linked \/ []Astray \/ pt_recovery_attempts = 5))

\* A PT that was told the FT's channel recovers on that channel:
\* src/mac_impl/mac_main.c:676, "PT link dropped - scheduling auto-recovery on
\* ch=%u".
RecoversOnChannel == scan # "elsewhere"
=============================================================================
