------------------------------- MODULE PhyMain -------------------------------
(***************************************************************************)
(* The PHY implementation from power-on: DectPhy_Main and DectPhy_Init of  *)
(* src/phy_impl/phy_main.c start the modem with a chain of requests, each  *)
(* answered by an event whose handler gives operation_sem, and hand over   *)
(* to the FT's handlers of module FtLoop.  The shell command that sets the *)
(* MCS runs beside all of it.                                              *)
(*                                                                         *)
(* A request fails in two ways: the call is refused, or its event carries  *)
(* an error.  The PT starts by the same chain and goes on as in PtLoop.    *)
(***************************************************************************)
EXTENDS FtLoop

CONSTANTS
    StartFaults,    \* the failures of start-up requests that are considered
    ModemMcs,       \* the highest MCS of the modem, as its capabilities say
    Typed           \* the values typed for the MCS

VARIABLES
    phase,          \* main thread: the request that is due or waited for
    waiting,        \* it waits for operation_sem
    operation_sem,  \* its count, 0 or 1
    exit,
    latencyKnown,   \* the latencies are those of the modem, not 0
    mcs_max,        \* -1 until the modem's capabilities are known
    mcs,            \* knobs.mcs
    asked,          \* modem: the requests not yet answered
    radio,          \* modem: its state
    failed,         \* history: the failures there were
    unchecked       \* history: the MCS was set without a limit

bootVars == <<phase, waiting, operation_sem, exit, latencyKnown, mcs_max, mcs,
              asked, radio, failed, unchecked>>
allVars == <<vars, bootVars>>

\* The requests of start-up, in their order, and then the time.
After == [lib |-> "handler", handler |-> "init", init |-> "configure",
          configure |-> "latency", latency |-> "capability",
          capability |-> "activate", activate |-> "time", time |-> "loop"]
Chain == DOMAIN After \cup {"loop"}

Immediate == {"lib", "handler"}             \* no event answers them
Unchecked == {"latency", "capability"}      \* the result of the call is ignored
Failures == {"refused", "error"}
mcsToBytesPerSlot == <<17, 37, 57, 77, 117>>

ASSUME PhyMainAssumption ==
    /\ StartFaults \subseteq Failures
    /\ ModemMcs \in 0..Len(mcsToBytesPerSlot) - 1
    /\ Typed \subseteq Nat

BootInit ==
    /\ slotCounter = 0                          \* until Ft_Init
    /\ warmedUp = FALSE /\ time_sem = 0 /\ looping = FALSE
    /\ ops = <<>> /\ events = <<>> /\ timeAsked = FALSE
    /\ ScheduleInit
    /\ phase = "lib" /\ waiting = FALSE /\ operation_sem = 0 /\ exit = FALSE
    /\ latencyKnown = FALSE /\ mcs_max = -1
    /\ mcs = Len(mcsToBytesPerSlot) - 1         \* CONFIG_APP_MCS
    /\ asked = {} /\ radio = "off" /\ failed = {} /\ unchecked = FALSE

-----------------------------------------------------------------------------
(* The modem (external): which requests it takes, and what becomes of it.  *)

Needs(p) ==
    CASE p = "lib" -> {"off"}
      [] p = "handler" -> {"lib"}
      [] p = "init" -> {"lib"}
      [] p \in {"configure", "latency", "capability", "time"} ->
            {"ready", "configured", "active"}
      [] p = "activate" -> {"configured"}

Becomes(p) ==
    CASE p = "lib" -> "lib"
      [] p = "init" -> "ready"
      [] p = "configure" -> "configured"
      [] p = "activate" -> "active"
      [] OTHER -> radio

Takes(p) == radio \in Needs(p)
MayFail(how) == how \in StartFaults

-----------------------------------------------------------------------------
(* The main thread.                                                        *)

\* Mutant: the answer is not waited for.
RequestTakenAtOnce(p) ==
    /\ asked' = asked \cup {p}
    /\ phase' = After[p] /\ waiting' = FALSE
    /\ UNCHANGED radio

\* The modem takes the request; one that an event answers is waited for.
RequestTaken(p) ==
    IF p \in Immediate
    THEN /\ radio' = Becomes(p) /\ phase' = After[p]
         /\ UNCHANGED <<asked, waiting>>
    ELSE /\ asked' = asked \cup {p} /\ waiting' = TRUE
         /\ UNCHANGED <<radio, phase>>

\* The modem does not.  DectPhy_Init returns with the error, which
\* DectPhy_Main ignores, or waits for an event that will not come.
RequestRefused(p) ==
    /\ failed' = failed \cup {<<p, "refused">>}
    /\ IF p \in Unchecked
       THEN waiting' = TRUE /\ UNCHANGED phase
       ELSE phase' = "time" /\ UNCHANGED waiting

MainRequest ==
    /\ ~waiting /\ phase \notin {"time", "loop"}
    /\ \/ /\ Takes(phase) /\ RequestTaken(phase)
          /\ UNCHANGED failed
       \/ /\ ~Takes(phase) \/ MayFail("refused")
          /\ RequestRefused(phase)
          /\ UNCHANGED <<asked, radio>>
    /\ UNCHANGED <<vars, operation_sem, exit, latencyKnown, mcs_max, mcs, unchecked>>

\* The wait is over.  When exit is set there was no token.
MainAnswered ==
    /\ waiting /\ waiting' = FALSE
    /\ operation_sem = 1 /\ operation_sem' = 0
    /\ phase' = IF exit /\ phase \notin Unchecked THEN "time" ELSE After[phase]
    /\ UNCHANGED <<vars, exit, latencyKnown, mcs_max, mcs, asked, radio, failed, unchecked>>

\* Ft_Init, and the request for the time, whose result is not looked at.
MainAsksTime ==
    /\ phase = "time" /\ phase' = "loop"
    /\ slotCounter' = Ops
    /\ \/ /\ Takes("time") /\ timeAsked' = TRUE
          /\ UNCHANGED failed
       \/ /\ ~Takes("time") \/ MayFail("refused")
          /\ failed' = failed \cup {<<"time", "refused">>}
          /\ UNCHANGED timeAsked
    /\ UNCHANGED <<warmedUp, time_sem, looping, ops, events, onAir, waiting, operation_sem,
                   exit, latencyKnown, mcs_max, mcs, asked, radio, unchecked>>

-----------------------------------------------------------------------------
(* The event handlers of the answers.                                      *)

\* on_init, on_configure, on_activate with an error: two of them set exit,
\* none gives the semaphore.  The other two give it in any case.
AnswerError(p) ==
    /\ MayFail("error") /\ failed' = failed \cup {<<p, "error">>}
    /\ exit' = (exit \/ p \in {"init", "activate"})
    /\ operation_sem' = IF p \in Unchecked THEN 1 ELSE operation_sem
    /\ UNCHANGED <<radio, latencyKnown, mcs_max>>

\* Mutant: the capability event does not give the semaphore.
AnswerGoodSilent(p) ==
    /\ radio' = Becomes(p)
    /\ operation_sem' = IF p = "capability" THEN operation_sem ELSE 1
    /\ latencyKnown' = (latencyKnown \/ p = "latency")
    /\ mcs_max' = IF p = "capability" THEN ModemMcs ELSE mcs_max
    /\ UNCHANGED <<exit, failed>>

AnswerGood(p) ==
    /\ radio' = Becomes(p)
    /\ operation_sem' = 1
    /\ latencyKnown' = (latencyKnown \/ p = "latency")
    /\ mcs_max' = IF p = "capability" THEN ModemMcs ELSE mcs_max
    /\ UNCHANGED <<exit, failed>>

RequestAnswered ==
    /\ \E p \in asked :
          /\ asked' = asked \ {p}
          /\ AnswerGood(p) \/ AnswerError(p)
    /\ UNCHANGED <<vars, phase, waiting, mcs, unchecked>>

\* The time comes while the radio is not active: what is scheduled is
\* refused, but the first frame counts as begun.
TimeTooEarly ==
    /\ radio # "active"
    /\ timeAsked /\ timeAsked' = FALSE
    /\ ~warmedUp /\ warmedUp' = TRUE
    /\ time_sem' = 1
    /\ UNCHANGED <<slotCounter, looping, ops, events, onAir, bootVars>>

-----------------------------------------------------------------------------
(* The shell: bridge mcs <n>.                                              *)

\* Mutant: the limit is the length of the table.
cmd_bridge_mcs_by_table ==
    /\ \E n \in Typed :
          /\ n <= Len(mcsToBytesPerSlot)
          /\ mcs' = n
    /\ unchecked' = (unchecked \/ mcs_max = -1)
    /\ UNCHANGED <<vars, phase, waiting, operation_sem, exit, latencyKnown, mcs_max, asked,
                   radio, failed>>

\* new_mcs is unsigned, so that mcs_max = -1 is no limit.
cmd_bridge_mcs ==
    /\ \E n \in Typed :
          /\ mcs_max = -1 \/ n <= mcs_max
          /\ mcs' = n
    /\ unchecked' = (unchecked \/ mcs_max = -1)
    /\ UNCHANGED <<vars, phase, waiting, operation_sem, exit, latencyKnown, mcs_max, asked,
                   radio, failed>>

-----------------------------------------------------------------------------
\* mock_complete also gives operation_sem, which nobody takes by then.
BootComplete ==
    /\ Complete
    /\ operation_sem' = IF Head(events).err THEN operation_sem ELSE 1
    /\ UNCHANGED <<phase, waiting, exit, latencyKnown, mcs_max, mcs, asked, radio, failed,
                   unchecked>>

BootFirstFrame == radio = "active" /\ FirstFrame /\ UNCHANGED bootVars
BootMainTime == MainTime /\ UNCHANGED bootVars
BootExecute == Execute /\ UNCHANGED bootVars

BootNext ==
    \/ MainRequest \/ MainAnswered \/ MainAsksTime
    \/ RequestAnswered \/ TimeTooEarly
    \/ cmd_bridge_mcs
    \/ BootFirstFrame \/ BootComplete \/ BootMainTime \/ BootExecute

BootSpec == BootInit /\ [][BootNext]_allVars

\* The main thread runs, the modem answers and executes; nobody need type.
BootFairSpec ==
    /\ BootSpec
    /\ WF_allVars(MainRequest) /\ WF_allVars(MainAnswered) /\ WF_allVars(MainAsksTime)
    /\ WF_allVars(RequestAnswered) /\ WF_allVars(TimeTooEarly)
    /\ WF_allVars(BootFirstFrame) /\ WF_allVars(BootComplete)
    /\ WF_allVars(BootMainTime) /\ WF_allVars(BootExecute)

-----------------------------------------------------------------------------
(* Correctness.                                                            *)

\* Every variable has its type; the handlers' own from Ft_Init on.  The MCS,
\* with which every slot indexes mcsToBytesPerSlot, is in the table, unless it
\* was set while the modem's capabilities were not known.
BootTypeOK ==
    /\ IF phase = "loop" THEN TypeOK ELSE slotCounter = 0 /\ ops = <<>> /\ events = <<>>
    /\ phase \in Chain /\ operation_sem \in 0..1
    /\ {waiting, exit, latencyKnown, unchecked} \subseteq BOOLEAN
    /\ mcs_max \in {-1, ModemMcs} /\ mcs \in Nat
    /\ unchecked \/ mcs + 1 \in DOMAIN mcsToBytesPerSlot
    /\ asked \subseteq Chain
    /\ radio \in {"off", "lib", "ready", "configured", "active"}
    /\ failed \subseteq Chain \X Failures

\* The failures that end the start-up: all but an error in the events of
\* latency_get and capability_get.
Fatal == \E f \in failed : f \notin Unchecked \X {"error"}

\* The chain of waits is matched: when the first frame is scheduled the radio
\* is active and the answers to all requests have been handled, with the
\* latencies that all schedules add up and the highest MCS known, unless a
\* failure is to blame.
RadioReady ==
    warmedUp =>
        /\ asked = {}
        /\ Fatal \/ radio = "active"
        /\ latencyKnown \/ failed # {}
        /\ mcs_max # -1 \/ failed # {}

\* From the first frame on there is exactly one downlink to come that makes the
\* frames go on, unless a fatal failure is to blame, and in any case its handle
\* tells its slot.
DownlinkToCome ==
    /\ Fatal \/ OneDownlink
    /\ HandlesTellSlots

\* Started up, the FT sends its frames for ever, unless a fatal failure is to
\* blame: neither the waits nor an error in the latencies or capabilities
\* keeps it from it.
FramesGoOn == (<>Fatal) \/ ([]<>(onAir = Beacon))

=============================================================================
