# ETH_DECT_Adapter: specifications and proofs

TLA+ specifications of an Ethernet bridge over the DECT NR+ radio of an
nRF9151: two boards with a W5500 Ethernet chip each, one the FT (fixed
termination, the master), one the PT (portable termination). What comes in from
Ethernet at one board goes out to Ethernet at the other. The firmware exists in
two variants that share the Ethernet driver: `src/phy_impl/` drives the radio
slot by slot, `src/mac_impl/` leaves that to a DECT MAC modem.

## 1. Inventory of the program

### Components

| Component | Source | State it keeps | Operations | Modelled by |
|---|---|---|---|---|
| Datagram fragmentation | `phy_impl/phy_main.c` 338-648 | `ethRxQueue`, `ethTxQueue`, `currentTxDatagram` with offset and remainder, `currentRxDatagram` with size and offset | `DectPhy_TransmitHeadOfQueue`, `DectPhy_PackFrame`, `DectPhy_HandleSDUFragment`, `DectPhy_UnpackFrameAndProcessSDUs` | `Fragmentation`, `DatagramPipe` |
| Slot timing | `phy_impl/ft.c`, `phy_impl/pt.c`, `phy_main.h` | schedule times, `beaconDelta`, `modem_ticks_until_next_beacon` | the arithmetic of `mock_time_get`, `mock_pdc`, `mock_complete` | `SlotTiming` |
| FT radio loop | `phy_impl/ft.c` | `slotCounter`, `warmedUp`, `time_sem` | `mock_time_get`, `mock_complete`, `Ft_InfiniteLoop` | `FtLoop`, `FrameSchedule`, `PhyMain` |
| PT radio loop | `phy_impl/pt.c` | `ptState`, `slotCounter`, `warmedUp`, `time_sem`, `resync_sem`, `cancel_sem` | `mock_pdc`, `mock_complete`, `on_time_get_pt`, `on_cancel`, `Pt_InfiniteLoop` | `PtLoop` |
| W5500 driver | `lean_wiznet_driver/` | `ethTxQueue`, `tx_sem`, `int_sem`, `spi_mutex`, the callback; in the chip two ring buffers with their pointers | `LeanWiznet_Init`, `w5500_tx_thread`, `w5500_rx_thread`, `w5500_tx`, `w5500_rx`, `w5500_readbuf`, `w5500_writebuf`, `w5500_gpio_callback` | `WiznetDriver`, `WiznetBuffers` |
| PHY start-up | `phy_impl/phy_main.c` 690-1048 | `operation_sem`, `exit`, the modem's latencies, `mcs_max` | `DectPhy_Main`, `DectPhy_Init`, the `on_*` event handlers | `PhyMain` |
| MAC bridge | `mac_impl/mac_main.c` | the link state, one global wait, the event queue, four delayable works, `app_mutex` | modem callbacks, event handlers, works, shell commands | `MacLink` (the PT's link, the commands), `MacData` (the data path, the FT's side of associations) |
| MAC modem adapter | `mac_impl/dect_adapter.c` | the registered callbacks | translation of operations, events and periods | `MacLink`, `MacData` (operations and events), `BeaconPeriods` |
| Shell and statistics | `phy_impl/phy_main.c`, `mac_impl/mac_main.c` | counters, the MCS in use | text commands | `PhyMain` (`bridge mcs`), `MacLink` and `MacData` (the commands of the MAC variant) |
| Board glue | `main.c`, `button.c` | none | GPIO set-up, choice of the role, start of driver and radio | `WiznetBuffers` (the start) |
| Test scripts | `tester.py` and others | none | traffic from a PC | not modelled |

### How they interact

- The W5500 RX thread hands every frame to a callback that puts it on
  `ethRxQueue`; the TX thread takes datagrams off `ethTxQueue`. Between the two
  queues lies the radio.
- In the PHY variant the modem library calls handlers with the result of every
  scheduled operation. The handlers schedule the next operations at times
  computed from the time of that event; a transmission takes its payload from
  `ethRxQueue` at that moment, a reception is unpacked into `ethTxQueue` at once.
- The FT's main thread only sleeps: its frames go on because the completion of
  one downlink schedules the next. The PT's main thread waits for a
  resynchronisation, cancels what is scheduled and listens for a beacon again.
- The FT's beacons carry the number of slots and the ticks to the next beacon.
- In the MAC variant four threads share the state of the link: the shell, the
  system workqueue with four delayable works, the event loop of `Mac_main`, and
  the modem library with its callbacks. Callbacks put events on `app_evt_msgq`,
  or complete the one global wait of a thread that has asked for an operation;
  the one for a beacon failure takes `app_mutex` itself.
- The data of the MAC variant goes through the same queue of events: the W5500's
  RX thread appends a datagram to `ethRxQueue` and puts an event, the modem's
  thread puts what it has received into an event. An event too many is dropped.
- `main()` calls `LeanWiznet_Init`, ignores what it returns, sets the callback
  and starts the radio. `DectPhy_Main` ignores in turn what `DectPhy_Init` returns.

### What is hard in it

- *Ordering and loss of slots*: a datagram of up to 1600 bytes travels in slots
  of 37 to 117 bytes, several datagrams share a slot, there is no sequence
  number, no acknowledgement and no checksum of a datagram.
- *Time without a clock*: all schedules are relative to events that come with a
  varying delay; the windows of the two devices have to go on containing each
  other's packets.
- *Handlers against a thread* (PT), *handlers behind the modem* (FT), *two
  threads and an edge-triggered interrupt* (W5500).
- *Faults of the modem*: operations refused, failed, timed out or cancelled, in
  the middle of a group of three of which only the last result is looked at.
- *Several threads with one wait* (MAC): `current_wait`, `wait_status` and
  `op_sem` are shared by whoever waits; decisions are made under `app_mutex` and
  carried out without it; events wait in a queue while the state moves on.
- *Recovery* (MAC): three chains of works, each of whose steps may fail.
- *Belief* (MAC): whom a board is associated with is known from notifications
  that wait in a bounded queue while commands clear what they have set.
- *Start-up*: a chain of requests, one semaphore for all their answers, and
  handlers that do not always give it.
- *Limits*: unsigned counters counted down, remainders of frames smaller than a
  header, `k_malloc` returning `NULL`.

`PROJECT.json` lists each of these hazards at its line, with the properties that
watch it or the reason why none does.

### What makes each component correct

- Fragmentation: without losses a reliable FIFO pipe of datagrams; with losses
  bytes keep their place, are not delivered twice, and deliveries keep their
  order.
- Slot timing: both devices count the slots alike, operations leave the modem the
  time it needs between them, packets fall into windows, a PT that has
  synchronised stays so.
- FT loop: beacon, downlinks and windows in one order, for ever.
- PHY start-up: the radio is active and its latencies and its highest MCS are
  known before the first frame, and the first frame comes, or a failure is to blame.
- PT loop: never without a way back to listening until its time to listen is over;
  while the FT is silent it listens for that time undisturbed.
- MAC bridge: a link lost, or not made, comes back as long as the failures on the way
  are of those that the code answers with a retry or a recovery and five recoveries in
  a row are not used up; associations are asked for one at a time; no thread keeps the
  mutex or waits for ever.
- MAC data path: a board's datagrams leave the other one in order and once, an
  event for each of them, and both boards believe in the link there is.
- W5500 driver: no interrupt slept through, the chip's buffer not overrun, the
  bytes the right ones although buffers are rings, both directions progress
  although a thread waits with the mutex held.

## 2. The modules

`DatagramPipe` and `FrameSchedule` are abstract: what a component promises.
`Fragmentation` implements the first (`ImplementsPipe`, by a refinement mapping
that turns sizes into contents), `FtLoop` extends the second and `PhyMain`, which
extends `FtLoop`, implements it (`ScheduleOrder`). `WiznetBuffers` extends
`WiznetDriver` with more state and repeats its actions, so that what holds of the one holds
of the other. A module `MC...` only gives constants their values;
where numbers and model values suffice, the `.cfg` gives them directly.
Modules `..._proofs` hold the theorems. Operators called "Mutant" in a comment
are plausible mistakes in the definition that follows them; each makes a property
of a run fail, which shows that the property depends on the code.

### Fragmentation

One direction of the bridge; both devices run the same code both ways. A byte of
payload is the pair of the datagram it comes from and its position there, so that
every way of misplacing it shows. The loop of `DectPhy_PackFrame` is several
steps (`OpenFrame`, `LoadDatagram`, `PackSdu`, `TransmitFrame`), since the queue
may be filled while it runs; it may also end with a failing transmission
(`TransmitFails`), whose bytes have left the datagram already. The receiver takes
a frame (`ReceiveFrame`) and handles its SDUs one by one (`HandleSDUFragment`, or
`HandleSDUFragmentOOM` when `k_malloc` fails). `OpenFrame` may choose any slot
size: the shell can change the MCS between two slots. A frame that was not
received before the next one is sent is lost; in lossless runs the air is
handed over before the next slot, as in the code, where the reception ends
before the next transmission starts.

### SlotTiming

Event times as the code computes them. One step is a packet of the FT on the air
with both handlers it triggers (they share no state), or the end of the PT's
uplink. `FtDelays` and `PtDelays` are the ticks between the end of a packet and
the time in the event. `Budget(j)` says what those delays must satisfy for the
headroom to be enough when they vary by `j`: the FT's differ by `j` at most, a
PT's is never less than an FT's nor more than half the headroom longer, and a
PT's lies between half the headroom and all of it, with the drift of a whole
frame (`Drift`, `Ops + 1` slots of `j` ticks) to spare at both ends. This is the meaning of the "MAGIC NUMBER" at `pt.c:54`: the offset
announced counts from the end of one beacon to the end of the next, the window
has to open before its start. It also explains the comment at `phy_main.c:630`:
the first beacon announces a guess, so only a PT that heard the second or a
later one is sure to latch (`settled`).

### FtLoop

`FirstFrame` is `mock_time_get`, `Complete` is `mock_complete` with its one
interesting branch `DlComplete`, `Execute` is the modem. What a handler schedules
is `ScheduleSlot` or `ScheduleFrame`, of which the modem takes all or, with the
fault "schedule", any part (`Accepts`). Completion events queue
up: a handler may run when the modem is already past the next window.

### PhyMain

`FtLoop` from power-on. `phase` is where `DectPhy_Main` and `DectPhy_Init` are;
`MainRequest` is the next call to the modem, which is taken or refused,
`MainAnswered` the end of the wait for `operation_sem`, `RequestAnswered` the
event with its handler, without or with an error. `TimeTooEarly` is
`mock_time_get` of a board whose radio was never activated: the first frame counts
as begun and nothing is scheduled. `cmd_bridge_mcs` may be typed at any time.
`failed` and `unchecked` are history: what went wrong, and that an MCS was
accepted without a limit to compare it with.

### PtLoop

`Pdc` is `mock_pdc` (one disjunct for each branch of its `switch`), `Complete` is
`mock_complete`, the `Loop...` actions are the statements of `Pt_InfiniteLoop`
with an effect on shared state, each its own step because handlers run between
them. The modem executes operations in order, except that a cancelled or failed
one may end early and that an immediate reception stands before the scheduled
ones. Every reception that hears nothing ends, the one for a beacon too, whose
duration of `0xffffffff` ticks is about 62 s; `timedOut` is history and says that this
has happened to a PT waiting for a beacon (`TimedOut`, the branch at `pt.c:208`, which only
logs). The time itself is not counted. `slotCounter` is unsigned and counts modulo `CounterRange`, 2^32 in the
code. A handler's calls are `Schedule` or `ScheduleFrom`: it goes on when the
modem refuses one, and looks at the result of the last.

### WiznetDriver

A step is a statement of `w5500_tx_thread` or `w5500_rx_thread` that touches
something the other thread or the chip changes. The chip is external: bits are
set in its register, its line is low while a bit is set, and the falling edge
gives `int_sem`. The model assumes (`Rearms`) that the chip raises RECV again
after the command RECV if frames are left; the code depends on it because it
takes one frame per RECV.

### WiznetBuffers

The same driver with the contents of the chip's buffers. A byte is the frame or
datagram it belongs to and its place in it. `AtEnd` is the computation that
`w5500_readbuf` and `w5500_writebuf` share, with all of its quantities reduced as
in C; the chip itself reads and writes round. Each step of `WiznetDriver` is
conjoined with what it does to the buffers, so the refinement is by construction
of the module; it says nothing about the buffers, only that invariants carry over.
`InitStep` is
`LeanWiznet_Init`, whose steps can fail; then the threads do not exist and the
radio works on nevertheless.

### MacLink

The PT of the MAC variant and everything that touches its link. A thread's work
is a list of steps in `todo`, each a piece of code between two points where it
blocks or releases `app_mutex`; a procedure is an operator that returns its
steps (`InitMac` is `init_mac`, `ConfigureFt` is `configure_ft`, and so on), and
a step says what follows when it fails (`orElse`). `Request` and `Wait` are
`prepare_wait` with the request and `wait_for_prepared_operation`: a wait ends
with the token, with the timeout, or at once if another thread has prepared
since. Handlers of events, works and callbacks are actions with the names of the
code. `cmd_pt` has three sections, the look at the beacon table, `PtSynced` and
`PtState`, and so have the other commands and works. The callback for a beacon failure
waits for `app_mutex` in the modem's thread (`RxFailure`), marks the link as gone
(`cb_ntf_cluster_beacon_rx_failure`), and then releases it and schedules the
resubscription (`ReleaseAndResubscribe`); like `cmd_stop` it does not look at the result of the
release (`Release`). The modem (external) answers requests in order, hears the beacons of one
FT, notifies, and refuses requests while it is deactivated.

Abstracted: there is one FT, so identities and periods are known or not
(`pt_parent_long_rd_id`, `period_known`, `in_table`), and a channel is the FT's
or not: `on_channel` is `pt_parent_channel`, `carrier` is `current_carrier`, `ch`
the copy a work makes of the first. SCAN and FT choose `carrier` among the allowed
(`ChooseCarrier`). Left out: what is in `MacData`, the
events of the queue that change none of the state above, and the sleep of up to 10 ms with
which `pt_schedule_fast_recovery` begins (line 990) while its caller holds `app_mutex`: it
delays the others and changes nothing that they find. A SEND is the third one in a row that fails.
POWERSAVE, PERIOD and ACTIVETIME show as the restart of the mode they cause
(`RESTART`).

`Prompt` is an assumption on time: what the modem reports has been handled
before the next work that was delayed by 100 ms or more runs, and before the link
is lost again. Without it the beacon failure, which acts in the modem's thread,
overtakes an association that waits in the queue, and the PT believes in a link
that it is releasing itself; `PROJECT.json` lists this hazard.

### MacData

Two or more boards, each with the W5500's RX thread, the event loop and its
modem. `Mac_TxReady` is a step of its own, because the RX thread appends first
and tells the event loop afterwards. A datagram is a number; its length matters
where `cb_ntf_dlc_data_rx` cuts it. `air[b][c]` is what the modem of `b` has
accepted for `c`: a link keeps the order of what it carries, two links do not
keep each other's. `peer` is `ft_child_*` at the FT and
`pt_associated` with `pt_parent_long_rd_id` at a PT. The shell's commands at the FT
are lists of steps as in `MacLink`. How a PT gets to ask for an association is in
`MacLink`; here `Associate` happens whenever the PT believes that it has none.
`mishap` is history and names the five ways in which the FT's belief goes wrong
for good: an event dropped, a failed association notified (line 655 does not look
at the status), a second PT (line 656 keeps one), `reset_link_state` while an
indication waits, and an FT that follows a SCAN while the old link is up (line 300
leaves the modem as it is). `KnownPeers` holds without each of them and fails with
any of them allowed.

### BeaconPeriods

The conversions between milliseconds and the modem's enumerations as operators,
with theorems about them; there is no behaviour to check.

## 3. The runs

| Run | Question | Bounds | Result |
|---|---|---|---|
| `FragLossless` | Is the bridge a reliable FIFO pipe while no slot is lost, and is everything delivered? | 3 datagrams of 60, 87 or 115 bytes; slots of 37 and 117 | holds |
| `FragLossy` | What holds with lost frames, failing transmissions and no memory? | 3 datagrams of 60 or 110 bytes; slots of 57 and 117 | holds |
| `FragMixup` | Do the fragments of a delivery add up to its size? | as `FragLossy` | violated |
| `SlotTiming` | Do the constants keep the devices in each other's windows? | slot 3, headroom 60, latency 1, 4 slots a frame, 5 frames, two delays each | holds |
| `PtLoop` | With a modem that does as it is told: has the PT a way back until its time to listen is over, and does it listen for that time when the FT is silent? With failing and refused operations: does it keep its bearings? | 2 slots a frame, `CounterRange` of 8, 7 operations, 5 with faults | holds |
| `PhyMain` | Is the radio ready before the first frame, and does the FT keep the frame schedule, whatever fails? | the code's 120 slots; 3 waiting events; every request may fail | holds |
| `MacLink` | After the failures that the code means to recover from, does the link of a PT come back, asking for one association at a time? | one PT command, on the configured channel or another; 7 faults; 3 associations before a recovery; queue of 5 | holds |
| `MacCommands` | Do threads get stuck on each other when commands come in between? | seven sequences of commands (`AllCommands`); 1 fault in all, of one of eight kinds; queue of 3 | holds |
| `WrongChannel` | Does the PT recover on the channel it was told? | 2 faults | violated |
| `MacData` | Order and lengths of what is forwarded, events and datagrams in step, beliefs and links in step | 2 datagrams of the FT, one of them too long, and one of the PT; queue of 2; every command and fault | holds |
| `WiznetBuffers` | Interrupts, the chip's buffers and their bytes, and progress, with every fault | 3 datagrams, 3 frames; buffers of 8 bytes | holds |
| `WiznetBadFrame` | Is a frame with an impossible length dropped? | 1 datagram, 2 frames | violated |

Why these bounds are enough:

- *Fragmentation*: 60 bytes is the least an Ethernet frame has. 37, 57 and 117
  are entries of `mcsToBytesPerSlot`. The sizes are such that a datagram fits
  a slot whole with room for part of the next, fits exactly (115 with its
  header in 117), takes up to four slots, and leaves a rest too small for
  another fragment (`60 = 2 * 31 - 2`). Three datagrams put one in each place where
  one can be: on the queue, in the air and being reassembled; mixing up needs
  two and its consequences show at the third.
- *SlotTiming*: the numbers keep the proportions that matter, headroom much
  larger than a slot's remainder and a drift over `Ops + 1` slots that uses up
  the budget; with delays one tick wider the run fails. Five frames: one with the
  guess, two until a PT can be settled, and two settled ones.
- *PtLoop*: two slots a frame are the least that has a slot that is not the
  last; eight values of the counter leave room to tell a counter that wrapped from one in
  range. A group has at most three operations, and handlers add a group while the
  last one is not done: 7 operations never stop a fault-free run. The faults that a
  behaviour may meet are chosen at its start (`faults`): none, early errors, or these
  with refused operations.
- *PhyMain*: no reduction of the slots; the modem's highest MCS is that of the
  table, and 0, 4 and 5 are typed, the least, the last and the first not in it.
- *MacLink*: seven faults are a loss and the six failures that use up the five recoveries
  in a row: from six on, `LinkRecovers` would be violated without its disjunct
  `pt_recovery_attempts = 5`, with five it would not. A queue of 5 does not overflow here, as the 16 entries of the code are not meant to; three
  associations are enough to tell a retry from the last one. The faults are those
  from which the code is meant to come back; a refused association request, a
  failed subscription and a scan that hears nothing end its attempts ("run PT
  \<channel\> to restart"), so they are only in `MacCommands`. So are an answer
  that misses its timeout and a refused operation that is waited for: after
  those, events of an old scan can stop the next one for good. `LinkRecovers` is
  violated with each of these five in turn, so its premise (`RecoverableFaults`)
  excludes them. A refused release is only in `MacCommands` as well: with it
  `OneAssociation` is violated, since the code takes a link for released that is not.
- *MacCommands*: every command is given, those that depend on a mode after one
  that leads there; each pair has a command given while works and events of the one
  before are going on. The queue of 3 overflows.
- *MacData*: a queue of two entries overflows with one event of each kind;
  associations, losses and commands are not bounded at all, only datagrams are.
  One PT; the module takes more, and with two all invariants hold as well (6
  million states, too long to be repeated each time).
- *WiznetBuffers*: two frames are needed for a signal that is lost between
  reading and clearing; three datagrams for a token that is one datagram late. The
  sizes put a header, a payload and a datagram across the end of the buffer, where
  the pointers overflow as well.

### Fairness

- `Fragmentation!FairSpec`: slots keep coming and the event thread runs. In the
  code, transmissions are scheduled slot after slot for ever (`PhyMain`,
  `PtLoop`). Nothing is assumed of Ethernet, nor of losses.
- `PhyMain!BootFairSpec`: the modem answers requests, executes what it has
  accepted and reports it; the main thread is runnable. The event handlers run in
  the modem library's thread. Nobody need type.
- `PtLoop!FairSpec`: the same, and the modem answers a time request and ends
  what it cancels. Every operation ends in the end, since each is asked for with a
  duration. Whether a packet is heard is not fair: `SettlesInSilence` is
  about an FT that is never heard again.
- `MacLink!FairSpec`: works whose time has come run (their queue has its own
  thread), the event loop takes events, threads go on when they can, and the
  modem answers, reports and hears the beacons of an FT that is there. Strong
  fairness is used for threads that wait with a timeout and for works behind
  `Prompt`: a timer expires however often the other threads run meanwhile.
  Commands and faults are not fair.
- `MacData!FairSpec`: the RX thread goes on after its append, the event loop takes
  events, the modem carries what it accepted, and a command is carried to its end.
  Associations, losses and commands are not fair.
- `WiznetBuffers!RingFairSpec`: each of the two threads runs when it can, the chip
  sends what it was told to, and `main()` goes on to set the callback. Both
  threads have Zephyr priorities and block on semaphores, so neither starves.
  Weak fairness of `TxThread` as a whole includes the 10 ms timeout.

Deadlock is checked wherever the system is not meant to stop. `SlotTiming` stops
at its bound on frames, the driver and `MacData` are idle once their bounded traffic
is through, `PtLoop` contains a PT that has gone deaf, and the MAC variant is
idle once its commands are given and the link is up.

### Findings

- `FragMixup`: after a lost frame the receiver goes on filling the buffer of the
  old datagram with fragments of the next one and delivers the mixture;
  `phy_main.c:405` expects an exact match. What does survive a loss is
  `BytesInPlace`, `NoByteTwice` and `InOrder`.
- `WrongChannel`: a recovery deactivates the modem, forgets the link
  (`reset_link_state`, which sets `pt_parent_channel` to `current_carrier`) and then
  configures the modem again. If a later step fails, the next recovery takes the
  channel from there: a PT that was told another channel than the configured one
  looks for its parent where it is not, and never finds it.
- `WiznetBadFrame`: `w5500_rx` says "dropping" for an impossible length
  (line 273) and leaves the frame where it is; reception is over.

Met while modelling, and recorded as hazards: the reception for a beacon ends after about
62 s without one, `pt.c:208` only logs that as an error, nothing listens any more and nobody
gives `resync_sem`, on which the main thread waits "forever unless an error happens"
(`pt.c:313`), so the PT is deaf for good, as `SettlesInSilence` says; `on_init` and
`on_activate` set `exit` and give no semaphore, so that `DectPhy_Init` never gets to
look at it; an MCS typed before the capabilities are known is not limited, since
`mcs_max` is -1 and the comparison unsigned; a datagram whose event was dropped
waits for the next one; a datagram of more than 256 bytes is cut on the way through
the MAC variant; PERIOD accepts values the modem does not have; the comment at `ft.c:186` says that
the FT's loop restarts after an error, but the restart is commented out
(line 191) and one failed downlink silences the FT; a STOP given while the
event loop stops a scan can leave the modem deactivated, since the two take each
other's answers; a STOP between the check of the recovery work and its
`init_mac` is overridden; the limit of five recoveries applies only if the deactivation
fails five times in a row, because `init_mac` resets the counter right after it; a release
that the modem refuses is not noticed; a PT whose first packet after a refused operation
finds `slotCounter` at 0 wraps it around (`pt.c:115`).

## 4. The proofs

All are checked by TLAPS for every value of the constants that satisfies the
named assumption of the module (`FragmentationAssumption`, `SlotTimingAssumption`,
`FtLoopAssumption`, `PhyMainAssumption`, `PtLoopAssumption`, `WiznetDriverAssumption`,
`WiznetBuffersAssumption`, `MacDataAssumption`, `MacLinkAssumption`),
which the runs check on their instances. What a theorem needs beyond that is in
its statement. For each property there is an inductive invariant, which the text names. Every invariant
and every action property of the runs that hold is proved.

**Fragmentation_proofs.**

- `BaseInvariant`: `TypeOK`, `SenderInv`, `WireInv` and `ReassemblyInv`, together
  `BaseInv`, are inductive, with losses and failing allocations. They need each
  other: that `room` never wraps around follows from the guard `room >
  PacketHeader` and, for a fragment, from the test before its header is written;
  that an SDU's length is right needs the sender's bookkeeping `txOffset +
  txRemaining = size`; that a reassembly stays inside its buffer needs the SDUs to
  be truthful.
- `BytesKeepPlace`, `DeliveriesInOrder`, `DeliveredOnce`: what survives losses.
  Positions are ordered by datagram and then by place. `WireOrder` says that SDUs
  on their way increase in this order from the receiver to the sender,
  `ArrivedInOrder` that what has arrived lies before all of them, and that
  deliveries increase. `LossyInv` has both and `BytesInPlace`. A lost frame only
  leaves a gap in an increasing sequence, so losses disturb none of it.

Its second part, under `Lossless` (`~Lossy /\ ~AllocFails`):

- `LosslessStream`: the strengthening is `StreamInv`, which says where every byte
  is: from the first one the receiver misses, through inbox, air and the frame
  being packed, to the first one the sender has not packed, the SDUs link up
  without a gap or an overlap. With `PrefixInv` and `IntactDelivery` it is
  inductive relative to the base invariant.
- `LosslessDelivery`: hence every delivery is the datagram handed in at that
  place.
- `LosslessPipe`: hence every step is a step of `DatagramPipe` or a stutter.

**SlotTiming_proofs.** `SlotTypes` and `SlotsCounted` hold for any delays at all: both
sides count by the same packets. `FtLeavesGaps` neither needs a bound on
the delays: the FT's next times grow with the delay they are computed from. The three
others, `OperationsSpaced`, `WindowsAligned` and `SyncKept`, hold under `Budget(j)`
for any `j`, any length of slot, headroom, latency and number of slots, and
whatever the guess in the first beacon. Their invariant is `SyncInv`: `Course`
bounds the times within a frame from above and below by the number of slots so far,
each with the shortest delay (`Shortest(j)`) or `j` more, hence also what a beacon
announces about the next one; `Meeting` puts the PT's windows around the FT's packets. The
run shows the same for one budget, and fails with delays one tick wider.

**FtLoop_proofs.**

- `FramesInOrder`: if the modem refuses nothing (`NothingRefused`), the FT's radio
  follows `ScheduleOrder` for any number of slots, whatever fails on the air.
  `ScheduleInv` says that the operations of the modem are a run of the schedule
  behind the one executed last, and that the run ends with the window of the slot
  `slotCounter` says; appending what `mock_complete` schedules keeps both.
- `SlotCounterInRange` needs no assumption at all.
- `PowerOnInOrder` extends the first to `PhyMain`: `BootInv` says that before the
  loop nothing is scheduled and nobody waits in its phases, and that afterwards
  either `ScheduleInv` holds or the first frame was begun with an inactive radio and
  nothing was scheduled, which then stays so.
- `StartUpTypes`, `StartedInOrder` (`RadioReady`): `StartInv` says for each phase of
  the chain which request may be unanswered, what state the radio is in, and what
  is known of the modem. That one semaphore serves for every answer is harmless
  because it is given only to a thread that waits, and with it no request is left.
- `HandlesTold`: no two operations of the modem have one handle and a downlink
  among them or the events is of the slot counted, even if operations are
  refused. It needs a frame of several slots (`SeveralSlots`): with only one, the
  window under way and the one just scheduled share their handle. `SlotInv` ranks
  the operations around the current slot.
- `DownlinkKept` (`DownlinkToCome`): if nothing is refused and every downlink is
  sent (`DlSent`), exactly one downlink that makes frames go on is with
  the modem or waits as an event; `DlFromPowerOn` adds to `SlotInv` that once
  the first frame was begun there is one.

**PtLoop_proofs.** `PtTypes` and `CancellationsMatched` are inductive as they are,
the second with the place of the main thread. `CounterNeverWrapsUnrefused`,
for a modem that refuses no operation, needs `CountedInv`: the
counter's range in each state that leads to a downlink. `UplinkToWaitFor` is inductive: the PT
enters the state only with an uplink that the modem took, and its end leaves it.
`PtNeverDeaf` is the deepest: without faults and before a time-out each state has ahead, in the modem's
order, the receptions that the next states will need (`AheadInv`: a downlink with
its uplink, in the last slot also the beacon before them), and nothing is doomed but
by the cancellation that the loop waits for (`DoomedInv`).

**WiznetDriver_proofs.**

- `TypeCorrect`; `InterruptsSeen` (`NoLostInterrupt` is strengthened by where the RX
  thread is: after a clearing write it polls the line again before it sleeps);
  `ChipBounded` (`ChipNotOverrun` is strengthened by counting a SENDOK bit that is
  raised, or read and not yet turned into a token, against the datagrams still in
  the chip). They carry over to `WiznetBuffers` (`BuffersInvariants`) by the lemma
  `BuffersImplementDriver`, which holds by construction of that module.
- `FramesReadIntact`, `DatagramsSentIntact`: the bytes, for buffers and pointers of any
  size. The chip's frames lie behind each other at positions that never go round
  (`FramesAt`, `DatagramsAt`); registers are these modulo `PtrMod`, addresses
  modulo `MemSize`, and since the second divides the first a copy in one or two
  pieces reads and writes what a copy at the positions would
  (`ReadGoesRound`, `WriteGoesRound`). A new frame or datagram fits behind the
  others: the chip's check for the one, `ChipNotOverrun` for the other.
  `FramesReadIntact` assumes `FullShows`, `MemSize < PtrMod`: if they are equal, a
  buffer filled to the last byte looks empty. The code has 16 KB and pointers of 16
  bits. The run has 8 and 8, so that pointers overflow within three frames, with
  lengths that never fill the buffer exactly.

**MacData_proofs.** For any number of PTs, datagrams, entries of the queue, with all
commands and faults:

- `DataTypes` (`TypeInv`), and `EveryDatagramTold` (`Backlog`), inductive with it.
- `DataInOrder`: `OrderInv` follows the datagrams of one board to another from
  `ethRxQueue` over the link and the events to `ethTxQueue`; whatever is
  further is older.
- `PeersKnown`: `BeliefInv` says that the events in a board's queue lead from what
  the board believes to the links there are: the last of them that tells of
  an association agrees with the link, or there is none and the belief does. Between the
  steps of a command that takes the links down the FT may believe anything.

**MacLink_proofs.**

- `LinkTypes` (`TypeInv`): for every script of commands and all faults. Besides the
  types it says that a thread that waits is at the operation it waits for, so that the
  list of what it does next is never empty when an answer takes its head.
- `MutexReturned` (`MutexGivenBack`), for every script and all faults too: `MutexInv`
  says that while the shell holds `app_mutex` its list ends with the step that gives it
  back, and that every step before either cannot fail or leads there when it does, and
  that the other lists never lead there. It is the part of `ThreadsReturn` that needs
  no fairness.
- `OneAssociationAtATime`, under `OnePt`: the script is one PT command, the event loop
  handles what is queued before the next work is due (`Prompt`), and no wait or release is
  refused and no answer comes late; neither the number of the other faults, nor the depth of
  the queue, nor the limit of retries is bounded. `PhaseInv` says that the PT then
  does one thing at a time: it is being set up, scans, stops the scan, subscribes, waits for
  one work, runs one work, has a link or idles, or releases. Each phase fixes which
  thread has something to do, which works are due, what the modem may still report and
  which events may be queued; a scan may leave old events behind (`Leftovers`) that
  no later phase reacts to. Only `pt_associate_work` asks for an association
  (`AsksWhenDue`), and in the phases in which it is due there is no link.
  None of the hypotheses can be dropped: TLC finds `OneAssociation` violated without
  `Prompt`, with the scripts PT PT, PT SEND and PT STOP, and with `"late"`,
  `"refuse_wait"` or `"refuse_release"` among the faults.

**BeaconPeriods.** `SubscribedAsAnnounced` and `NwAgrees` say that the conversions
are each other's inverse where they should be, `ScanCoversTwoBeacons` for exactly
which values the comment of `cmd_period` ("PT scan time should be at least 2 beacon
periods") is true: the periods of the modem and all above a second. For the others,
such as 200, the FT beacons once a second and the PT scans for less than two.

**Only model-checked.** Liveness (`AllDelivered`, `FramesGoOn`, `SettlesInSilence`,
`LinkRecovers`, `ThreadsReturn`, `Forwarded`, `StartedTxProgress`, `FramesTaken`) is
beyond the prover.

## 5. What is not modelled

- What a copy writes behind the end of a buffer (`phy_main.c:413`) and
  `DectPhy_PackFrame` on a `NULL` frame (`phy_main.c:594`): undefined behaviour
  on memory the model does not have.
- The payload and header formats bit by bit, statistics, logging, GPIO signals
  and the shell's text.
- The registers of the W5500, the version query, and SPI transfers that fail
  where the code does not look at the result.
- `k_malloc` failing in `process_dlc_rx_event` (`mac_main.c:692`), which writes
  through `NULL`.
- Of the MAC variant: more than one entry of the beacon table, PERIOD at a PT, the
  dongle and test commands, the network beacon, and everything that only logs. The
  structures the adapter fills in for the modem have no state.
- The switch between FT and PT at boot, and `bridge reboot`.

## 6. Plan

Done, in this order: `Fragmentation` with `DatagramPipe`; `SlotTiming`; `PtLoop`;
`FtLoop` with `FrameSchedule`; `WiznetDriver`; `MacLink`; `MacData`; channels in
`MacLink`; `PhyMain`; `WiznetBuffers`; `BeaconPeriods`; the proofs above.
