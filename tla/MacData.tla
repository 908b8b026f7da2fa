------------------------------ MODULE MacData ------------------------------
(***************************************************************************)
(* The data path of the MAC variant, src/mac_impl/mac_main.c: a datagram   *)
(* that the W5500's RX thread takes from the Ethernet goes through         *)
(* ethRxQueue, the event loop and the modem's link to the event loop and   *)
(* the ethTxQueue of another board.  One board is the FT, the others are   *)
(* PTs.  The FT sends to whom it believes to be its child; that belief is  *)
(* made of the modem's notifications, which wait in the same bounded queue *)
(* of events as the data, and of what the shell's commands do meanwhile.   *)
(*                                                                         *)
(* How a PT comes to ask for an association, again and again, is MacLink;  *)
(* here it asks whenever it believes that it has none.                     *)
(***************************************************************************)
EXTENDS Naturals, Sequences, FiniteSets

CONSTANTS
    PTs,            \* the boards that are PTs
    FT, None,       \* the board that is the FT; no board
    Lengths,        \* of the datagrams each board's Ethernet supplies, one
                    \* after another, and so the bound on their number
    AppDataLenMax,  \* APP_DATA_LEN_MAX, 256 in the code
    QueueDepth,     \* entries of app_evt_msgq, 16 in the code
    Typed,          \* the commands that may be typed at the FT
    Faults          \* what may go wrong

Boards == PTs \cup {FT}
Commands == {"FT", "SCAN", "STOP"}
FaultKinds == {"no_memory",     \* the modem has no memory for a datagram
               "failed",        \* an association ends with an error
               "release"}       \* a link is lost

ASSUME MacDataAssumption ==
    /\ FT \notin PTs /\ None \notin Boards
    /\ Lengths \in [Boards -> Seq(Nat \ {0})]
    /\ {AppDataLenMax, QueueDepth} \subseteq Nat \ {0}
    /\ Typed \subseteq Commands /\ Faults \subseteq FaultKinds

VARIABLES
    \* the boards
    ethRxQueue,     \* datagrams, by number
    rx_thread,      \* "waits", or "appended": before its callback
    app_evt_msgq,
    peer,           \* the board each believes itself associated with: the FT's
                    \* ft_child_* and a PT's pt_associated, pt_parent_long_rd_id
    ethTxQueue,     \* all that was ever appended
    \* the FT
    current_mode, ft_post_scan,
    todo,           \* the rest of the shell's command
    \* the modems
    beaconing, link,    \* the PTs the FT's modem is linked with
    air,            \* datagrams each board's modem has accepted for another's
    \* history
    taken,          \* datagrams that came from each board's Ethernet
    missed,         \* of these, those whose event was dropped
    mishap          \* what can put the FT's belief wrong for good: see KnownPeers

queueVars == <<ethRxQueue, rx_thread, taken, missed>>
ftVars == <<current_mode, ft_post_scan, todo>>
modemVars == <<beaconing, link, air>>
vars == <<queueVars, app_evt_msgq, peer, ethTxQueue, ftVars, modemVars, mishap>>

Event == [type : {"TX_AVAILABLE", "DLC_RX", "ASSOCIATION_IND", "NTF_ASSOCIATION",
                  "ASSOCIATION_RELEASE"},
          from : Boards \cup {None}, n : Nat, len : 0..AppDataLenMax]
TxAvailable == [type |-> "TX_AVAILABLE", from |-> None, n |-> 0, len |-> 0]
About(kind, board) == [type |-> kind, from |-> board, n |-> 0, len |-> 0]
Association == {"ASSOCIATION_IND", "NTF_ASSOCIATION", "ASSOCIATION_RELEASE"}

Least(a, b) == IF a < b THEN a ELSE b

Init ==
    /\ ethRxQueue = [b \in Boards |-> <<>>] /\ rx_thread = [b \in Boards |-> "waits"]
    /\ taken = [b \in Boards |-> 0] /\ missed = [b \in Boards |-> 0]
    /\ app_evt_msgq = [b \in Boards |-> <<>>] /\ peer = [b \in Boards |-> None]
    /\ ethTxQueue = [b \in Boards |-> <<>>]
    /\ current_mode = "IDLE" /\ ft_post_scan = FALSE /\ todo = <<>>
    /\ beaconing = FALSE /\ link = {} /\ air = [b \in Boards |-> [c \in Boards |-> <<>>]]
    /\ mishap = FALSE

-----------------------------------------------------------------------------
(* The queue of events.                                                    *)

Full(q) == Len(q) >= QueueDepth

\* app_event_put on the queues q: an event too many is dropped.
Put(q, b, evt) == IF Full(q[b]) THEN q ELSE [q EXCEPT ![b] = Append(@, evt)]

-----------------------------------------------------------------------------
(* From the Ethernet: w5500_rx_thread, whose callback is Mac_TxReady.      *)

RxAppend(b) ==
    /\ rx_thread[b] = "waits" /\ taken[b] < Len(Lengths[b])
    /\ taken' = [taken EXCEPT ![b] = @ + 1]
    /\ ethRxQueue' = [ethRxQueue EXCEPT ![b] = Append(@, taken'[b])]
    /\ rx_thread' = [rx_thread EXCEPT ![b] = "appended"]
    /\ UNCHANGED <<missed, app_evt_msgq, peer, ethTxQueue, ftVars, modemVars, mishap>>

\* Mutant: the event loop is told of the first datagram only.
Mac_TxReadyOnce(b) ==
    /\ rx_thread[b] = "appended"
    /\ rx_thread' = [rx_thread EXCEPT ![b] = "waits"]
    /\ app_evt_msgq' = IF Len(ethRxQueue[b]) = 1
                       THEN Put(app_evt_msgq, b, TxAvailable) ELSE app_evt_msgq
    /\ UNCHANGED <<ethRxQueue, taken, missed, peer, ethTxQueue, ftVars, modemVars, mishap>>
Mac_TxReady(b) ==
    /\ rx_thread[b] = "appended"
    /\ rx_thread' = [rx_thread EXCEPT ![b] = "waits"]
    /\ app_evt_msgq' = Put(app_evt_msgq, b, TxAvailable)
    /\ missed' = IF Full(app_evt_msgq[b])
                 THEN [missed EXCEPT ![b] = @ + 1] ELSE missed
    /\ UNCHANGED <<ethRxQueue, taken, peer, ethTxQueue, ftVars, modemVars, mishap>>

-----------------------------------------------------------------------------
(* The event loop.                                                         *)

Receives(b, types) ==
    /\ app_evt_msgq[b] # <<>> /\ Head(app_evt_msgq[b]).type \in types
    /\ app_evt_msgq' = [app_evt_msgq EXCEPT ![b] = Tail(@)]
    /\ UNCHANGED <<rx_thread, taken, missed, ftVars, beaconing, link, mishap>>
Received(b) == Head(app_evt_msgq[b])

Linked(b, c) == c # None /\ (IF b = FT THEN c \in link ELSE b \in link)

\* dect_send, in the mode the board is in: the modem takes the datagram, or it
\* is lost.
Accepts(b) ==
    /\ b = FT => current_mode = "FT"
    /\ Linked(b, peer[b])

\* Mutant: a datagram nobody can have yet is kept for later.
process_dect_handle_tx_keeping(b) ==
    /\ Receives(b, {"TX_AVAILABLE"})
    /\ IF ethRxQueue[b] = <<>> \/ peer[b] = None
       THEN UNCHANGED <<ethRxQueue, air>>
       ELSE /\ ethRxQueue' = [ethRxQueue EXCEPT ![b] = Tail(@)]
            /\ \/ /\ Accepts(b)
                  /\ air' = [air EXCEPT ![b][peer[b]] = Append(@, Head(ethRxQueue[b]))]
               \/ (~Accepts(b) \/ "no_memory" \in Faults) /\ UNCHANGED air
    /\ UNCHANGED <<peer, ethTxQueue>>
\* The packet is freed however dect_send ends.
process_dect_handle_tx(b) ==
    /\ Receives(b, {"TX_AVAILABLE"})
    /\ IF ethRxQueue[b] = <<>>
       THEN UNCHANGED <<ethRxQueue, air>>
       ELSE /\ ethRxQueue' = [ethRxQueue EXCEPT ![b] = Tail(@)]
            /\ \/ /\ Accepts(b)
                  /\ air' = [air EXCEPT ![b][peer[b]] = Append(@, Head(ethRxQueue[b]))]
               \/ (~Accepts(b) \/ "no_memory" \in Faults) /\ UNCHANGED air
    /\ UNCHANGED <<peer, ethTxQueue>>

\* What ethTxQueue is given for an event.
Packet(evt) == [from |-> evt.from, n |-> evt.n, len |-> evt.len]

\* Mutant: k_queue_prepend.
process_dlc_rx_event_prepending(b) ==
    /\ Receives(b, {"DLC_RX"})
    /\ ethTxQueue' = [ethTxQueue EXCEPT ![b] = <<Packet(Received(b))>> \o @]
    /\ UNCHANGED <<ethRxQueue, peer, air>>
process_dlc_rx_event(b) ==
    /\ Receives(b, {"DLC_RX"})
    /\ ethTxQueue' = [ethTxQueue EXCEPT ![b] = Append(@, Packet(Received(b)))]
    /\ UNCHANGED <<ethRxQueue, peer, air>>

\* process_association_ind_event, whatever its status, and, at a PT,
\* process_ntf_association_event of a success.
process_association(b) ==
    /\ Receives(b, {"ASSOCIATION_IND", "NTF_ASSOCIATION"})
    /\ peer' = [peer EXCEPT ![b] = Received(b).from]
    /\ UNCHANGED <<ethRxQueue, ethTxQueue, air>>

\* process_association_release_event: only of the board it knows.
process_association_release_event(b) ==
    /\ Receives(b, {"ASSOCIATION_RELEASE"})
    /\ peer' = IF Received(b).from = peer[b] THEN [peer EXCEPT ![b] = None] ELSE peer
    /\ UNCHANGED <<ethRxQueue, ethTxQueue, air>>

EventLoop(b) ==
    \/ process_dect_handle_tx(b) \/ process_dlc_rx_event(b) \/ process_association(b)
    \/ process_association_release_event(b)

-----------------------------------------------------------------------------
(* The modems.                                                             *)

\* The links in "gone" end, and the PTs' hosts and, in "told", the FT's hear of
\* it.
Cut(gone, told) ==
    /\ link' = link \ gone
    /\ air' = [b \in Boards |-> [c \in Boards |->
                  IF b \in gone \/ c \in gone THEN <<>> ELSE air[b][c]]]
    /\ app_evt_msgq' = [b \in Boards |->
            IF b \in gone THEN Put(app_evt_msgq, b, About("ASSOCIATION_RELEASE", FT))[b]
            ELSE IF b = FT /\ told # None
                 THEN Put(app_evt_msgq, FT, About("ASSOCIATION_RELEASE", told))[FT]
                 ELSE app_evt_msgq[b]]
    /\ mishap' = (mishap \/ \E b \in gone \cup (IF told = None THEN {} ELSE {FT}) :
                                Full(app_evt_msgq[b]))

\* pt_associate_work_handler asks when the PT believes that it has no link and
\* is waiting for none.  Both hosts hear how it ends: the FT's in
\* cb_ntf_association_ind, the PT's in cb_ntf_association; a PT that has failed
\* asks again.
MayAsk(p) ==
    /\ peer[p] = None /\ p \notin link
    /\ \A i \in 1..Len(app_evt_msgq[p]) : app_evt_msgq[p][i].type \notin Association

Associate(p) ==
    /\ beaconing /\ MayAsk(p)
    /\ link' = link \cup {p}
    /\ app_evt_msgq' = Put(Put(app_evt_msgq, FT, About("ASSOCIATION_IND", p)),
                           p, About("NTF_ASSOCIATION", FT))
    /\ mishap' = (mishap \/ Full(app_evt_msgq[FT]) \/ Full(app_evt_msgq[p]) \/ link # {})
    /\ UNCHANGED <<queueVars, peer, ethTxQueue, ftVars, beaconing, air>>

AssociationFails(p) ==
    /\ "failed" \in Faults
    /\ beaconing /\ MayAsk(p)
    /\ app_evt_msgq' = Put(app_evt_msgq, FT, About("ASSOCIATION_IND", p))
    /\ mishap' = TRUE
    /\ UNCHANGED <<queueVars, peer, ethTxQueue, ftVars, modemVars>>

LinkLost(p) ==
    /\ "release" \in Faults
    /\ p \in link
    /\ Cut({p}, p)
    /\ UNCHANGED <<queueVars, peer, ethTxQueue, ftVars, beaconing>>

\* Mutant: as long as it is.
DlcRxLenWhole(len) == len
\* What an event has room for.
DlcRxLen(len) == Least(len, AppDataLenMax)

\* The oldest datagram from b to c arrives, and cb_ntf_dlc_data_rx makes an
\* event of it.
Arrives(b, c) ==
    /\ air[b][c] # <<>>
    /\ air' = [air EXCEPT ![b][c] = Tail(@)]
    /\ LET n == Head(air[b][c])
       IN  app_evt_msgq' = Put(app_evt_msgq, c,
                [type |-> "DLC_RX", from |-> b, n |-> n, len |-> DlcRxLen(Lengths[b][n])])
    /\ UNCHANGED <<queueVars, peer, ethTxQueue, ftVars, beaconing, link, mishap>>

Modem == \E p \in PTs : Associate(p) \/ AssociationFails(p) \/ LinkLost(p)

-----------------------------------------------------------------------------
(* The shell of the FT.  A command is a section of its own and a list of   *)
(* steps; what the modem refuses or answers too late is in MacLink.        *)

Command(name) == name \in Typed /\ todo = <<>>
At(step) == todo # <<>> /\ Head(todo) = step

InitMac == <<"deactivate", "reset_link_state">>
ConfigureFt == <<"cluster_configure", "ft_mode">>

\* cmd_ft, and PERIOD, ACTIVETIME and POWERSAVE at an FT: configure_ft.
cmd_ft ==
    /\ Command("FT")
    /\ todo' = (IF ft_post_scan THEN <<"reset_link_state">> ELSE InitMac) \o ConfigureFt
    /\ ft_post_scan' = FALSE
    /\ mishap' = (mishap \/ (ft_post_scan /\ beaconing))
    /\ UNCHANGED <<queueVars, app_evt_msgq, peer, ethTxQueue, current_mode, modemVars>>

\* cmd_scan: run_rssi_scan to its end.
cmd_scan ==
    /\ Command("SCAN")
    /\ ft_post_scan' = TRUE
    /\ UNCHANGED <<queueVars, app_evt_msgq, peer, ethTxQueue, current_mode, todo,
                   modemVars, mishap>>

\* cmd_stop: the release it asks for may be notified before the deactivation
\* that follows, or not at all.
cmd_stop ==
    /\ Command("STOP")
    /\ current_mode' = "IDLE"
    /\ \/ Linked(FT, peer[FT]) /\ \E told \in {peer[FT], None} : Cut({peer[FT]}, told)
       \/ ~Linked(FT, peer[FT]) /\ UNCHANGED <<link, air, app_evt_msgq, mishap>>
    /\ todo' = InitMac
    /\ UNCHANGED <<queueVars, peer, ethTxQueue, ft_post_scan, beaconing>>

\* The steps of init_mac and configure_ft; what the radio does when it is
\* activated again has no part here.
Deactivate ==
    /\ At("deactivate") /\ todo' = Tail(todo)
    /\ beaconing' = FALSE
    /\ Cut(link, None)
    /\ UNCHANGED <<queueVars, peer, ethTxQueue, current_mode, ft_post_scan>>

\* In the shell's thread and without app_mutex.
IndicationWaits == \E i \in 1..Len(app_evt_msgq[FT]) :
                        app_evt_msgq[FT][i].type = "ASSOCIATION_IND"
\* Mutant: the child is forgotten.
reset_link_state_keeping ==
    /\ At("reset_link_state") /\ todo' = Tail(todo)
    /\ mishap' = (mishap \/ IndicationWaits)
    /\ UNCHANGED <<queueVars, app_evt_msgq, peer, ethTxQueue, current_mode, ft_post_scan, modemVars>>
reset_link_state ==
    /\ At("reset_link_state") /\ todo' = Tail(todo)
    /\ peer' = [peer EXCEPT ![FT] = None]
    /\ mishap' = (mishap \/ IndicationWaits)
    /\ UNCHANGED <<queueVars, app_evt_msgq, ethTxQueue, current_mode, ft_post_scan, modemVars>>

FtSteps ==
    /\ \/ At("cluster_configure") /\ beaconing' = TRUE /\ UNCHANGED current_mode
       \/ At("ft_mode") /\ current_mode' = "FT" /\ UNCHANGED beaconing
    /\ todo' = Tail(todo)
    /\ UNCHANGED <<queueVars, app_evt_msgq, peer, ethTxQueue, ft_post_scan, link, air, mishap>>

Steps == Deactivate \/ reset_link_state \/ FtSteps
Shell == cmd_ft \/ cmd_scan \/ cmd_stop \/ Steps

-----------------------------------------------------------------------------
Next ==
    \/ \E b \in Boards : RxAppend(b) \/ Mac_TxReady(b) \/ EventLoop(b)
    \/ \E b, c \in Boards : Arrives(b, c)
    \/ Modem
    \/ Shell

Spec == Init /\ [][Next]_vars

\* The threads run and the modems carry what they have accepted; nobody has to
\* type a command or to send a datagram, and no link has to be made or lost.
FairSpec ==
    /\ Spec
    /\ \A b \in Boards : WF_vars(Mac_TxReady(b)) /\ WF_vars(EventLoop(b))
    /\ \A b, c \in Boards : WF_vars(Arrives(b, c))
    /\ WF_vars(Steps)

-----------------------------------------------------------------------------
(* Correctness.                                                            *)

\* Every variable has its type; in particular an event never holds more of a
\* datagram than its buffer, and the queue no more events than its array.
TypeOK ==
    /\ \A b \in Boards : ethRxQueue[b] \in Seq(1..Len(Lengths[b]))
    /\ rx_thread \in [Boards -> {"waits", "appended"}]
    /\ \A b \in Boards : app_evt_msgq[b] \in Seq(Event) /\ Len(app_evt_msgq[b]) <= QueueDepth
    /\ peer \in [Boards -> Boards \cup {None}]
    /\ ethTxQueue \in [Boards -> Seq([from : Boards, n : Nat, len : Nat])]
    /\ current_mode \in {"IDLE", "FT"} /\ {ft_post_scan, beaconing} \subseteq BOOLEAN
    /\ todo \in Seq({"deactivate", "reset_link_state", "cluster_configure", "ft_mode"})
    /\ link \subseteq PTs /\ air \in [Boards -> [Boards -> Seq(Nat)]]
    /\ taken \in [Boards -> Nat] /\ missed \in [Boards -> Nat]
    /\ mishap \in BOOLEAN

\* The RX thread appends a datagram and tells the event loop of it in two
\* steps, and the event loop takes one datagram for an event: so there is never
\* an event without its datagram ("ETH RX queue empty" is never logged, and
\* k_queue_get never keeps the event loop waiting), and ethRxQueue holds
\* exactly one datagram more for every event that was ever dropped.
Events(b, type) ==
    Cardinality({i \in 1..Len(app_evt_msgq[b]) : app_evt_msgq[b][i].type = type})
Backlog == \A b \in Boards :
    Len(ethRxQueue[b]) = Events(b, "TX_AVAILABLE") + missed[b]
                         + (IF rx_thread[b] = "appended" THEN 1 ELSE 0)

\* Whatever links are made and lost and whatever is dropped, each board's
\* Ethernet is given another's datagrams in their order and none of them twice,
\* and it is given all of a datagram of at most APP_DATA_LEN_MAX bytes, and
\* that many bytes of a longer one.
InOrder == \A b \in Boards : \A i, j \in 1..Len(ethTxQueue[b]) :
    LET p == ethTxQueue[b][i]
        q == ethTxQueue[b][j]
    IN  /\ p.len = Least(Lengths[p.from][p.n], AppDataLenMax)
        /\ i < j /\ p.from = q.from => p.n < q.n

\* When no notification is on its way and no command is being carried out, the
\* FT's ft_child_* and a PT's pt_* name the board that the modem is linked with
\* and none if there is no link: unless an event was dropped, an association
\* failed, a second PT associated, a command cleared ft_child_* before an
\* indication from before was handled, or an FT followed a SCAN while the FT
\* was beaconing.
Settled(b) == \A i \in 1..Len(app_evt_msgq[b]) : app_evt_msgq[b][i].type \notin Association
KnownPeers ==
    ~mishap /\ todo = <<>> =>
        /\ Settled(FT) => link = {peer[FT]} \ {None}
        /\ \A p \in PTs : Settled(p) => (peer[p] = FT <=> p \in link)

\* A datagram in ethRxQueue is taken out of it by the event loop in the end,
\* unless the event loop is never told of one, and then the last in the queue
\* waits for ever.
Forwarded == \A b \in Boards : \A n \in 1..Len(Lengths[b]) :
    (\E i \in 1..Len(ethRxQueue[b]) : ethRxQueue[b][i] = n)
        ~> (missed[b] > 0 \/ ~\E i \in 1..Len(ethRxQueue[b]) : ethRxQueue[b][i] = n)
=============================================================================
