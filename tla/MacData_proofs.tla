--------------------------- MODULE MacData_proofs ---------------------------
(***************************************************************************)
(* Proofs about MacData, for any number of PTs and datagrams, for queues   *)
(* of any depth and with every fault and command: an event for every       *)
(* datagram, the order and the lengths of what is forwarded, and, without  *)
(* the mishaps, that the boards know whom they are linked with.            *)
(***************************************************************************)
EXTENDS MacData, SequenceTheorems, FunctionTheorems, FiniteSetTheorems,
        WellFoundedInduction, TLAPS

-----------------------------------------------------------------------------
(* Types.                                                                  *)

\* The datagrams of a board, and the events and packets that tell of one.
Numbers(b) == 1..Len(Lengths[b])
CutLen(b, n) == Least(Lengths[b][n], AppDataLenMax)
GoodEvent ==
    {e \in Event :
        /\ e.type = "DLC_RX" =>
              e.from \in Boards /\ e.n \in Numbers(e.from) /\ e.len = CutLen(e.from, e.n)
        /\ e.type \in Association => e.from \in Boards}
GoodPacket ==
    {p \in [from : Boards, n : Nat, len : Nat] :
        p.n \in Numbers(p.from) /\ p.len = CutLen(p.from, p.n)}

DataType ==
    /\ DOMAIN ethRxQueue = Boards /\ \A b \in Boards : ethRxQueue[b] \in Seq(Numbers(b))
    /\ rx_thread \in [Boards -> {"waits", "appended"}]
    /\ app_evt_msgq \in [Boards -> Seq(GoodEvent)]
    /\ \A b \in Boards : Len(app_evt_msgq[b]) <= QueueDepth
    /\ ethTxQueue \in [Boards -> Seq(GoodPacket)]
    /\ air = [x \in Boards |-> air[x]]
    /\ \A b \in Boards : air[b] \in [Boards -> Seq(Numbers(b))]
    /\ taken \in [Boards -> Nat] /\ \A b \in Boards : taken[b] <= Len(Lengths[b])
    /\ missed \in [Boards -> Nat]
CommandSteps == {"deactivate", "reset_link_state", "cluster_configure", "ft_mode"}
ControlType ==
    /\ peer \in [Boards -> Boards \cup {None}]
    /\ current_mode \in {"IDLE", "FT"} /\ {ft_post_scan, beaconing} \subseteq BOOLEAN
    /\ todo \in Seq(CommandSteps)
    /\ link \subseteq PTs /\ mishap \in BOOLEAN
TypeInv == DataType /\ ControlType

-----------------------------------------------------------------------------
(* Order.  A datagram goes from ethRxQueue over the air and through the    *)
(* receiver's events to its ethTxQueue; whatever is further is older.      *)

Tells(e, b) == e.type = "DLC_RX" /\ e.from = b

\* n is older than all of the numbers q, than all that the events q tell of b.
Before(n, q) == \A i \in 1..Len(q) : n < q[i]
BeforeEvents(n, b, q) == \A i \in 1..Len(q) : Tells(q[i], b) => n < q[i].n

\* Of b's datagrams, t have come from the Ethernet, those of q wait and those of
\* a are in the air to a board whose events are e and whose ethTxQueue is p.
QueueOrder(t, q) ==
    /\ \A i \in 1..Len(q) : q[i] <= t
    /\ \A i, j \in 1..Len(q) : i < j => q[i] < q[j]
AirOrder(t, q, a) ==
    /\ \A i \in 1..Len(a) : a[i] <= t /\ Before(a[i], q)
    /\ \A i, j \in 1..Len(a) : i < j => a[i] < a[j]
EventOrder(b, t, q, a, e) ==
    /\ \A i \in 1..Len(e) : Tells(e[i], b) =>
          e[i].n <= t /\ Before(e[i].n, q) /\ Before(e[i].n, a)
    /\ \A i, j \in 1..Len(e) : i < j /\ Tells(e[i], b) /\ Tells(e[j], b) => e[i].n < e[j].n
PacketOrder(b, t, q, a, e, p) ==
    /\ \A i \in 1..Len(p) : p[i].from = b =>
          p[i].n <= t /\ Before(p[i].n, q) /\ Before(p[i].n, a) /\ BeforeEvents(p[i].n, b, e)
    /\ \A i, j \in 1..Len(p) : i < j /\ p[i].from = b /\ p[j].from = b => p[i].n < p[j].n
Ordered(b, t, q, a, e, p) ==
    /\ QueueOrder(t, q) /\ AirOrder(t, q, a)
    /\ EventOrder(b, t, q, a, e) /\ PacketOrder(b, t, q, a, e, p)
OrderInv ==
    \A b, c \in Boards :
        Ordered(b, taken[b], ethRxQueue[b], air[b][c], app_evt_msgq[c], ethTxQueue[c])

-----------------------------------------------------------------------------
(* Beliefs.                                                                *)

IsAssociation(e) == e.type \in Association

\* The i-th event of q is the last that tells of associations.
LastOf(q, i) ==
    /\ i \in 1..Len(q) /\ IsAssociation(q[i])
    /\ \A j \in 1..Len(q) : i < j => ~IsAssociation(q[j])
NoneIn(q) == \A i \in 1..Len(q) : ~IsAssociation(q[i])

\* The events q lead the FT, which believes in x, to the links l, and each
\* release is that of the board the FT will then believe in.
Leads(q, l, x) ==
    /\ NoneIn(q) => l = {x} \ {None}
    /\ \A i \in 1..Len(q) : LastOf(q, i) =>
          l = IF q[i].type = "ASSOCIATION_IND" THEN {q[i].from} ELSE {}
IsIndication(e) == e.type = "ASSOCIATION_IND"
Fits(q, x) ==
    \A i \in 1..Len(q) : q[i].type = "ASSOCIATION_RELEASE" =>
        \/ /\ \A j \in 1..Len(q) : j < i => ~IsIndication(q[j])
           /\ x \in {q[i].from, None}
        \/ \E j \in 1..Len(q) :
              /\ j < i /\ IsIndication(q[j]) /\ q[j].from = q[i].from
              /\ \A k \in 1..Len(q) : j < k /\ k < i => ~IsIndication(q[k])

\* The events q lead the PT p, which believes in x, to whether it is of the links l.
LeadsPT(q, p, l, x) ==
    /\ NoneIn(q) => (x = FT <=> p \in l)
    /\ \A i \in 1..Len(q) : LastOf(q, i) => (q[i].type = "NTF_ASSOCIATION" <=> p \in l)

\* Who is told what.
ToldFT(q) == \A i \in 1..Len(q) :
    IsAssociation(q[i]) => q[i].type # "NTF_ASSOCIATION" /\ q[i].from \in PTs
ToldPT(q) == \A i \in 1..Len(q) :
    IsAssociation(q[i]) => q[i].type # "ASSOCIATION_IND" /\ q[i].from = FT
ToldInv ==
    /\ peer[FT] \in PTs \cup {None} /\ \A p \in PTs : peer[p] \in {FT, None}
    /\ ToldFT(app_evt_msgq[FT]) /\ \A p \in PTs : ToldPT(app_evt_msgq[p])

TodoInv == todo \in {InitMac, InitMac \o ConfigureFt, <<"reset_link_state">>,
                     <<"reset_link_state">> \o ConfigureFt, ConfigureFt, <<"ft_mode">>, <<>>}

\* Between the step of a command that takes the links down and reset_link_state
\* the FT may believe anything.
Unsettled == At("deactivate") \/ At("reset_link_state")
LinkInv ==
    /\ ~beaconing => link = {}
    /\ ~mishap => (At("reset_link_state") => ~beaconing)
BeliefPT == ~mishap => \A p \in PTs : LeadsPT(app_evt_msgq[p], p, link, peer[p])
BeliefFT == ~mishap /\ ~Unsettled =>
    Leads(app_evt_msgq[FT], link, peer[FT]) /\ Fits(app_evt_msgq[FT], peer[FT])
BeliefInv == ToldInv /\ TodoInv /\ LinkInv /\ BeliefPT /\ BeliefFT

-----------------------------------------------------------------------------
(* Sequences.                                                              *)

LEMMA AppendFacts ==
    ASSUME NEW S, NEW q \in Seq(S), NEW e \in S
    PROVE  /\ Append(q, e) \in Seq(S)
           /\ Len(q) \in Nat /\ Len(Append(q, e)) = Len(q) + 1
           /\ \A i \in 1..Len(q) : Append(q, e)[i] = q[i]
           /\ Append(q, e)[Len(q) + 1] = e
OBVIOUS

LEMMA TailFacts ==
    ASSUME NEW S, NEW q \in Seq(S), q # <<>>
    PROVE  /\ Tail(q) \in Seq(S)
           /\ Len(q) \in Nat /\ Len(q) >= 1 /\ Len(Tail(q)) = Len(q) - 1
           /\ \A i \in 1..Len(Tail(q)) : i + 1 \in 2..Len(q) /\ Tail(q)[i] = q[i + 1]
           /\ Head(q) = q[1] /\ Head(q) \in S
OBVIOUS

\* Place by place: s is q with x at its end, s is q without its head x.
Longer(s, q, x) ==
    /\ Len(q) \in Nat
    /\ Len(q) + 1 \in 1..Len(s) /\ s[Len(q) + 1] = x
    /\ \A i \in 1..Len(q) : i \in 1..Len(s) /\ s[i] = q[i] /\ i < Len(q) + 1
    /\ \A i \in 1..Len(s) : (i \in 1..Len(q) /\ s[i] = q[i]) \/ (i = Len(q) + 1 /\ s[i] = x)
    /\ \A i, j \in 1..Len(s) : i < j => i \in 1..Len(q) /\ s[i] = q[i]
Shorter(s, q, x) ==
    /\ 1 \in 1..Len(q) /\ q[1] = x
    /\ \A i \in 1..Len(s) : i + 1 \in 1..Len(q) /\ s[i] = q[i + 1] /\ 1 < i + 1
    /\ \A i, j \in 1..Len(s) : i < j => i + 1 < j + 1

LEMMA AppendIndex ==
    ASSUME NEW S, NEW q \in Seq(S), NEW e \in S
    PROVE  Longer(Append(q, e), q, e)
<1> DEFINE s == Append(q, e)
<1>1. /\ Len(q) \in Nat /\ Len(s) = Len(q) + 1 /\ s[Len(q) + 1] = e
      /\ \A i \in 1..Len(q) : s[i] = q[i]
    BY AppendFacts
<1> HIDE DEF s
<1>2. \A i \in 1..Len(s) : i \in 1..Len(q) \/ i = Len(q) + 1
    BY <1>1
<1>3. \A i, j \in 1..Len(s) : i < j => i \in 1..Len(q)
    BY <1>1
<1>4. \A i \in 1..Len(s) : (i \in 1..Len(q) /\ s[i] = q[i]) \/ (i = Len(q) + 1 /\ s[i] = e)
    <2> SUFFICES ASSUME NEW i \in 1..Len(s)
                 PROVE  (i \in 1..Len(q) /\ s[i] = q[i]) \/ (i = Len(q) + 1 /\ s[i] = e)
        OBVIOUS
    <2>1. CASE i \in 1..Len(q)
        BY <1>1, <2>1
    <2>2. CASE i = Len(q) + 1
        BY <1>1, <2>2
    <2> QED
        BY <1>2, <2>1, <2>2
<1>5. \A i, j \in 1..Len(s) : i < j => i \in 1..Len(q) /\ s[i] = q[i]
    BY <1>1, <1>3
<1>6. /\ Len(q) + 1 \in 1..Len(s)
      /\ \A i \in 1..Len(q) : i \in 1..Len(s) /\ i < Len(q) + 1
    BY <1>1
<1>7. Longer(s, q, e)
    BY <1>1, <1>4, <1>5, <1>6 DEF Longer
<1> QED
    BY <1>7 DEF s

LEMMA TailIndex ==
    ASSUME NEW S, NEW q \in Seq(S), q # <<>>
    PROVE  Shorter(Tail(q), q, Head(q))
BY TailFacts DEF Shorter

LEMMA TailCovers ==
    ASSUME NEW S, NEW q \in Seq(S), q # <<>>, NEW k \in 1..Len(q), k # 1
    PROVE  \E i \in 1..Len(Tail(q)) : k = i + 1 /\ Tail(q)[i] = q[k]
<1>1. k - 1 \in 1..Len(Tail(q)) /\ k = (k - 1) + 1
    BY TailFacts
<1> QED
    BY <1>1, TailFacts

\* How many events of a kind a queue holds.
Holding(q, type) == {i \in 1..Len(q) : q[i].type = type}

LEMMA HoldingFinite ==
    ASSUME NEW S, NEW q \in Seq(S), NEW type
    PROVE  IsFiniteSet(Holding(q, type)) /\ Cardinality(Holding(q, type)) \in Nat
<1>1. IsFiniteSet(1..Len(q))
    BY FS_Interval
<1>2. Holding(q, type) \in SUBSET (1..Len(q))
    BY DEF Holding
<1> QED
    BY <1>1, <1>2, FS_Subset, FS_CardinalityType

LEMMA HoldingAppend ==
    ASSUME NEW S, NEW q \in Seq(S), NEW e \in S, NEW type
    PROVE  Cardinality(Holding(Append(q, e), type))
               = Cardinality(Holding(q, type)) + (IF e.type = type THEN 1 ELSE 0)
<1>1. CASE e.type = type
    <2>1. Holding(Append(q, e), type) = Holding(q, type) \cup {Len(q) + 1}
        BY <1>1, AppendFacts DEF Holding
    <2>2. Len(q) + 1 \notin Holding(q, type)
        BY AppendFacts DEF Holding
    <2> QED
        BY <1>1, <2>1, <2>2, HoldingFinite, FS_AddElement
<1>2. CASE e.type # type
    <2>1. Holding(Append(q, e), type) = Holding(q, type)
        BY <1>2, AppendFacts DEF Holding
    <2> QED
        BY <1>2, <2>1, HoldingFinite
<1> QED
    BY <1>1, <1>2

LEMMA HoldingTail ==
    ASSUME NEW S, NEW q \in Seq(S), q # <<>>, NEW type
    PROVE  Cardinality(Holding(q, type))
               = Cardinality(Holding(Tail(q), type)) + (IF Head(q).type = type THEN 1 ELSE 0)
<1> DEFINE rest == Holding(q, type) \ {1}
           back == [i \in rest |-> i - 1]
<1>1. IsFiniteSet(Holding(q, type))
    BY HoldingFinite
<1>2. back \in Bijection(rest, Holding(Tail(q), type))
    <2>1. \A i \in rest : i \in 2..Len(q) /\ back[i] \in Holding(Tail(q), type)
        BY TailFacts DEF Holding
    <2>2. \A i, j \in rest : back[i] = back[j] => i = j
        BY <2>1
    <2>3. \A k \in Holding(Tail(q), type) : k + 1 \in rest /\ back[k + 1] = k
        BY TailFacts DEF Holding
    <2> QED
        BY <2>1, <2>2, <2>3, Fun_IsBij
<1>3. Cardinality(Holding(Tail(q), type)) = Cardinality(rest)
    BY <1>1, <1>2, FS_RemoveElement, FS_Bijection DEF ExistsBijection
<1>4. 1 \in Holding(q, type) <=> Head(q).type = type
    BY TailFacts DEF Holding
<1> HIDE DEF rest, back
<1>5. Cardinality(rest) = IF 1 \in Holding(q, type) THEN Cardinality(Holding(q, type)) - 1
                          ELSE Cardinality(Holding(q, type))
    BY <1>1, FS_RemoveElement DEF rest
<1> QED
    BY <1>3, <1>4, <1>5, HoldingFinite

-----------------------------------------------------------------------------
(* The queue of events.                                                    *)

LEMMA BoardFacts ==
    /\ FT \in Boards /\ PTs \subseteq Boards /\ FT \notin PTs /\ None \notin Boards
    /\ \A b \in Boards : Lengths[b] \in Seq(Nat \ {0}) /\ Len(Lengths[b]) \in Nat
    /\ AppDataLenMax \in Nat \ {0} /\ QueueDepth \in Nat \ {0}
BY MacDataAssumption DEF MacDataAssumption, Boards

LEMMA LeastFacts ==
    ASSUME NEW a \in Nat, NEW b \in Nat
    PROVE  Least(a, b) \in 0..b /\ Least(a, b) \in Nat
BY DEF Least

LEMMA NoticeFacts ==
    ASSUME NEW kind \in Association, NEW b \in Boards
    PROVE  /\ About(kind, b) \in GoodEvent /\ IsAssociation(About(kind, b))
           /\ About(kind, b).type = kind /\ About(kind, b).from = b
<1>1. About(kind, b) = [type |-> kind, from |-> b, n |-> 0, len |-> 0]
    BY DEF About
<1>2. About(kind, b) \in Event
    BY <1>1, BoardFacts DEF Association, Event
<1>3. kind # "DLC_RX"
    BY DEF Association
<1> QED
    BY <1>1, <1>2, <1>3 DEF GoodEvent, IsAssociation

\* A queue as it was, or with one event more.
Grown(q, r, e) == r = IF Full(q) THEN q ELSE Append(q, e)

LEMMA PutFacts ==
    ASSUME NEW q \in [Boards -> Seq(GoodEvent)], NEW b \in Boards, NEW e \in GoodEvent
    PROVE  /\ Put(q, b, e) \in [Boards -> Seq(GoodEvent)]
           /\ Grown(q[b], Put(q, b, e)[b], e)
           /\ \A c \in Boards \ {b} : Put(q, b, e)[c] = q[c]
BY DEF Put, Grown

LEMMA PutStep ==
    ASSUME app_evt_msgq \in [Boards -> Seq(GoodEvent)], NEW b \in Boards, NEW e \in GoodEvent,
           app_evt_msgq' = Put(app_evt_msgq, b, e)
    PROVE  /\ app_evt_msgq' \in [Boards -> Seq(GoodEvent)]
           /\ Grown(app_evt_msgq[b], app_evt_msgq'[b], e)
           /\ \A c \in Boards \ {b} : app_evt_msgq'[c] = app_evt_msgq[c]
<1>1. /\ Put(app_evt_msgq, b, e) \in [Boards -> Seq(GoodEvent)]
      /\ Grown(app_evt_msgq[b], Put(app_evt_msgq, b, e)[b], e)
      /\ \A c \in Boards \ {b} : Put(app_evt_msgq, b, e)[c] = app_evt_msgq[c]
    BY PutFacts
<1> QED
    BY <1>1

LEMMA GrownFacts ==
    ASSUME NEW q \in Seq(GoodEvent), NEW r, NEW e \in GoodEvent, Grown(q, r, e)
    PROVE  r \in Seq(GoodEvent) /\ (Len(q) <= QueueDepth => Len(r) <= QueueDepth)
<1>1. CASE Full(q)
    BY <1>1 DEF Grown
<1>2. CASE ~Full(q)
    BY <1>2, BoardFacts, AppendFacts DEF Grown, Full
<1> QED
    BY <1>1, <1>2

-----------------------------------------------------------------------------
(* What the modems' links and the shell do to the data: nothing but to cut *)
(* the air and to tell the event loops of it.                              *)

Notified(b) ==
    \/ app_evt_msgq'[b] = app_evt_msgq[b]
    \/ \E e \in GoodEvent :
          /\ IsAssociation(e) /\ ~Full(app_evt_msgq[b])
          /\ app_evt_msgq'[b] = Append(app_evt_msgq[b], e)
Control ==
    /\ UNCHANGED <<queueVars, ethTxQueue>>
    /\ app_evt_msgq' \in [Boards -> Seq(GoodEvent)] /\ \A b \in Boards : Notified(b)
    /\ air' = [x \in Boards |-> air'[x]]
    /\ \A b \in Boards : /\ air'[b] \in [Boards -> Seq(Numbers(b))]
                         /\ \A c \in Boards : air'[b][c] \in {air[b][c], <<>>}

LEMMA GrownNotified ==
    ASSUME NEW b \in Boards, NEW e \in GoodEvent, IsAssociation(e),
           Grown(app_evt_msgq[b], app_evt_msgq'[b], e)
    PROVE  Notified(b)
BY DEF Grown, Notified

LEMMA CutFacts ==
    ASSUME TypeInv, NEW gone \in SUBSET PTs, NEW told \in PTs \cup {None}, Cut(gone, told)
    PROVE  /\ app_evt_msgq' \in [Boards -> Seq(GoodEvent)]
           /\ \A p \in gone : Grown(app_evt_msgq[p], app_evt_msgq'[p],
                                    About("ASSOCIATION_RELEASE", FT))
           /\ told # None => Grown(app_evt_msgq[FT], app_evt_msgq'[FT],
                                   About("ASSOCIATION_RELEASE", told))
           /\ told = None => app_evt_msgq'[FT] = app_evt_msgq[FT]
           /\ \A b \in Boards \ (gone \cup {FT}) : app_evt_msgq'[b] = app_evt_msgq[b]
           /\ air' = [x \in Boards |-> air'[x]]
           /\ \A b \in Boards : /\ air'[b] \in [Boards -> Seq(Numbers(b))]
                                /\ \A c \in Boards : air'[b][c] \in {air[b][c], <<>>}
           /\ link' = link \ gone
           /\ mishap' \in BOOLEAN
           /\ ~mishap' => ~mishap /\ \A p \in gone : ~Full(app_evt_msgq[p])
           /\ ~mishap' /\ told # None => ~Full(app_evt_msgq[FT])
<1> DEFINE Q(b) == IF b \in gone THEN Put(app_evt_msgq, b, About("ASSOCIATION_RELEASE", FT))[b]
                   ELSE IF b = FT /\ told # None
                   THEN Put(app_evt_msgq, FT, About("ASSOCIATION_RELEASE", told))[FT]
                   ELSE app_evt_msgq[b]
<1>0. /\ app_evt_msgq \in [Boards -> Seq(GoodEvent)] /\ mishap \in BOOLEAN
      /\ air = [x \in Boards |-> air[x]] /\ \A b \in Boards : air[b] \in [Boards -> Seq(Numbers(b))]
    BY DEF TypeInv, DataType, ControlType
<1>1. app_evt_msgq' = [b \in Boards |-> Q(b)]
    BY DEF Cut
<1>2. "ASSOCIATION_RELEASE" \in Association
    BY DEF Association
<1>3. ASSUME NEW p \in gone
      PROVE  /\ Q(p) \in Seq(GoodEvent)
             /\ Grown(app_evt_msgq[p], Q(p), About("ASSOCIATION_RELEASE", FT))
    <2>1. p \in Boards /\ About("ASSOCIATION_RELEASE", FT) \in GoodEvent
        BY <1>2, NoticeFacts, BoardFacts
    <2> QED
        BY <1>0, <1>3, <2>1, PutFacts
<1>4. ASSUME told # None
      PROVE  /\ Q(FT) \in Seq(GoodEvent)
             /\ Grown(app_evt_msgq[FT], Q(FT), About("ASSOCIATION_RELEASE", told))
    <2>1. told \in Boards /\ FT \in Boards \ gone
        BY <1>4, BoardFacts
    <2>2. About("ASSOCIATION_RELEASE", told) \in GoodEvent
        BY <1>2, <2>1, NoticeFacts
    <2> DEFINE evt == About("ASSOCIATION_RELEASE", told)
    <2>3. Q(FT) = Put(app_evt_msgq, FT, evt)[FT]
        BY <1>4, <2>1
    <2> HIDE DEF Q, evt
    <2>4. /\ Put(app_evt_msgq, FT, evt) \in [Boards -> Seq(GoodEvent)]
          /\ Grown(app_evt_msgq[FT], Put(app_evt_msgq, FT, evt)[FT], evt)
        BY <1>0, <2>1, <2>2, PutFacts DEF evt
    <2>5. Q(FT) \in Seq(GoodEvent) /\ Grown(app_evt_msgq[FT], Q(FT), evt)
        BY <2>1, <2>3, <2>4
    <2> QED
        BY <2>5 DEF evt
<1>5. /\ \A b \in Boards \ (gone \cup {FT}) : Q(b) = app_evt_msgq[b]
      /\ told = None => Q(FT) = app_evt_msgq[FT]
    BY BoardFacts
<1> HIDE DEF Q
<1>6. \A b \in Boards : Q(b) \in Seq(GoodEvent)
    <2>1. \A b \in Boards : app_evt_msgq[b] \in Seq(GoodEvent)
        BY <1>0
    <2> QED
        BY <2>1, <1>3, <1>4, <1>5
<1>7. /\ air' = [x \in Boards |-> air'[x]]
      /\ \A b \in Boards : /\ air'[b] \in [Boards -> Seq(Numbers(b))]
                           /\ \A c \in Boards : air'[b][c] \in {air[b][c], <<>>}
    BY <1>0 DEF Cut
<1>8. link' = link \ gone /\ mishap' \in BOOLEAN
    BY <1>0 DEF Cut
<1>9. /\ ~mishap' => ~mishap /\ \A p \in gone : ~Full(app_evt_msgq[p])
      /\ ~mishap' /\ told # None => ~Full(app_evt_msgq[FT])
    BY <1>0 DEF Cut
<1> QED
    BY <1>0, <1>1, <1>3, <1>4, <1>5, <1>6, <1>7, <1>8, <1>9, BoardFacts

LEMMA AssociateFacts ==
    ASSUME TypeInv, NEW p \in PTs, Associate(p)
    PROVE  /\ app_evt_msgq' \in [Boards -> Seq(GoodEvent)]
           /\ Grown(app_evt_msgq[FT], app_evt_msgq'[FT], About("ASSOCIATION_IND", p))
           /\ Grown(app_evt_msgq[p], app_evt_msgq'[p], About("NTF_ASSOCIATION", FT))
           /\ \A b \in Boards \ {FT, p} : app_evt_msgq'[b] = app_evt_msgq[b]
           /\ UNCHANGED <<queueVars, peer, ethTxQueue, ftVars, beaconing, air>>
           /\ beaconing /\ link' = link \cup {p} /\ mishap' \in BOOLEAN
           /\ ~mishap' => /\ ~mishap /\ link = {}
                          /\ ~Full(app_evt_msgq[FT]) /\ ~Full(app_evt_msgq[p])
<1> DEFINE ind == About("ASSOCIATION_IND", p)
           ntf == About("NTF_ASSOCIATION", FT)
           q == Put(app_evt_msgq, FT, ind)
<1>1. ind \in GoodEvent /\ ntf \in GoodEvent
    BY NoticeFacts, BoardFacts DEF Association
<1>2. app_evt_msgq' = Put(q, p, ntf)
    BY DEF Associate
<1> HIDE DEF ind, ntf
<1>3. p \in Boards /\ FT \in Boards /\ p # FT /\ app_evt_msgq \in [Boards -> Seq(GoodEvent)]
    BY BoardFacts DEF TypeInv, DataType
<1>4. /\ q \in [Boards -> Seq(GoodEvent)] /\ Grown(app_evt_msgq[FT], q[FT], ind)
      /\ \A b \in Boards \ {FT} : q[b] = app_evt_msgq[b]
    BY <1>1, <1>3, PutFacts
<1> HIDE DEF q
<1>5. /\ Put(q, p, ntf) \in [Boards -> Seq(GoodEvent)]
      /\ Grown(q[p], Put(q, p, ntf)[p], ntf)
      /\ \A b \in Boards \ {p} : Put(q, p, ntf)[b] = q[b]
    BY <1>1, <1>3, <1>4, PutFacts
<1>6. /\ app_evt_msgq' \in [Boards -> Seq(GoodEvent)]
      /\ Grown(app_evt_msgq[FT], app_evt_msgq'[FT], ind)
      /\ Grown(app_evt_msgq[p], app_evt_msgq'[p], ntf)
      /\ \A b \in Boards \ {FT, p} : app_evt_msgq'[b] = app_evt_msgq[b]
    BY <1>2, <1>3, <1>4, <1>5
<1>7. /\ UNCHANGED <<queueVars, peer, ethTxQueue, ftVars, beaconing, air>>
      /\ beaconing /\ link' = link \cup {p}
      /\ mishap' = (mishap \/ Full(app_evt_msgq[FT]) \/ Full(app_evt_msgq[p]) \/ link # {})
    BY DEF Associate
<1>8. /\ mishap' \in BOOLEAN
      /\ ~mishap' => /\ ~mishap /\ link = {}
                     /\ ~Full(app_evt_msgq[FT]) /\ ~Full(app_evt_msgq[p])
    BY <1>7
<1> QED
    BY <1>6, <1>7, <1>8 DEF ind, ntf

LEMMA FailureFacts ==
    ASSUME TypeInv, NEW p \in PTs, AssociationFails(p)
    PROVE  /\ app_evt_msgq' \in [Boards -> Seq(GoodEvent)]
           /\ Grown(app_evt_msgq[FT], app_evt_msgq'[FT], About("ASSOCIATION_IND", p))
           /\ \A b \in Boards \ {FT} : app_evt_msgq'[b] = app_evt_msgq[b]
           /\ UNCHANGED <<queueVars, peer, ethTxQueue, ftVars, beaconing, link, air>>
           /\ mishap' = TRUE
<1> DEFINE ind == About("ASSOCIATION_IND", p)
<1>1. ind \in GoodEvent
    BY NoticeFacts, BoardFacts DEF Association
<1>2. app_evt_msgq' = Put(app_evt_msgq, FT, ind)
    BY DEF AssociationFails
<1> HIDE DEF ind
<1>3. FT \in Boards /\ app_evt_msgq \in [Boards -> Seq(GoodEvent)]
    BY BoardFacts DEF TypeInv, DataType
<1>4. /\ app_evt_msgq' \in [Boards -> Seq(GoodEvent)]
      /\ Grown(app_evt_msgq[FT], app_evt_msgq'[FT], ind)
      /\ \A b \in Boards \ {FT} : app_evt_msgq'[b] = app_evt_msgq[b]
    BY <1>1, <1>2, <1>3, PutStep
<1>5. UNCHANGED <<queueVars, peer, ethTxQueue, ftVars, modemVars>> /\ mishap' = TRUE
    BY DEF AssociationFails
<1> QED
    BY <1>4, <1>5 DEF ind, modemVars

LEMMA ControlStep ==
    ASSUME TypeInv, Modem \/ Shell \/ UNCHANGED vars
    PROVE  Control /\ ControlType'
<1>0. /\ app_evt_msgq \in [Boards -> Seq(GoodEvent)] /\ peer \in [Boards -> Boards \cup {None}]
      /\ air = [x \in Boards |-> air[x]] /\ \A b \in Boards : air[b] \in [Boards -> Seq(Numbers(b))]
      /\ link \subseteq PTs /\ mishap \in BOOLEAN
      /\ todo \in Seq(CommandSteps)
    BY DEF TypeInv, DataType, ControlType
<1>1. ASSUME UNCHANGED <<queueVars, ethTxQueue, app_evt_msgq, air>> PROVE Control
    BY <1>0, <1>1 DEF Control, Notified, queueVars
<1>2. ASSUME UNCHANGED <<queueVars, ethTxQueue>>,
             NEW gone \in SUBSET PTs, NEW told \in PTs \cup {None}, Cut(gone, told)
      PROVE  Control /\ link' \subseteq PTs /\ mishap' \in BOOLEAN
    <2>1. ASSUME NEW b \in Boards PROVE Notified(b)
        <3>1. "ASSOCIATION_RELEASE" \in Association
            BY DEF Association
        <3>2. CASE b \in gone
            <4>1. Grown(app_evt_msgq[b], app_evt_msgq'[b], About("ASSOCIATION_RELEASE", FT))
                BY <1>2, <3>2, CutFacts
            <4> QED
                BY <3>1, <4>1, NoticeFacts, GrownNotified, BoardFacts
        <3>3. CASE b = FT /\ told # None
            <4>1. Grown(app_evt_msgq[b], app_evt_msgq'[b], About("ASSOCIATION_RELEASE", told))
                BY <1>2, <3>3, CutFacts
            <4> QED
                BY <3>1, <3>3, <4>1, NoticeFacts, GrownNotified, BoardFacts
        <3>4. CASE b \notin gone /\ ~(b = FT /\ told # None)
            BY <1>2, <3>4, CutFacts DEF Notified
        <3> QED
            BY <3>2, <3>3, <3>4
    <2> QED
        BY <1>0, <1>2, <2>1, CutFacts DEF Control
<1>3. ASSUME NEW p \in PTs, Associate(p) \/ AssociationFails(p) PROVE Control /\ ControlType'
    <2>1. /\ app_evt_msgq' \in [Boards -> Seq(GoodEvent)] /\ mishap' \in BOOLEAN
          /\ \A b \in Boards : Notified(b)
          /\ UNCHANGED <<queueVars, peer, ethTxQueue, ftVars, beaconing, air>>
          /\ link' \subseteq PTs
        <3>1. CASE Associate(p)
            <4>1. /\ Grown(app_evt_msgq[FT], app_evt_msgq'[FT], About("ASSOCIATION_IND", p))
                  /\ Grown(app_evt_msgq[p], app_evt_msgq'[p], About("NTF_ASSOCIATION", FT))
                  /\ \A b \in Boards \ {FT, p} : app_evt_msgq'[b] = app_evt_msgq[b]
                BY <3>1, AssociateFacts
            <4>2. Notified(FT) /\ Notified(p)
                BY <4>1, NoticeFacts, GrownNotified, BoardFacts DEF Association
            <4> QED
                BY <1>0, <3>1, <4>1, <4>2, AssociateFacts DEF Notified
        <3>2. CASE AssociationFails(p)
            <4>1. /\ Grown(app_evt_msgq[FT], app_evt_msgq'[FT], About("ASSOCIATION_IND", p))
                  /\ \A b \in Boards \ {FT} : app_evt_msgq'[b] = app_evt_msgq[b]
                BY <3>2, FailureFacts
            <4>2. Notified(FT)
                BY <4>1, NoticeFacts, GrownNotified, BoardFacts DEF Association
            <4> QED
                BY <1>0, <3>2, <4>1, <4>2, FailureFacts DEF Notified
        <3> QED
            BY <1>3, <3>1, <3>2
    <2>2. Control
        BY <1>0, <2>1 DEF Control
    <2> QED
        BY <2>1, <2>2 DEF TypeInv, ControlType, ftVars
<1>4. ASSUME NEW p \in PTs, LinkLost(p) PROVE Control /\ ControlType'
    <2>1. Cut({p}, p) /\ UNCHANGED <<queueVars, ethTxQueue, peer, ftVars, beaconing>>
        BY <1>4 DEF LinkLost
    <2>2. Control /\ link' \subseteq PTs /\ mishap' \in BOOLEAN
        BY <1>2, <2>1
    <2> QED
        BY <2>1, <2>2 DEF TypeInv, ControlType, ftVars
<1>5. CASE cmd_ft
    <2>1. /\ UNCHANGED <<queueVars, app_evt_msgq, peer, ethTxQueue, current_mode, modemVars>>
          /\ ft_post_scan' = FALSE /\ mishap' \in BOOLEAN
        BY <1>5 DEF cmd_ft
    <2>2. todo' \in Seq(CommandSteps)
        <3>1. /\ InitMac \in Seq(CommandSteps) /\ ConfigureFt \in Seq(CommandSteps)
              /\ <<"reset_link_state">> \in Seq(CommandSteps)
            BY DEF InitMac, ConfigureFt, CommandSteps
        <3> QED
            BY <1>5, <3>1 DEF cmd_ft
    <2> QED
        BY <1>1, <2>1, <2>2 DEF TypeInv, ControlType, modemVars
<1>6. CASE cmd_scan
    BY <1>1, <1>6 DEF cmd_scan, TypeInv, ControlType, modemVars
<1>7. CASE cmd_stop
    <2>1. /\ UNCHANGED <<queueVars, peer, ethTxQueue, ft_post_scan, beaconing>>
          /\ current_mode' = "IDLE" /\ todo' = InitMac
        BY <1>7 DEF cmd_stop
    <2>2. Control /\ link' \subseteq PTs /\ mishap' \in BOOLEAN
        <3>1. CASE ~Linked(FT, peer[FT])
            BY <1>0, <1>1, <1>7, <2>1, <3>1 DEF cmd_stop
        <3>2. CASE Linked(FT, peer[FT])
            <4>1. peer[FT] \in PTs
                BY <1>0, <3>2 DEF Linked
            <4>2. PICK told \in {peer[FT], None} : Cut({peer[FT]}, told)
                BY <1>7, <3>2 DEF cmd_stop
            <4> QED
                BY <1>2, <2>1, <4>1, <4>2
        <3> QED
            BY <3>1, <3>2
    <2> QED
        BY <2>1, <2>2 DEF TypeInv, ControlType, InitMac, CommandSteps
<1>8. CASE Deactivate
    <2>1. /\ UNCHANGED <<queueVars, peer, ethTxQueue, current_mode, ft_post_scan>>
          /\ todo # <<>> /\ todo' = Tail(todo) /\ beaconing' = FALSE /\ Cut(link, None)
        BY <1>8 DEF Deactivate, At
    <2>2. Control /\ link' \subseteq PTs /\ mishap' \in BOOLEAN
        BY <1>0, <1>2, <2>1
    <2>3. todo' \in Seq(CommandSteps)
        BY <1>0, <2>1, TailFacts
    <2> QED
        BY <2>1, <2>2, <2>3 DEF TypeInv, ControlType
<1>9. CASE reset_link_state
    <2>1. /\ UNCHANGED <<queueVars, app_evt_msgq, ethTxQueue, current_mode, ft_post_scan, modemVars>>
          /\ todo # <<>> /\ todo' = Tail(todo) /\ mishap' \in BOOLEAN
          /\ peer' = [peer EXCEPT ![FT] = None]
        BY <1>9 DEF reset_link_state, At
    <2>2. todo' \in Seq(CommandSteps)
        BY <1>0, <2>1, TailFacts
    <2>3. Control
        BY <1>1, <2>1 DEF modemVars
    <2> QED
        BY <1>0, <2>1, <2>2, <2>3 DEF TypeInv, ControlType, modemVars
<1>10. CASE FtSteps
    <2>1. /\ UNCHANGED <<queueVars, app_evt_msgq, peer, ethTxQueue, ft_post_scan, link, air, mishap>>
          /\ todo # <<>> /\ todo' = Tail(todo) /\ beaconing' \in BOOLEAN
          /\ current_mode' \in {"IDLE", "FT"}
        BY <1>10 DEF FtSteps, At, TypeInv, ControlType
    <2>2. todo' \in Seq(CommandSteps)
        BY <1>0, <2>1, TailFacts
    <2>3. Control
        BY <1>1, <2>1
    <2> QED
        BY <2>1, <2>2, <2>3 DEF TypeInv, ControlType
<1>11. CASE UNCHANGED vars
    BY <1>1, <1>11 DEF vars, TypeInv, ControlType, queueVars, ftVars, modemVars
<1> QED
    BY <1>3, <1>4, <1>5, <1>6, <1>7, <1>8, <1>9, <1>10, <1>11 DEF Modem, Shell, Steps

-----------------------------------------------------------------------------
(* Types are kept.                                                         *)

LEMMA TypeInit == Init => TypeInv
<1> SUFFICES ASSUME Init PROVE TypeInv
    OBVIOUS
<1>1. DataType
    BY BoardFacts DEF Init, DataType
<1>2. todo \in Seq(CommandSteps)
    BY DEF Init
<1>3. peer \in [Boards -> Boards \cup {None}]
    BY DEF Init
<1>4. ControlType
    BY <1>2, <1>3 DEF Init, ControlType
<1> QED
    BY <1>1, <1>4 DEF TypeInv

\* What the event loop takes from its queue.
LEMMA TakeFacts ==
    ASSUME TypeInv, NEW b \in Boards, NEW types, Receives(b, types)
    PROVE  /\ app_evt_msgq[b] \in Seq(GoodEvent) /\ app_evt_msgq[b] # <<>>
           /\ Received(b) = Head(app_evt_msgq[b]) /\ Received(b) \in GoodEvent
           /\ Received(b).type \in types
           /\ app_evt_msgq' \in [Boards -> Seq(GoodEvent)]
           /\ app_evt_msgq'[b] = Tail(app_evt_msgq[b])
           /\ Len(app_evt_msgq'[b]) <= QueueDepth
           /\ \A c \in Boards \ {b} : app_evt_msgq'[c] = app_evt_msgq[c]
           /\ UNCHANGED <<rx_thread, taken, missed, ftVars, beaconing, link, mishap>>
<1>1. app_evt_msgq \in [Boards -> Seq(GoodEvent)] /\ Len(app_evt_msgq[b]) <= QueueDepth
    BY DEF TypeInv, DataType
<1>2. /\ app_evt_msgq[b] # <<>> /\ Head(app_evt_msgq[b]).type \in types
      /\ app_evt_msgq' = [app_evt_msgq EXCEPT ![b] = Tail(app_evt_msgq[b])]
      /\ UNCHANGED <<rx_thread, taken, missed, ftVars, beaconing, link, mishap>>
    BY DEF Receives
<1>3. /\ Tail(app_evt_msgq[b]) \in Seq(GoodEvent) /\ Head(app_evt_msgq[b]) \in GoodEvent
      /\ Len(Tail(app_evt_msgq[b])) <= QueueDepth
    BY <1>1, <1>2, TailFacts, BoardFacts
<1> QED
    BY <1>1, <1>2, <1>3 DEF Received

LEMMA TxFacts ==
    ASSUME TypeInv, NEW b \in Boards, process_dect_handle_tx(b)
    PROVE  \/ UNCHANGED <<ethRxQueue, air>>
           \/ /\ ethRxQueue[b] # <<>>
              /\ ethRxQueue' = [ethRxQueue EXCEPT ![b] = Tail(ethRxQueue[b])]
              /\ \/ UNCHANGED air
                 \/ \E c \in Boards :
                       air' = [air EXCEPT ![b][c] = Append(air[b][c], Head(ethRxQueue[b]))]
<1>1. peer[b] \in Boards \cup {None}
    BY DEF TypeInv, ControlType
<1>2. Accepts(b) => peer[b] # None
    BY DEF Accepts, Linked
<1> QED
    BY <1>1, <1>2 DEF process_dect_handle_tx

\* A datagram arrives.
LEMMA ArriveFacts ==
    ASSUME TypeInv, NEW b \in Boards, NEW c \in Boards, Arrives(b, c)
    PROVE  /\ UNCHANGED <<queueVars, peer, ethTxQueue, ftVars, beaconing, link, mishap>>
           /\ UNCHANGED <<ethRxQueue, rx_thread, taken, missed>>
           /\ air[b][c] \in Seq(Numbers(b)) /\ air[b][c] # <<>>
           /\ air' = [air EXCEPT ![b][c] = Tail(air[b][c])]
           /\ app_evt_msgq' \in [Boards -> Seq(GoodEvent)]
           /\ \A d \in Boards \ {c} : app_evt_msgq'[d] = app_evt_msgq[d]
           /\ \E e \in GoodEvent : /\ Tells(e, b) /\ e.n = Head(air[b][c])
                                   /\ Grown(app_evt_msgq[c], app_evt_msgq'[c], e)
<1> DEFINE n == Head(air[b][c])
           evt == [type |-> "DLC_RX", from |-> b, n |-> n, len |-> DlcRxLen(Lengths[b][n])]
<1>1. /\ air[b][c] \in Seq(Numbers(b)) /\ air[b][c] # <<>>
      /\ air' = [air EXCEPT ![b][c] = Tail(air[b][c])]
      /\ app_evt_msgq' = Put(app_evt_msgq, c, evt)
      /\ UNCHANGED <<queueVars, peer, ethTxQueue, ftVars, beaconing, link, mishap>>
    BY DEF Arrives, TypeInv, DataType
<1>2. n \in Numbers(b)
    BY <1>1, TailFacts
<1>3. evt \in GoodEvent
    <2>1. Lengths[b][n] \in Nat /\ n \in Nat
        BY <1>2, BoardFacts DEF Numbers
    <2>2. DlcRxLen(Lengths[b][n]) = CutLen(b, n) /\ CutLen(b, n) \in 0..AppDataLenMax
        BY <2>1, LeastFacts, BoardFacts DEF DlcRxLen, CutLen
    <2> HIDE DEF n
    <2>3. evt \in Event
        BY <2>1, <2>2 DEF Event
    <2> QED
        BY <1>2, <2>2, <2>3 DEF GoodEvent, Association
<1>4. Tells(evt, b) /\ evt.n = n
    BY DEF Tells
<1> HIDE DEF evt, n
<1>5. app_evt_msgq \in [Boards -> Seq(GoodEvent)]
    BY DEF TypeInv, DataType
<1>6. /\ app_evt_msgq' \in [Boards -> Seq(GoodEvent)]
      /\ Grown(app_evt_msgq[c], app_evt_msgq'[c], evt)
      /\ \A d \in Boards \ {c} : app_evt_msgq'[d] = app_evt_msgq[d]
    BY <1>1, <1>3, <1>5, PutStep
<1> QED
    BY <1>1, <1>3, <1>4, <1>6 DEF queueVars, n

LEMMA TypeNext == TypeInv /\ [Next]_vars => TypeInv'
<1> SUFFICES ASSUME TypeInv, [Next]_vars PROVE TypeInv'
    OBVIOUS
<1>0. DataType /\ ControlType
    BY DEF TypeInv
<1>1. CASE Modem \/ Shell \/ UNCHANGED vars
    <2>1. Control /\ ControlType'
        BY <1>1, ControlStep
    <2>2. \A b \in Boards : Len(app_evt_msgq'[b]) <= QueueDepth
        <3>1. ASSUME NEW b \in Boards PROVE Len(app_evt_msgq'[b]) <= QueueDepth
            <4>1. /\ app_evt_msgq[b] \in Seq(GoodEvent) /\ Len(app_evt_msgq[b]) <= QueueDepth
                  /\ Notified(b)
                BY <1>0, <2>1 DEF DataType, Control
            <4> QED
                BY <4>1, AppendFacts, BoardFacts DEF Notified, Full
        <3> QED
            BY <3>1
    <2> QED
        BY <1>0, <2>1, <2>2 DEF TypeInv, DataType, Control, queueVars
<1>2. ASSUME NEW b \in Boards, RxAppend(b) PROVE TypeInv'
    <2>1. /\ taken[b] < Len(Lengths[b]) /\ taken' = [taken EXCEPT ![b] = taken[b] + 1]
          /\ ethRxQueue' = [ethRxQueue EXCEPT ![b] = Append(ethRxQueue[b], taken'[b])]
          /\ rx_thread' = [rx_thread EXCEPT ![b] = "appended"]
          /\ UNCHANGED <<missed, app_evt_msgq, peer, ethTxQueue, ftVars, modemVars, mishap>>
        BY <1>2 DEF RxAppend
    <2>2. /\ taken \in [Boards -> Nat] /\ \A c \in Boards : taken[c] <= Len(Lengths[c])
          /\ \A c \in Boards : Len(Lengths[c]) \in Nat
        BY <1>0, BoardFacts DEF DataType
    <2>3. /\ taken' \in [Boards -> Nat] /\ \A c \in Boards : taken'[c] <= Len(Lengths[c])
          /\ taken'[b] \in Numbers(b)
        <3>1. taken[b] \in Nat /\ taken[b] + 1 \in Nat /\ taken[b] + 1 <= Len(Lengths[b])
            BY <2>1, <2>2
        <3>2. taken'[b] = taken[b] + 1 /\ \A c \in Boards \ {b} : taken'[c] = taken[c]
            BY <2>1, <2>2
        <3>3. taken' \in [Boards -> Nat]
            BY <2>1, <2>2, <3>1
        <3> QED
            BY <2>2, <3>1, <3>2, <3>3 DEF Numbers
    <2>4. DOMAIN ethRxQueue' = Boards /\ \A c \in Boards : ethRxQueue'[c] \in Seq(Numbers(c))
        BY <1>0, <2>1, <2>3, AppendFacts DEF DataType
    <2> QED
        BY <1>0, <2>1, <2>3, <2>4 DEF TypeInv, DataType, ControlType, ftVars, modemVars
<1>3. ASSUME NEW b \in Boards, Mac_TxReady(b) PROVE TypeInv'
    <2>1. TxAvailable \in GoodEvent
        BY BoardFacts DEF TxAvailable, GoodEvent, Event, Association
    <2>2. /\ app_evt_msgq' = Put(app_evt_msgq, b, TxAvailable)
          /\ rx_thread' = [rx_thread EXCEPT ![b] = "waits"]
          /\ missed' \in {missed, [missed EXCEPT ![b] = missed[b] + 1]}
          /\ UNCHANGED <<ethRxQueue, taken, peer, ethTxQueue, ftVars, modemVars, mishap>>
        BY <1>3 DEF Mac_TxReady
    <2>3. /\ app_evt_msgq' \in [Boards -> Seq(GoodEvent)]
          /\ Grown(app_evt_msgq[b], app_evt_msgq'[b], TxAvailable)
          /\ \A c \in Boards \ {b} : app_evt_msgq'[c] = app_evt_msgq[c]
        <3>1. app_evt_msgq \in [Boards -> Seq(GoodEvent)]
            BY <1>0 DEF DataType
        <3> QED
            BY <2>1, <2>2, <3>1, PutStep
    <2>4. \A c \in Boards : Len(app_evt_msgq'[c]) <= QueueDepth
        BY <1>0, <2>1, <2>3, GrownFacts DEF DataType
    <2>5. missed' \in [Boards -> Nat]
        <3>1. missed \in [Boards -> Nat]
            BY <1>0 DEF DataType
        <3> QED
            BY <2>2, <3>1
    <2> QED
        BY <1>0, <2>2, <2>3, <2>4, <2>5 DEF TypeInv, DataType, ControlType, ftVars, modemVars
<1>4. ASSUME NEW b \in Boards, EventLoop(b) PROVE TypeInv'
    <2>1. PICK types : Receives(b, types)
        BY <1>4 DEF EventLoop, process_dect_handle_tx, process_dlc_rx_event, process_association,
                    process_association_release_event
    <2>2. /\ app_evt_msgq' \in [Boards -> Seq(GoodEvent)]
          /\ \A c \in Boards : Len(app_evt_msgq'[c]) <= QueueDepth
          /\ Received(b) \in GoodEvent
          /\ UNCHANGED <<rx_thread, taken, missed, ftVars, beaconing, link, mishap>>
        BY <1>0, <2>1, TakeFacts DEF DataType
    <2>3. CASE process_dect_handle_tx(b)
        <3>1. UNCHANGED <<peer, ethTxQueue>>
            BY <2>3 DEF process_dect_handle_tx
        <3>2. CASE UNCHANGED <<ethRxQueue, air>>
            BY <1>0, <2>2, <3>1, <3>2 DEF TypeInv, DataType, ControlType, ftVars
        <3>3. CASE /\ ethRxQueue[b] # <<>>
                   /\ ethRxQueue' = [ethRxQueue EXCEPT ![b] = Tail(ethRxQueue[b])]
                   /\ \/ UNCHANGED air
                      \/ \E c \in Boards :
                            air' = [air EXCEPT ![b][c] = Append(air[b][c], Head(ethRxQueue[b]))]
            <4>1. Tail(ethRxQueue[b]) \in Seq(Numbers(b)) /\ Head(ethRxQueue[b]) \in Numbers(b)
                BY <1>0, <3>3, TailFacts DEF DataType
            <4>2. DOMAIN ethRxQueue' = Boards /\ \A c \in Boards : ethRxQueue'[c] \in Seq(Numbers(c))
                BY <1>0, <3>3, <4>1 DEF DataType
            <4>3. air' = [x \in Boards |-> air'[x]] /\ \A c \in Boards : air'[c] \in [Boards -> Seq(Numbers(c))]
                <5>1. \A c \in Boards : Append(air[b][c], Head(ethRxQueue[b])) \in Seq(Numbers(b))
                    BY <1>0, <4>1, AppendFacts DEF DataType
                <5>2. air = [x \in Boards |-> air[x]] /\ \A c \in Boards : air[c] \in [Boards -> Seq(Numbers(c))]
                    BY <1>0 DEF DataType
                <5>3. ASSUME NEW c \in Boards,
                             air' = [air EXCEPT ![b][c] = Append(air[b][c], Head(ethRxQueue[b]))]
                      PROVE  air' = [x \in Boards |-> air'[x]] /\ \A d \in Boards : air'[d] \in [Boards -> Seq(Numbers(d))]
                    BY <5>1, <5>2, <5>3
                <5> QED
                    BY <3>3, <5>2, <5>3
            <4> QED
                BY <1>0, <2>2, <3>1, <4>2, <4>3 DEF TypeInv, DataType, ControlType, ftVars
        <3> QED
            BY <2>3, <3>2, <3>3, TxFacts
    <2>4. CASE process_dlc_rx_event(b)
        <3>1. /\ ethTxQueue' = [ethTxQueue EXCEPT ![b] = Append(ethTxQueue[b], Packet(Received(b)))]
              /\ UNCHANGED <<ethRxQueue, peer, air>> /\ Receives(b, {"DLC_RX"})
            BY <2>4 DEF process_dlc_rx_event
        <3>2. Packet(Received(b)) \in GoodPacket
            <4>1. Received(b).type = "DLC_RX"
                BY <3>1, TakeFacts
            <4>2. \A e \in GoodEvent : e.type = "DLC_RX" =>
                    /\ e.from \in Boards /\ e.n \in Numbers(e.from) /\ e.n \in Nat /\ e.len \in Nat
                    /\ e.len = CutLen(e.from, e.n)
                BY BoardFacts DEF GoodEvent, Event
            <4> QED
                BY <2>2, <4>1, <4>2 DEF Packet, GoodPacket
        <3>3. ethTxQueue' \in [Boards -> Seq(GoodPacket)]
            BY <1>0, <3>1, <3>2, AppendFacts DEF DataType
        <3> QED
            BY <1>0, <2>2, <3>1, <3>3 DEF TypeInv, DataType, ControlType, ftVars
    <2>5. CASE process_association(b) \/ process_association_release_event(b)
        <3>1. /\ UNCHANGED <<ethRxQueue, ethTxQueue, air>>
              /\ \/ UNCHANGED peer \/ peer' = [peer EXCEPT ![b] = None]
                 \/ peer' = [peer EXCEPT ![b] = Received(b).from]
            BY <2>5 DEF process_association, process_association_release_event
        <3>2. Received(b).from \in Boards \cup {None}
            BY <2>2 DEF GoodEvent, Event
        <3>3. peer' \in [Boards -> Boards \cup {None}]
            BY <1>0, <3>1, <3>2 DEF ControlType
        <3> QED
            BY <1>0, <2>2, <3>1, <3>3 DEF TypeInv, DataType, ControlType, ftVars
    <2> QED
        BY <1>4, <2>3, <2>4, <2>5 DEF EventLoop
<1>5. ASSUME NEW b \in Boards, NEW c \in Boards, Arrives(b, c) PROVE TypeInv'
    <2>1. PICK evt \in GoodEvent : Grown(app_evt_msgq[c], app_evt_msgq'[c], evt)
        BY <1>5, ArriveFacts
    <2>2. /\ app_evt_msgq' \in [Boards -> Seq(GoodEvent)]
          /\ \A d \in Boards \ {c} : app_evt_msgq'[d] = app_evt_msgq[d]
          /\ air[b][c] \in Seq(Numbers(b)) /\ air[b][c] # <<>>
          /\ air' = [air EXCEPT ![b][c] = Tail(air[b][c])]
          /\ UNCHANGED <<queueVars, peer, ethTxQueue, ftVars, beaconing, link, mishap>>
        BY <1>5, ArriveFacts
    <2>3. Tail(air[b][c]) \in Seq(Numbers(b))
        BY <2>2, TailFacts
    <2>5. \A d \in Boards : Len(app_evt_msgq'[d]) <= QueueDepth
        BY <1>0, <2>1, <2>2, GrownFacts DEF DataType
    <2>6. air' = [x \in Boards |-> air'[x]] /\ \A d \in Boards : air'[d] \in [Boards -> Seq(Numbers(d))]
        BY <1>0, <2>2, <2>3 DEF DataType
    <2> QED
        BY <1>0, <2>2, <2>5, <2>6 DEF TypeInv, DataType, ControlType, ftVars, queueVars
<1> QED
    BY <1>1, <1>2, <1>3, <1>4, <1>5 DEF Next

\* The data path's variables have their types, and an event never holds more
\* of a datagram than its buffer, nor the queue more events than its array.
THEOREM DataTypes == Spec => []TypeOK
<1>1. TypeInv => TypeOK
    <2> SUFFICES ASSUME TypeInv PROVE TypeOK
        OBVIOUS
    <2>0. DataType /\ ControlType
        BY DEF TypeInv
    <2>1. \A b \in Boards : ethRxQueue[b] \in Seq(1..Len(Lengths[b]))
        BY <2>0 DEF DataType, Numbers
    <2>2. \A b \in Boards : app_evt_msgq[b] \in Seq(Event) /\ Len(app_evt_msgq[b]) <= QueueDepth
        <3>1. Seq(GoodEvent) \subseteq Seq(Event)
            BY SeqMonotonic DEF GoodEvent
        <3> QED
            BY <2>0, <3>1 DEF DataType
    <2>3. ethTxQueue \in [Boards -> Seq([from : Boards, n : Nat, len : Nat])]
        <3>1. Seq(GoodPacket) \subseteq Seq([from : Boards, n : Nat, len : Nat])
            <4>1. GoodPacket \subseteq [from : Boards, n : Nat, len : Nat]
                BY DEF GoodPacket
            <4> QED
                BY <4>1, SeqMonotonic
        <3> QED
            BY <2>0, <3>1 DEF DataType
    <2>4. air \in [Boards -> [Boards -> Seq(Nat)]]
        <3>1. \A b \in Boards : Seq(Numbers(b)) \subseteq Seq(Nat)
            BY SeqMonotonic, BoardFacts DEF Numbers
        <3>2. \A b \in Boards : air[b] \in [Boards -> Seq(Nat)]
            BY <2>0, <3>1 DEF DataType
        <3>3. air = [x \in Boards |-> air[x]]
            BY <2>0 DEF DataType
        <3> DEFINE T == [Boards -> Seq(Nat)]
        <3>4. \A b \in Boards : air[b] \in T
            BY <3>2
        <3> HIDE DEF T
        <3>5. air \in [Boards -> T]
            BY <3>3, <3>4
        <3> QED
            BY <3>5 DEF T
    <2> QED
        BY <2>0, <2>1, <2>2, <2>3, <2>4 DEF TypeOK, DataType, ControlType, CommandSteps
<1> QED
    BY <1>1, TypeInit, TypeNext, PTL DEF Spec

-----------------------------------------------------------------------------
(* An event for every datagram.                                            *)

\* How many datagrams b's event loop will be told of, or was not.
Due(b) == Events(b, "TX_AVAILABLE") + missed[b] + (IF rx_thread[b] = "appended" THEN 1 ELSE 0)

LEMMA EventsFacts ==
    ASSUME TypeInv, NEW b \in Boards
    PROVE  /\ app_evt_msgq[b] \in Seq(GoodEvent)
           /\ Events(b, "TX_AVAILABLE") = Cardinality(Holding(app_evt_msgq[b], "TX_AVAILABLE"))
           /\ Events(b, "TX_AVAILABLE") \in Nat /\ missed[b] \in Nat
           /\ ethRxQueue[b] \in Seq(Numbers(b)) /\ Len(ethRxQueue[b]) \in Nat
<1>1. /\ app_evt_msgq[b] \in Seq(GoodEvent) /\ missed[b] \in Nat
      /\ ethRxQueue[b] \in Seq(Numbers(b))
    BY DEF TypeInv, DataType
<1>2. Events(b, "TX_AVAILABLE") = Cardinality(Holding(app_evt_msgq[b], "TX_AVAILABLE"))
    BY DEF Events, Holding
<1> QED
    BY <1>1, <1>2, HoldingFinite

\* The same in the next state.
LEMMA NextEventsFacts ==
    ASSUME TypeInv', NEW b \in Boards
    PROVE  /\ (Events(b, "TX_AVAILABLE"))' = Cardinality(Holding(app_evt_msgq'[b], "TX_AVAILABLE"))
           /\ (Events(b, "TX_AVAILABLE"))' \in Nat
           /\ ethRxQueue'[b] \in Seq(Numbers(b)) /\ missed'[b] \in Nat
<1>1. app_evt_msgq'[b] \in Seq(GoodEvent) /\ ethRxQueue'[b] \in Seq(Numbers(b)) /\ missed'[b] \in Nat
    BY DEF TypeInv, DataType
<1>2. (Events(b, "TX_AVAILABLE"))' = Cardinality(Holding(app_evt_msgq'[b], "TX_AVAILABLE"))
    BY DEF Events, Holding
<1> QED
    BY <1>1, <1>2, HoldingFinite

LEMMA EventsGrow ==
    ASSUME TypeInv, TypeInv', NEW b \in Boards, NEW e \in GoodEvent,
           app_evt_msgq'[b] = Append(app_evt_msgq[b], e)
    PROVE  (Events(b, "TX_AVAILABLE"))'
               = Events(b, "TX_AVAILABLE") + (IF e.type = "TX_AVAILABLE" THEN 1 ELSE 0)
<1>1. Cardinality(Holding(Append(app_evt_msgq[b], e), "TX_AVAILABLE"))
          = Cardinality(Holding(app_evt_msgq[b], "TX_AVAILABLE"))
            + (IF e.type = "TX_AVAILABLE" THEN 1 ELSE 0)
    BY EventsFacts, HoldingAppend
<1> QED
    BY <1>1, EventsFacts, NextEventsFacts

LEMMA EventsShrink ==
    ASSUME TypeInv, TypeInv', NEW b \in Boards, app_evt_msgq[b] # <<>>,
           app_evt_msgq'[b] = Tail(app_evt_msgq[b])
    PROVE  Events(b, "TX_AVAILABLE") = (Events(b, "TX_AVAILABLE"))'
               + (IF Head(app_evt_msgq[b]).type = "TX_AVAILABLE" THEN 1 ELSE 0)
<1>1. Cardinality(Holding(app_evt_msgq[b], "TX_AVAILABLE"))
          = Cardinality(Holding(Tail(app_evt_msgq[b]), "TX_AVAILABLE"))
            + (IF Head(app_evt_msgq[b]).type = "TX_AVAILABLE" THEN 1 ELSE 0)
    BY EventsFacts, HoldingTail
<1> QED
    BY <1>1, EventsFacts, NextEventsFacts

\* A board whose events, queue and thread a step leaves alone.
LEMMA BacklogKept ==
    ASSUME TypeInv, TypeInv', NEW b \in Boards, Len(ethRxQueue[b]) = Due(b),
           app_evt_msgq'[b] = app_evt_msgq[b], ethRxQueue'[b] = ethRxQueue[b],
           rx_thread'[b] = rx_thread[b], missed'[b] = missed[b]
    PROVE  Len(ethRxQueue'[b]) = (Due(b))'
BY EventsFacts, NextEventsFacts DEF Due

\* A board that has an event more, which is not one of a datagram to send.
LEMMA BacklogTold ==
    ASSUME TypeInv, TypeInv', NEW b \in Boards, Len(ethRxQueue[b]) = Due(b),
           NEW e \in GoodEvent, e.type # "TX_AVAILABLE",
           Grown(app_evt_msgq[b], app_evt_msgq'[b], e), ethRxQueue'[b] = ethRxQueue[b],
           rx_thread'[b] = rx_thread[b], missed'[b] = missed[b]
    PROVE  Len(ethRxQueue'[b]) = (Due(b))'
<1>1. CASE Full(app_evt_msgq[b])
    BY <1>1, BacklogKept DEF Grown
<1>2. CASE ~Full(app_evt_msgq[b])
    <2>1. app_evt_msgq'[b] = Append(app_evt_msgq[b], e)
        BY <1>2 DEF Grown
    <2>2. (Events(b, "TX_AVAILABLE"))' = Events(b, "TX_AVAILABLE")
        BY <2>1, EventsGrow, EventsFacts
    <2> QED
        BY <2>2 DEF Due
<1> QED
    BY <1>1, <1>2

LEMMA BacklogNext == TypeInv /\ TypeInv' /\ Backlog /\ [Next]_vars => Backlog'
<1> SUFFICES ASSUME TypeInv, TypeInv', Backlog, [Next]_vars, NEW b \in Boards
             PROVE  Len(ethRxQueue'[b]) = (Due(b))'
    BY DEF Backlog, Due
<1>0. Len(ethRxQueue[b]) = Due(b)
    BY DEF Backlog, Due
<1>1. CASE Modem \/ Shell \/ UNCHANGED vars
    <2>1. Control
        BY <1>1, ControlStep
    <2>2. ethRxQueue' = ethRxQueue /\ rx_thread' = rx_thread /\ missed' = missed /\ Notified(b)
        BY <2>1 DEF Control, queueVars
    <2>3. CASE app_evt_msgq'[b] = app_evt_msgq[b]
        BY <1>0, <2>2, <2>3, BacklogKept
    <2>4. CASE app_evt_msgq'[b] # app_evt_msgq[b]
        <3>1. PICK e \in GoodEvent : /\ IsAssociation(e) /\ ~Full(app_evt_msgq[b])
                                     /\ app_evt_msgq'[b] = Append(app_evt_msgq[b], e)
            BY <2>2, <2>4 DEF Notified
        <3>2. e.type # "TX_AVAILABLE"
            BY <3>1 DEF IsAssociation, Association
        <3>3. Grown(app_evt_msgq[b], app_evt_msgq'[b], e)
            BY <3>1 DEF Grown
        <3> QED
            BY <1>0, <2>2, <3>2, <3>3, BacklogTold
    <2> QED
        BY <2>3, <2>4
<1>2. ASSUME NEW c \in Boards, RxAppend(c) PROVE Len(ethRxQueue'[b]) = (Due(b))'
    <2>1. /\ rx_thread[c] = "waits" /\ rx_thread' = [rx_thread EXCEPT ![c] = "appended"]
          /\ ethRxQueue' = [ethRxQueue EXCEPT ![c] = Append(ethRxQueue[c], taken'[c])]
          /\ UNCHANGED <<missed, app_evt_msgq>>
        BY <1>2 DEF RxAppend
    <2>2. DOMAIN ethRxQueue = Boards /\ rx_thread \in [Boards -> {"waits", "appended"}]
        BY DEF TypeInv, DataType
    <2>3. CASE b # c
        <3>1. ethRxQueue'[b] = ethRxQueue[b] /\ rx_thread'[b] = rx_thread[b]
            BY <2>1, <2>2, <2>3
        <3> QED
            BY <1>0, <2>1, <3>1, BacklogKept
    <2>4. CASE b = c
        <3>1. ethRxQueue'[b] = Append(ethRxQueue[b], taken'[b])
            BY <2>1, <2>2, <2>4
        <3>2. Len(ethRxQueue'[b]) = Len(ethRxQueue[b]) + 1
            BY <3>1, EventsFacts
        <3>3. rx_thread[b] = "waits" /\ rx_thread'[b] = "appended"
            BY <2>1, <2>2, <2>4
        <3>4. (Events(b, "TX_AVAILABLE"))' = Events(b, "TX_AVAILABLE")
            BY <2>1 DEF Events
        <3> QED
            BY <1>0, <2>1, <3>2, <3>3, <3>4, EventsFacts DEF Due
    <2> QED
        BY <2>3, <2>4
<1>3. ASSUME NEW c \in Boards, Mac_TxReady(c) PROVE Len(ethRxQueue'[b]) = (Due(b))'
    <2>1. /\ rx_thread[c] = "appended" /\ rx_thread' = [rx_thread EXCEPT ![c] = "waits"]
          /\ app_evt_msgq' = Put(app_evt_msgq, c, TxAvailable) /\ ethRxQueue' = ethRxQueue
          /\ missed' = IF Full(app_evt_msgq[c]) THEN [missed EXCEPT ![c] = missed[c] + 1] ELSE missed
        BY <1>3 DEF Mac_TxReady
    <2>2. /\ rx_thread \in [Boards -> {"waits", "appended"}] /\ missed \in [Boards -> Nat]
          /\ app_evt_msgq \in [Boards -> Seq(GoodEvent)]
        BY DEF TypeInv, DataType
    <2>3. TxAvailable \in GoodEvent /\ TxAvailable.type = "TX_AVAILABLE"
        BY BoardFacts DEF TxAvailable, GoodEvent, Event, Association
    <2>4. /\ Grown(app_evt_msgq[c], app_evt_msgq'[c], TxAvailable)
          /\ \A d \in Boards \ {c} : app_evt_msgq'[d] = app_evt_msgq[d]
        BY <2>1, <2>2, <2>3, PutStep
    <2>5. CASE b # c
        <3>1. missed'[b] = missed[b] /\ rx_thread'[b] = rx_thread[b]
            BY <2>1, <2>2, <2>5
        <3> QED
            BY <1>0, <2>1, <2>4, <2>5, <3>1, BacklogKept
    <2>6. CASE b = c /\ Full(app_evt_msgq[c])
        <3>1. missed'[b] = missed[b] + 1 /\ rx_thread[b] = "appended" /\ rx_thread'[b] = "waits"
            BY <2>1, <2>2, <2>6
        <3>2. (Events(b, "TX_AVAILABLE"))' = Events(b, "TX_AVAILABLE")
            BY <2>4, <2>6 DEF Events, Grown
        <3> QED
            BY <1>0, <2>1, <3>1, <3>2, EventsFacts DEF Due
    <2>7. CASE b = c /\ ~Full(app_evt_msgq[c])
        <3>1. missed'[b] = missed[b] /\ rx_thread[b] = "appended" /\ rx_thread'[b] = "waits"
            BY <2>1, <2>2, <2>7
        <3>2. (Events(b, "TX_AVAILABLE"))' = Events(b, "TX_AVAILABLE") + 1
            BY <2>3, <2>4, <2>7, EventsGrow DEF Grown
        <3> QED
            BY <1>0, <2>1, <3>1, <3>2, EventsFacts, NextEventsFacts DEF Due
    <2> QED
        BY <2>5, <2>6, <2>7
<1>4. ASSUME NEW c \in Boards, EventLoop(c) PROVE Len(ethRxQueue'[b]) = (Due(b))'
    <2> DEFINE handlers == {{"TX_AVAILABLE"}, {"DLC_RX"}, {"ASSOCIATION_IND", "NTF_ASSOCIATION"},
                            {"ASSOCIATION_RELEASE"}}
    <2>1. PICK types \in handlers :
              /\ Receives(c, types)
              /\ IF types = {"TX_AVAILABLE"} THEN process_dect_handle_tx(c) ELSE UNCHANGED ethRxQueue
        <3>1. CASE process_dect_handle_tx(c)
            BY <3>1 DEF process_dect_handle_tx
        <3>2. CASE process_dlc_rx_event(c)
            BY <3>2 DEF process_dlc_rx_event
        <3>3. CASE process_association(c)
            BY <3>3 DEF process_association
        <3>4. CASE process_association_release_event(c)
            BY <3>4 DEF process_association_release_event
        <3> QED
            BY <1>4, <3>1, <3>2, <3>3, <3>4 DEF EventLoop
    <2>2. /\ app_evt_msgq[c] \in Seq(GoodEvent) /\ app_evt_msgq[c] # <<>>
          /\ Head(app_evt_msgq[c]).type \in types /\ app_evt_msgq'[c] = Tail(app_evt_msgq[c])
          /\ \A d \in Boards \ {c} : app_evt_msgq'[d] = app_evt_msgq[d]
          /\ UNCHANGED <<rx_thread, missed>>
        BY <2>1, TakeFacts
    <2>3. CASE b # c
        <3>1. ethRxQueue'[b] = ethRxQueue[b]
            <4>1. DOMAIN ethRxQueue = Boards
                BY DEF TypeInv, DataType
            <4> QED
                BY <2>1, <2>3, <4>1, TxFacts
        <3> QED
            BY <1>0, <2>2, <2>3, <3>1, BacklogKept
    <2>4. CASE b = c /\ types # {"TX_AVAILABLE"}
        <3>1. Head(app_evt_msgq[b]).type # "TX_AVAILABLE"
            BY <2>1, <2>2, <2>4
        <3>2. (Events(b, "TX_AVAILABLE"))' = Events(b, "TX_AVAILABLE")
            BY <2>2, <2>4, <3>1, EventsShrink, NextEventsFacts
        <3> QED
            BY <1>0, <2>1, <2>2, <2>4, <3>2 DEF Due
    <2>5. CASE b = c /\ types = {"TX_AVAILABLE"}
        <3>1. Events(b, "TX_AVAILABLE") = (Events(b, "TX_AVAILABLE"))' + 1
            BY <2>2, <2>5, EventsShrink
        <3>2. (Events(b, "TX_AVAILABLE"))' \in Nat
            BY NextEventsFacts
        <3>3. ethRxQueue[b] # <<>>
            BY <1>0, <3>1, <3>2, EventsFacts DEF Due
        <3>4. ethRxQueue'[b] = Tail(ethRxQueue[b])
            <4>1. ethRxQueue' = [ethRxQueue EXCEPT ![b] = Tail(ethRxQueue[b])] /\ DOMAIN ethRxQueue = Boards
                BY <2>1, <2>5, <3>3 DEF process_dect_handle_tx, TypeInv, DataType
            <4> QED
                BY <4>1
        <3>5. Len(ethRxQueue'[b]) = Len(ethRxQueue[b]) - 1
            BY <3>3, <3>4, EventsFacts
        <3>6. rx_thread'[b] = rx_thread[b] /\ missed'[b] = missed[b] /\ missed[b] \in Nat
            BY <2>2, EventsFacts
        <3> QED
            BY <1>0, <3>1, <3>2, <3>5, <3>6 DEF Due
    <2> QED
        BY <2>3, <2>4, <2>5
<1>5. ASSUME NEW a \in Boards, NEW c \in Boards, Arrives(a, c) PROVE Len(ethRxQueue'[b]) = (Due(b))'
    <2>1. /\ UNCHANGED <<ethRxQueue, rx_thread, missed>>
          /\ \A d \in Boards \ {c} : app_evt_msgq'[d] = app_evt_msgq[d]
          /\ \E e \in GoodEvent : Tells(e, a) /\ Grown(app_evt_msgq[c], app_evt_msgq'[c], e)
        BY <1>5, ArriveFacts
    <2>2. CASE b # c
        BY <1>0, <2>1, <2>2, BacklogKept
    <2>3. CASE b = c
        <3>1. PICK e \in GoodEvent : Tells(e, a) /\ Grown(app_evt_msgq[b], app_evt_msgq'[b], e)
            BY <2>1, <2>3
        <3>2. e.type # "TX_AVAILABLE"
            BY <3>1 DEF Tells
        <3> QED
            BY <1>0, <2>1, <3>1, <3>2, BacklogTold
    <2> QED
        BY <2>2, <2>3
<1> QED
    BY <1>1, <1>2, <1>3, <1>4, <1>5 DEF Next

\* The event loop is never told of a datagram that ethRxQueue does not hold, and
\* ethRxQueue holds one more than it is told of for every event ever dropped.
THEOREM EveryDatagramTold == Spec => []Backlog
<1>1. Init => Backlog
    <2> SUFFICES ASSUME Init, NEW b \in Boards PROVE Len(ethRxQueue[b]) = Due(b)
        BY DEF Backlog, Due
    <2>1. Events(b, "TX_AVAILABLE") = 0
        <3>1. {i \in 1..Len(app_evt_msgq[b]) : app_evt_msgq[b][i].type = "TX_AVAILABLE"} = {}
            BY DEF Init
        <3> QED
            BY <3>1, FS_EmptySet DEF Events
    <2> QED
        BY <2>1 DEF Init, Due
<1> QED
    BY <1>1, TypeInit, TypeNext, BacklogNext, PTL DEF Spec

-----------------------------------------------------------------------------
(* Order is kept by each way a datagram can move on.                       *)

LEMMA NumbersOf ==
    /\ \A e \in Seq(GoodEvent) : \A i \in 1..Len(e) : e[i] \in GoodEvent /\ e[i].n \in Nat
    /\ \A p \in Seq(GoodPacket) : \A i \in 1..Len(p) : p[i].n \in Nat
<1>1. \A evt \in GoodEvent : evt.n \in Nat
    BY DEF GoodEvent, Event
<1>2. \A packet \in GoodPacket : packet.n \in Nat
    BY DEF GoodPacket
<1> QED
    BY <1>1, <1>2

LEMMA OneMoreTaken ==
    ASSUME NEW b, NEW t \in Nat, NEW q \in Seq(Nat), NEW a \in Seq(Nat),
           NEW e \in Seq(GoodEvent), NEW p \in Seq(GoodPacket), Ordered(b, t, q, a, e, p)
    PROVE  Ordered(b, t + 1, Append(q, t + 1), a, e, p)
<1> DEFINE r == Append(q, t + 1)
<1>1. Longer(r, q, t + 1) /\ \A i \in 1..Len(q) : q[i] \in Nat
    BY AppendIndex
<1>2. ASSUME NEW n \in Nat, n <= t, Before(n, q) PROVE Before(n, r) /\ n <= t + 1
    BY <1>1, <1>2 DEF Before, Longer
<1>3. /\ \A i \in 1..Len(a) : a[i] \in Nat
      /\ \A i \in 1..Len(e) : e[i].n \in Nat
      /\ \A i \in 1..Len(p) : p[i].n \in Nat
    BY NumbersOf
<1> HIDE DEF r
<1>4. QueueOrder(t + 1, r)
    <2>1. /\ \A i \in 1..Len(q) : q[i] <= t /\ q[i] < t + 1 /\ q[i] <= t + 1
          /\ \A i, j \in 1..Len(q) : i < j => q[i] < q[j]
          /\ t + 1 <= t + 1
        BY <1>1 DEF Ordered, QueueOrder
    <2>2. \A i \in 1..Len(r) : r[i] <= t + 1
        BY <1>1, <2>1 DEF Longer
    <2>3. \A i, j \in 1..Len(r) : i < j => r[i] < r[j]
        BY <1>1, <2>1 DEF Longer
    <2> QED
        BY <2>2, <2>3 DEF QueueOrder
<1>5. AirOrder(t + 1, r, a)
    BY <1>2, <1>3 DEF Ordered, AirOrder
<1>6. EventOrder(b, t + 1, r, a, e)
    BY <1>2, <1>3 DEF Ordered, EventOrder, Tells
<1>7. PacketOrder(b, t + 1, r, a, e, p)
    BY <1>2, <1>3 DEF Ordered, PacketOrder
<1> QED
    BY <1>4, <1>5, <1>6, <1>7 DEF Ordered, r

\* The oldest that waits is sent, or lost.
LEMMA OneLessWaits ==
    ASSUME NEW b, NEW t \in Nat, NEW q \in Seq(Nat), q # <<>>, NEW a \in Seq(Nat),
           NEW e \in Seq(GoodEvent), NEW p \in Seq(GoodPacket), Ordered(b, t, q, a, e, p)
    PROVE  /\ Ordered(b, t, Tail(q), a, e, p)
           /\ Ordered(b, t, Tail(q), Append(a, Head(q)), e, p)
<1> DEFINE r == Tail(q)
           s == Append(a, Head(q))
<1>1. Shorter(r, q, Head(q)) /\ Head(q) \in Nat
    BY TailIndex, TailFacts
<1>2. Longer(s, a, Head(q))
    BY <1>1, AppendIndex
<1>3. \A i \in 1..Len(q) : q[i] \in Nat
    OBVIOUS
<1> HIDE DEF r, s
<1>4. \A n \in Nat : Before(n, q) => Before(n, r) /\ n < Head(q)
    BY <1>1 DEF Before, Shorter
<1>5. \A n \in Nat : Before(n, q) /\ Before(n, a) => Before(n, s)
    BY <1>2, <1>4 DEF Before, Longer
<1>6. /\ \A i \in 1..Len(a) : a[i] \in Nat
      /\ \A i \in 1..Len(e) : e[i].n \in Nat
      /\ \A i \in 1..Len(p) : p[i].n \in Nat
    BY NumbersOf
<1>7. QueueOrder(t, r) /\ Before(Head(q), r) /\ Head(q) <= t
    BY <1>1, <1>3 DEF Ordered, QueueOrder, Before, Shorter
<1>8. AirOrder(t, r, a)
    BY <1>4, <1>6 DEF Ordered, AirOrder
<1>9. AirOrder(t, r, s)
    <2>1. \A i \in 1..Len(a) : a[i] <= t /\ Before(a[i], r) /\ a[i] < Head(q)
        BY <1>4, <1>6 DEF Ordered, AirOrder
    <2>2. \A i, j \in 1..Len(a) : i < j => a[i] < a[j]
        BY DEF Ordered, AirOrder
    <2>3. \A i \in 1..Len(s) : s[i] <= t /\ Before(s[i], r)
        BY <1>2, <1>7, <2>1 DEF Longer
    <2>4. \A i, j \in 1..Len(s) : i < j => s[i] < s[j]
        <3> SUFFICES ASSUME NEW i \in 1..Len(s), NEW j \in 1..Len(s), i < j PROVE s[i] < s[j]
            OBVIOUS
        <3>1. i \in 1..Len(a) /\ s[i] = a[i]
            BY <1>2 DEF Longer
        <3>2. CASE j \in 1..Len(a) /\ s[j] = a[j]
            BY <2>2, <3>1, <3>2
        <3>3. CASE s[j] = Head(q)
            BY <2>1, <3>1, <3>3
        <3> QED
            BY <1>2, <3>2, <3>3 DEF Longer
    <2> QED
        BY <2>3, <2>4 DEF AirOrder
<1>10. EventOrder(b, t, r, a, e) /\ EventOrder(b, t, r, s, e)
    BY <1>4, <1>5, <1>6 DEF Ordered, EventOrder, Tells
<1>11. PacketOrder(b, t, r, a, e, p) /\ PacketOrder(b, t, r, s, e, p)
    BY <1>4, <1>5, <1>6 DEF Ordered, PacketOrder
<1> QED
    BY <1>7, <1>8, <1>9, <1>10, <1>11 DEF Ordered, r, s

\* The oldest in the air arrives, and is reported or dropped.
LEMMA OneLessFlies ==
    ASSUME NEW b, NEW t \in Nat, NEW q \in Seq(Nat), NEW a \in Seq(Nat), a # <<>>,
           NEW e \in Seq(GoodEvent), NEW p \in Seq(GoodPacket), Ordered(b, t, q, a, e, p),
           NEW evt \in GoodEvent, Tells(evt, b), evt.n = Head(a)
    PROVE  /\ Ordered(b, t, q, Tail(a), e, p)
           /\ Ordered(b, t, q, Tail(a), Append(e, evt), p)
<1> DEFINE r == Tail(a)
           s == Append(e, evt)
<1>1. Shorter(r, a, evt.n) /\ evt.n \in Nat
    BY TailIndex, TailFacts
<1>2. Longer(s, e, evt)
    BY AppendIndex
<1> HIDE DEF r, s
<1>3. \A n \in Nat : Before(n, a) => Before(n, r) /\ n < evt.n
    BY <1>1 DEF Before, Shorter
<1>4. \A n \in Nat : Before(n, a) /\ BeforeEvents(n, b, e) => BeforeEvents(n, b, s)
    BY <1>2, <1>3 DEF BeforeEvents, Tells, Longer
<1>5. /\ \A i \in 1..Len(e) : e[i].n \in Nat
      /\ \A i \in 1..Len(p) : p[i].n \in Nat
    BY NumbersOf
<1>6. AirOrder(t, q, r) /\ Before(evt.n, r) /\ evt.n <= t /\ Before(evt.n, q)
    BY <1>1 DEF Ordered, AirOrder, Before, Shorter
<1>7. EventOrder(b, t, q, r, e)
    BY <1>3, <1>5 DEF Ordered, EventOrder, Tells
<1>8. EventOrder(b, t, q, r, s)
    <2>1. \A i \in 1..Len(e) : Tells(e[i], b) => e[i].n < evt.n
        BY <1>3, <1>5 DEF Ordered, EventOrder, Tells
    <2> QED
        BY <1>2, <1>6, <1>7, <2>1 DEF EventOrder, Tells, Longer
<1>9. PacketOrder(b, t, q, r, e, p) /\ PacketOrder(b, t, q, r, s, p)
    BY <1>3, <1>4, <1>5 DEF Ordered, PacketOrder
<1> QED
    BY <1>6, <1>7, <1>8, <1>9 DEF Ordered, r, s

\* What is in the air is lost.
LEMMA NoneFlies ==
    ASSUME NEW b, NEW t \in Nat, NEW q \in Seq(Nat), NEW a \in Seq(Nat),
           NEW e \in Seq(GoodEvent), NEW p \in Seq(GoodPacket), Ordered(b, t, q, a, e, p)
    PROVE  Ordered(b, t, q, <<>>, e, p)
<1>1. \A n : Before(n, <<>>)
    BY DEF Before
<1> QED
    BY <1>1 DEF Ordered, AirOrder, EventOrder, PacketOrder

\* An event more that tells of something else.
LEMMA OneMoreEvent ==
    ASSUME NEW b, NEW t \in Nat, NEW q \in Seq(Nat), NEW a \in Seq(Nat),
           NEW e \in Seq(GoodEvent), NEW p \in Seq(GoodPacket), Ordered(b, t, q, a, e, p),
           NEW evt \in GoodEvent, ~Tells(evt, b)
    PROVE  Ordered(b, t, q, a, Append(e, evt), p)
<1> DEFINE s == Append(e, evt)
<1>1. Longer(s, e, evt)
    BY AppendIndex
<1> HIDE DEF s
<1>2. \A n : BeforeEvents(n, b, e) => BeforeEvents(n, b, s)
    BY <1>1 DEF BeforeEvents, Tells, Longer
<1>3. EventOrder(b, t, q, a, s)
    BY <1>1 DEF Ordered, EventOrder, Tells, Longer
<1>4. PacketOrder(b, t, q, a, s, p)
    BY <1>2 DEF Ordered, PacketOrder
<1> QED
    BY <1>3, <1>4 DEF Ordered, s

\* The oldest event is handled; if it tells of b's datagram that is forwarded,
\* if it tells of another's, that is.
LEMMA OneLessEvent ==
    ASSUME NEW b, NEW t \in Nat, NEW q \in Seq(Nat), NEW a \in Seq(Nat),
           NEW e \in Seq(GoodEvent), e # <<>>, NEW p \in Seq(GoodPacket),
           Ordered(b, t, q, a, e, p)
    PROVE  /\ Ordered(b, t, q, a, Tail(e), p)
           /\ \A packet \in GoodPacket :
                  packet.from # b \/ (Tells(Head(e), b) /\ packet.n = Head(e).n)
                  => Ordered(b, t, q, a, Tail(e), Append(p, packet))
<1> DEFINE r == Tail(e)
<1>1. Shorter(r, e, Head(e))
    BY TailIndex
<1> HIDE DEF r
<1>2. \A n : BeforeEvents(n, b, e) => BeforeEvents(n, b, r)
    BY <1>1 DEF BeforeEvents, Tells, Shorter
<1>3. EventOrder(b, t, q, a, r)
    BY <1>1 DEF Ordered, EventOrder, Tells, Shorter
<1>4. PacketOrder(b, t, q, a, r, p)
    BY <1>2 DEF Ordered, PacketOrder
<1>5. ASSUME NEW packet \in GoodPacket,
             packet.from # b \/ (Tells(Head(e), b) /\ packet.n = Head(e).n)
      PROVE  PacketOrder(b, t, q, a, r, Append(p, packet))
    <2> DEFINE s == Append(p, packet)
    <2>1. Longer(s, p, packet)
        BY AppendIndex
    <2> HIDE DEF s
    <2>2. packet.from = b =>
              /\ packet.n <= t /\ Before(packet.n, q) /\ Before(packet.n, a)
              /\ BeforeEvents(packet.n, b, r)
              /\ \A i \in 1..Len(p) : p[i].from = b => p[i].n < packet.n
        BY <1>1, <1>5 DEF Ordered, EventOrder, PacketOrder, BeforeEvents, Tells, Shorter
    <2>3. PacketOrder(b, t, q, a, r, s)
        BY <1>4, <2>1, <2>2 DEF PacketOrder, Longer
    <2> QED
        BY <2>3 DEF s
<1> QED
    BY <1>3, <1>4, <1>5 DEF Ordered, r

\* What the lemmas above are about, for the boards b and c.
LEMMA OrderFacts ==
    ASSUME TypeInv, OrderInv, NEW b \in Boards, NEW c \in Boards
    PROVE  /\ taken[b] \in Nat /\ ethRxQueue[b] \in Seq(Nat) /\ air[b][c] \in Seq(Nat)
           /\ app_evt_msgq[c] \in Seq(GoodEvent) /\ ethTxQueue[c] \in Seq(GoodPacket)
           /\ Ordered(b, taken[b], ethRxQueue[b], air[b][c], app_evt_msgq[c], ethTxQueue[c])
<1>1. Numbers(b) \subseteq Nat
    BY DEF Numbers
<1>2. Seq(Numbers(b)) \subseteq Seq(Nat)
    BY <1>1, SeqMonotonic
<1>3. /\ taken[b] \in Nat /\ ethRxQueue[b] \in Seq(Numbers(b)) /\ air[b][c] \in Seq(Numbers(b))
      /\ app_evt_msgq[c] \in Seq(GoodEvent) /\ ethTxQueue[c] \in Seq(GoodPacket)
    BY DEF TypeInv, DataType
<1> QED
    BY <1>2, <1>3 DEF OrderInv

\* A packet is of whom the event told.
LEMMA PacketFacts ==
    ASSUME NEW e \in GoodEvent, e.type = "DLC_RX"
    PROVE  /\ Packet(e) \in GoodPacket /\ Packet(e).from = e.from /\ Packet(e).n = e.n
<1>1. /\ e.from \in Boards /\ e.n \in Numbers(e.from) /\ e.n \in Nat /\ e.len \in Nat
      /\ e.len = CutLen(e.from, e.n)
    BY BoardFacts DEF GoodEvent, Event
<1> QED
    BY <1>1 DEF Packet, GoodPacket

LEMMA OrderNext == TypeInv /\ OrderInv /\ [Next]_vars => OrderInv'
<1> SUFFICES ASSUME TypeInv, OrderInv, [Next]_vars, NEW b \in Boards, NEW c \in Boards
             PROVE  Ordered(b, taken'[b], ethRxQueue'[b], air'[b][c], app_evt_msgq'[c], ethTxQueue'[c])
    BY DEF OrderInv
<1> DEFINE Goal == Ordered(b, taken'[b], ethRxQueue'[b], air'[b][c], app_evt_msgq'[c], ethTxQueue'[c])
<1>0. /\ DOMAIN ethRxQueue = Boards /\ taken \in [Boards -> Nat]
      /\ ethTxQueue \in [Boards -> Seq(GoodPacket)]
      /\ air = [x \in Boards |-> air[x]] /\ \A x \in Boards : air[x] \in [Boards -> Seq(Numbers(x))]
    BY DEF TypeInv, DataType
<1>1. CASE Modem \/ Shell \/ UNCHANGED vars
    <2>1. /\ Control
          /\ taken' = taken /\ ethRxQueue' = ethRxQueue /\ ethTxQueue' = ethTxQueue
          /\ air'[b][c] \in {air[b][c], <<>>} /\ Notified(c)
        BY <1>1, ControlStep DEF Control, queueVars
    <2>2. Ordered(b, taken[b], ethRxQueue[b], air'[b][c], app_evt_msgq[c], ethTxQueue[c])
        BY <2>1, OrderFacts, NoneFlies
    <2>3. air'[b][c] \in Seq(Nat)
        <3>1. air[b][c] \in Seq(Nat) /\ <<>> \in Seq(Nat)
            BY OrderFacts
        <3> QED
            BY <2>1, <3>1
    <2>4. CASE app_evt_msgq'[c] = app_evt_msgq[c]
        BY <2>1, <2>2, <2>4
    <2>5. CASE app_evt_msgq'[c] # app_evt_msgq[c]
        <3>1. PICK e \in GoodEvent : IsAssociation(e) /\ app_evt_msgq'[c] = Append(app_evt_msgq[c], e)
            BY <2>1, <2>5 DEF Notified
        <3>2. ~Tells(e, b)
            BY <3>1 DEF IsAssociation, Association, Tells
        <3>3. Ordered(b, taken[b], ethRxQueue[b], air'[b][c], Append(app_evt_msgq[c], e), ethTxQueue[c])
            BY <2>2, <2>3, <3>2, OrderFacts, OneMoreEvent
        <3> QED
            BY <2>1, <3>1, <3>3
    <2> QED
        BY <2>4, <2>5
<1>2. ASSUME NEW d \in Boards, RxAppend(d) PROVE Goal
    <2>1. /\ taken' = [taken EXCEPT ![d] = taken[d] + 1]
          /\ ethRxQueue' = [ethRxQueue EXCEPT ![d] = Append(ethRxQueue[d], taken'[d])]
          /\ air' = air /\ app_evt_msgq' = app_evt_msgq /\ ethTxQueue' = ethTxQueue
        BY <1>2 DEF RxAppend, modemVars
    <2>2. CASE b = d
        <3>1. taken'[b] = taken[b] + 1 /\ ethRxQueue'[b] = Append(ethRxQueue[b], taken[b] + 1)
            BY <1>0, <2>1, <2>2
        <3>2. Ordered(b, taken[b] + 1, Append(ethRxQueue[b], taken[b] + 1), air[b][c],
                      app_evt_msgq[c], ethTxQueue[c])
            BY OrderFacts, OneMoreTaken
        <3> QED
            BY <2>1, <3>1, <3>2
    <2>3. CASE b # d
        <3>1. taken'[b] = taken[b] /\ ethRxQueue'[b] = ethRxQueue[b]
            BY <1>0, <2>1, <2>3
        <3> QED
            BY <2>1, <3>1, OrderFacts
    <2> QED
        BY <2>2, <2>3
<1>3. ASSUME NEW d \in Boards, Mac_TxReady(d) PROVE Goal
    <2>1. TxAvailable \in GoodEvent /\ ~Tells(TxAvailable, b)
        BY BoardFacts DEF TxAvailable, GoodEvent, Event, Association, Tells
    <2>2. /\ app_evt_msgq' = Put(app_evt_msgq, d, TxAvailable)
          /\ UNCHANGED <<taken, ethRxQueue, air, ethTxQueue>>
        BY <1>3 DEF Mac_TxReady, modemVars
    <2>3. app_evt_msgq \in [Boards -> Seq(GoodEvent)]
        BY DEF TypeInv, DataType
    <2>4. app_evt_msgq'[c] \in {app_evt_msgq[c], Append(app_evt_msgq[c], TxAvailable)}
        BY <2>1, <2>2, <2>3, PutStep DEF Grown
    <2>5. Ordered(b, taken[b], ethRxQueue[b], air[b][c], Append(app_evt_msgq[c], TxAvailable),
                  ethTxQueue[c])
        BY <2>1, OrderFacts, OneMoreEvent
    <2> QED
        BY <2>2, <2>4, <2>5, OrderFacts
<1>4. ASSUME NEW d \in Boards, EventLoop(d) PROVE Goal
    <2>1. PICK types : Receives(d, types)
        BY <1>4 DEF EventLoop, process_dect_handle_tx, process_dlc_rx_event, process_association,
                    process_association_release_event
    <2>2. /\ app_evt_msgq[d] \in Seq(GoodEvent) /\ app_evt_msgq[d] # <<>>
          /\ app_evt_msgq'[d] = Tail(app_evt_msgq[d])
          /\ \A x \in Boards \ {d} : app_evt_msgq'[x] = app_evt_msgq[x]
          /\ taken' = taken /\ Received(d) = Head(app_evt_msgq[d]) /\ Received(d) \in GoodEvent
        BY <2>1, TakeFacts
    <2>3. Ordered(b, taken[b], ethRxQueue[b], air[b][c], app_evt_msgq'[c], ethTxQueue[c])
        <3>1. c = d => Ordered(b, taken[b], ethRxQueue[b], air[b][c], Tail(app_evt_msgq[c]), ethTxQueue[c])
            BY <2>2, OrderFacts, OneLessEvent
        <3> QED
            BY <2>2, <3>1, OrderFacts
    <2>4. CASE process_dect_handle_tx(d)
        <3>1. ethTxQueue' = ethTxQueue
            BY <2>4 DEF process_dect_handle_tx
        <3>2. app_evt_msgq'[c] \in Seq(GoodEvent)
            BY <2>1, TakeFacts
        <3>3. CASE ethRxQueue'[b] = ethRxQueue[b] /\ air'[b][c] = air[b][c]
            BY <2>2, <2>3, <3>1, <3>3
        <3>4. CASE /\ ethRxQueue[b] # <<>> /\ ethRxQueue'[b] = Tail(ethRxQueue[b])
                   /\ air'[b][c] \in {air[b][c], Append(air[b][c], Head(ethRxQueue[b]))}
            <4>1. /\ Ordered(b, taken[b], Tail(ethRxQueue[b]), air[b][c], app_evt_msgq'[c], ethTxQueue[c])
                  /\ Ordered(b, taken[b], Tail(ethRxQueue[b]), Append(air[b][c], Head(ethRxQueue[b])),
                             app_evt_msgq'[c], ethTxQueue[c])
                BY <2>3, <3>2, <3>4, OrderFacts, OneLessWaits
            <4> QED
                BY <2>2, <3>1, <3>4, <4>1
        <3>5. \/ ethRxQueue'[b] = ethRxQueue[b] /\ air'[b][c] = air[b][c]
              \/ /\ ethRxQueue[b] # <<>> /\ ethRxQueue'[b] = Tail(ethRxQueue[b])
                 /\ air'[b][c] \in {air[b][c], Append(air[b][c], Head(ethRxQueue[b]))}
            <4>1. CASE UNCHANGED <<ethRxQueue, air>>
                BY <4>1
            <4>2. CASE /\ ethRxQueue[d] # <<>>
                       /\ ethRxQueue' = [ethRxQueue EXCEPT ![d] = Tail(ethRxQueue[d])]
                       /\ UNCHANGED air
                BY <1>0, <4>2
            <4>3. ASSUME ethRxQueue[d] # <<>>,
                         ethRxQueue' = [ethRxQueue EXCEPT ![d] = Tail(ethRxQueue[d])],
                         NEW x \in Boards,
                         air' = [air EXCEPT ![d][x] = Append(air[d][x], Head(ethRxQueue[d]))]
                  PROVE  \/ ethRxQueue'[b] = ethRxQueue[b] /\ air'[b][c] = air[b][c]
                         \/ /\ ethRxQueue[b] # <<>> /\ ethRxQueue'[b] = Tail(ethRxQueue[b])
                            /\ air'[b][c] \in {air[b][c], Append(air[b][c], Head(ethRxQueue[b]))}
                <5>1. b # d => ethRxQueue'[b] = ethRxQueue[b] /\ air'[b] = air[b]
                    BY <1>0, <4>3
                <5>2. b = d => /\ ethRxQueue'[b] = Tail(ethRxQueue[b])
                               /\ air'[b] = [air[b] EXCEPT ![x] = Append(air[b][x], Head(ethRxQueue[b]))]
                    BY <1>0, <4>3
                <5>3. b = d => air'[b][c] \in {air[b][c], Append(air[b][c], Head(ethRxQueue[b]))}
                    BY <1>0, <5>2
                <5> QED
                    BY <4>3, <5>1, <5>2, <5>3
            <4> QED
                BY <2>4, <4>1, <4>2, <4>3, TxFacts
        <3> QED
            BY <3>3, <3>4, <3>5
    <2>5. CASE process_dlc_rx_event(d)
        <3>1. /\ ethTxQueue' = [ethTxQueue EXCEPT ![d] = Append(ethTxQueue[d], Packet(Received(d)))]
              /\ UNCHANGED <<ethRxQueue, air>> /\ Receives(d, {"DLC_RX"})
            BY <2>5 DEF process_dlc_rx_event
        <3>2. CASE c # d
            <4>1. ethTxQueue'[c] = ethTxQueue[c]
                BY <1>0, <3>1, <3>2
            <4> QED
                BY <2>2, <2>3, <3>1, <4>1
        <3>3. CASE c = d
            <4>1. Received(c).type = "DLC_RX"
                BY <3>1, <3>3, TakeFacts
            <4>2. /\ Packet(Received(c)) \in GoodPacket
                  /\ Packet(Received(c)).from = Received(c).from /\ Packet(Received(c)).n = Received(c).n
                BY <2>2, <3>3, <4>1, PacketFacts
            <4>3. Packet(Received(c)).from # b \/ Tells(Head(app_evt_msgq[c]), b)
                BY <2>2, <3>3, <4>1, <4>2 DEF Tells
            <4>4. Ordered(b, taken[b], ethRxQueue[b], air[b][c], Tail(app_evt_msgq[c]),
                          Append(ethTxQueue[c], Packet(Received(c))))
                BY <2>2, <3>3, <4>2, <4>3, OrderFacts, OneLessEvent
            <4>5. ethTxQueue'[c] = Append(ethTxQueue[c], Packet(Received(c)))
                BY <1>0, <3>1, <3>3
            <4> QED
                BY <2>2, <3>1, <3>3, <4>4, <4>5
        <3> QED
            BY <3>2, <3>3
    <2>6. CASE process_association(d) \/ process_association_release_event(d)
        <3>1. UNCHANGED <<ethRxQueue, ethTxQueue, air>>
            BY <2>6 DEF process_association, process_association_release_event
        <3> QED
            BY <2>2, <2>3, <3>1
    <2> QED
        BY <1>4, <2>4, <2>5, <2>6 DEF EventLoop
<1>5. ASSUME NEW d \in Boards, NEW x \in Boards, Arrives(d, x) PROVE Goal
    <2>1. /\ UNCHANGED <<taken, ethRxQueue, ethTxQueue>>
          /\ air[d][x] # <<>> /\ air' = [air EXCEPT ![d][x] = Tail(air[d][x])]
          /\ \A y \in Boards \ {x} : app_evt_msgq'[y] = app_evt_msgq[y]
        BY <1>5, ArriveFacts
    <2>2. PICK e \in GoodEvent : /\ Tells(e, d) /\ e.n = Head(air[d][x])
                                 /\ Grown(app_evt_msgq[x], app_evt_msgq'[x], e)
        BY <1>5, ArriveFacts
    <2>3. CASE b = d /\ c = x
        <3>1. air'[b][c] = Tail(air[b][c])
            BY <1>0, <2>1, <2>3
        <3>2. app_evt_msgq'[c] \in {app_evt_msgq[c], Append(app_evt_msgq[c], e)}
            BY <2>2, <2>3 DEF Grown
        <3>3. /\ Ordered(b, taken[b], ethRxQueue[b], Tail(air[b][c]), app_evt_msgq[c], ethTxQueue[c])
              /\ Ordered(b, taken[b], ethRxQueue[b], Tail(air[b][c]), Append(app_evt_msgq[c], e),
                         ethTxQueue[c])
            BY <2>1, <2>2, <2>3, OrderFacts, OneLessFlies
        <3> QED
            BY <2>1, <3>1, <3>2, <3>3
    <2>4. CASE ~(b = d /\ c = x)
        <3>1. air'[b][c] = air[b][c]
            BY <1>0, <2>1, <2>4
        <3>2. CASE c # x
            BY <2>1, <3>1, <3>2, OrderFacts
        <3>3. CASE c = x
            <4>1. ~Tells(e, b)
                BY <2>2, <2>4, <3>3 DEF Tells
            <4>2. app_evt_msgq'[c] \in {app_evt_msgq[c], Append(app_evt_msgq[c], e)}
                BY <2>2, <3>3 DEF Grown
            <4>3. Ordered(b, taken[b], ethRxQueue[b], air[b][c], Append(app_evt_msgq[c], e), ethTxQueue[c])
                BY <4>1, OrderFacts, OneMoreEvent
            <4> QED
                BY <2>1, <3>1, <4>2, <4>3, OrderFacts
        <3> QED
            BY <3>2, <3>3
    <2> QED
        BY <2>3, <2>4
<1> QED
    BY <1>1, <1>2, <1>3, <1>4, <1>5 DEF Next

\* Whatever is dropped and whatever links are made and lost, a board's Ethernet
\* is given another's datagrams in their order, none of them twice, and of each
\* as much as an event has room for.
THEOREM DataInOrder == Spec => []InOrder
<1>1. Init => OrderInv
    <2> SUFFICES ASSUME Init, NEW b \in Boards, NEW c \in Boards
                 PROVE  Ordered(b, taken[b], ethRxQueue[b], air[b][c], app_evt_msgq[c], ethTxQueue[c])
        BY DEF OrderInv
    <2>1. /\ ethRxQueue[b] = <<>> /\ air[b][c] = <<>> /\ app_evt_msgq[c] = <<>> /\ ethTxQueue[c] = <<>>
        BY DEF Init
    <2> QED
        BY <2>1 DEF Ordered, QueueOrder, AirOrder, EventOrder, PacketOrder
<1>2. TypeInv /\ OrderInv => InOrder
    <2> SUFFICES ASSUME TypeInv, OrderInv, NEW c \in Boards,
                        NEW i \in 1..Len(ethTxQueue[c]), NEW j \in 1..Len(ethTxQueue[c])
                 PROVE  LET p == ethTxQueue[c][i]
                            q == ethTxQueue[c][j]
                        IN  /\ p.len = Least(Lengths[p.from][p.n], AppDataLenMax)
                            /\ i < j /\ p.from = q.from => p.n < q.n
        BY DEF InOrder
    <2>1. ethTxQueue[c][i] \in GoodPacket
        BY DEF TypeInv, DataType
    <2> DEFINE b == ethTxQueue[c][i].from
    <2>2. b \in Boards /\ ethTxQueue[c][i].len = CutLen(b, ethTxQueue[c][i].n)
        BY <2>1 DEF GoodPacket
    <2>3. PacketOrder(b, taken[b], ethRxQueue[b], air[b][c], app_evt_msgq[c], ethTxQueue[c])
        BY <2>2 DEF OrderInv, Ordered
    <2> QED
        BY <2>2, <2>3 DEF PacketOrder, CutLen
<1> QED
    BY <1>1, <1>2, TypeInit, TypeNext, OrderNext, PTL DEF Spec

-----------------------------------------------------------------------------
(* The last event of associations, in a queue that grows or shrinks.       *)

LEMMA LastExists ==
    ASSUME NEW q \in Seq(GoodEvent), ~NoneIn(q)
    PROVE  \E i \in 1..Len(q) : LastOf(q, i)
<1> DEFINE after == {n \in Nat : \E i \in 1..Len(q) : IsAssociation(q[i]) /\ n = Len(q) - i}
<1>1. after # {}
    <2>1. PICK i \in 1..Len(q) : IsAssociation(q[i])
        BY DEF NoneIn
    <2>2. Len(q) - i \in after
        BY <2>1
    <2> QED
        BY <2>2
<1>2. \E n \in after : \A m \in after : ~(<<m, n>> \in OpToRel(<, Nat))
    BY <1>1, NatLessThanWellFounded, WFMin
<1>3. PICK n \in after : \A m \in after : ~(m < n)
    BY <1>2 DEF OpToRel
<1>4. PICK i \in 1..Len(q) : IsAssociation(q[i]) /\ n = Len(q) - i
    OBVIOUS
<1>5. ASSUME NEW j \in 1..Len(q), i < j, IsAssociation(q[j]) PROVE FALSE
    <2>1. Len(q) - j \in Nat /\ Len(q) - j < Len(q) - i
        BY <1>5
    <2>2. Len(q) - j \in after
        BY <1>5, <2>1
    <2> QED
        BY <1>3, <1>4, <2>1, <2>2
<1> QED
    BY <1>4, <1>5 DEF LastOf

LEMMA LastAppended ==
    ASSUME NEW q \in Seq(GoodEvent), NEW e \in GoodEvent
    PROVE  /\ ~IsAssociation(e) =>
                /\ NoneIn(Append(q, e)) => NoneIn(q)
                /\ \A i \in 1..Len(Append(q, e)) : LastOf(Append(q, e), i) =>
                      i \in 1..Len(q) /\ LastOf(q, i) /\ Append(q, e)[i] = q[i]
           /\ IsAssociation(e) =>
                /\ ~NoneIn(Append(q, e))
                /\ \A i \in 1..Len(Append(q, e)) : LastOf(Append(q, e), i) => Append(q, e)[i] = e
<1> DEFINE s == Append(q, e)
<1>1. Longer(s, q, e)
    BY AppendIndex
<1> HIDE DEF s
<1>2. NoneIn(s) => NoneIn(q) /\ ~IsAssociation(e)
    BY <1>1 DEF NoneIn, Longer
<1>3. ASSUME NEW i \in 1..Len(s), LastOf(s, i), ~IsAssociation(e)
      PROVE  i \in 1..Len(q) /\ LastOf(q, i) /\ s[i] = q[i]
    <2>1. i \in 1..Len(q) /\ s[i] = q[i]
        BY <1>1, <1>3 DEF LastOf, Longer
    <2> QED
        BY <1>1, <1>3, <2>1 DEF LastOf, Longer
<1>4. ASSUME NEW i \in 1..Len(s), LastOf(s, i), IsAssociation(e) PROVE s[i] = e
    BY <1>1, <1>4 DEF LastOf, Longer
<1> QED
    BY <1>2, <1>3, <1>4 DEF s

LEMMA LastTaken ==
    ASSUME NEW q \in Seq(GoodEvent), q # <<>>
    PROVE  /\ Head(q) = q[1] /\ 1 \in 1..Len(q)
           /\ NoneIn(Tail(q)) => IF IsAssociation(Head(q)) THEN LastOf(q, 1) ELSE NoneIn(q)
           /\ \A i \in 1..Len(Tail(q)) : LastOf(Tail(q), i) =>
                 i + 1 \in 1..Len(q) /\ LastOf(q, i + 1) /\ Tail(q)[i] = q[i + 1]
<1> DEFINE s == Tail(q)
<1>1. Shorter(s, q, Head(q))
    BY TailIndex
<1>2. \A k \in 1..Len(q) : k # 1 => \E i \in 1..Len(s) : k = i + 1 /\ s[i] = q[k]
    BY TailCovers
<1> HIDE DEF s
<1>3. ASSUME NoneIn(s)
      PROVE  IF IsAssociation(Head(q)) THEN LastOf(q, 1) ELSE NoneIn(q)
    <2>1. \A k \in 1..Len(q) : k # 1 => ~IsAssociation(q[k])
        BY <1>2, <1>3 DEF NoneIn
    <2> QED
        BY <1>1, <2>1 DEF NoneIn, LastOf, Shorter
<1>4. ASSUME NEW i \in 1..Len(s), LastOf(s, i)
      PROVE  i + 1 \in 1..Len(q) /\ LastOf(q, i + 1) /\ s[i] = q[i + 1]
    <2>1. i + 1 \in 1..Len(q) /\ s[i] = q[i + 1]
        BY <1>1 DEF Shorter
    <2>2. ASSUME NEW k \in 1..Len(q), i + 1 < k PROVE ~IsAssociation(q[k])
        <3>1. PICK j \in 1..Len(s) : k = j + 1 /\ s[j] = q[k]
            BY <1>2, <2>2
        <3>2. i < j
            BY <2>2, <3>1
        <3> QED
            BY <1>4, <3>1, <3>2 DEF LastOf
    <2> QED
        BY <1>4, <2>1, <2>2 DEF LastOf
<1> QED
    BY <1>1, <1>3, <1>4 DEF s, Shorter

-----------------------------------------------------------------------------
(* What an event more, or one less, does to the FT's belief.               *)

\* A release of r at the end of q would fit.
FitsNext(q, x, r) ==
    \/ /\ \A j \in 1..Len(q) : ~IsIndication(q[j])
       /\ x \in {r, None}
    \/ \E j \in 1..Len(q) :
          /\ IsIndication(q[j]) /\ q[j].from = r
          /\ \A k \in 1..Len(q) : j < k => ~IsIndication(q[k])

LEMMA FitsAppended ==
    ASSUME NEW q \in Seq(GoodEvent), NEW x, Fits(q, x), NEW e \in GoodEvent,
           e.type = "ASSOCIATION_RELEASE" => FitsNext(q, x, e.from)
    PROVE  Fits(Append(q, e), x)
<1> DEFINE s == Append(q, e)
<1>1. Longer(s, q, e)
    BY AppendIndex
<1> HIDE DEF s
<1> SUFFICES ASSUME NEW i \in 1..Len(s), s[i].type = "ASSOCIATION_RELEASE"
             PROVE  \/ /\ \A j \in 1..Len(s) : j < i => ~IsIndication(s[j])
                       /\ x \in {s[i].from, None}
                    \/ \E j \in 1..Len(s) :
                          /\ j < i /\ IsIndication(s[j]) /\ s[j].from = s[i].from
                          /\ \A k \in 1..Len(s) : j < k /\ k < i => ~IsIndication(s[k])
    BY DEF Fits, s
<1>2. \A j \in 1..Len(s) : j < i => j \in 1..Len(q) /\ s[j] = q[j]
    BY <1>1 DEF Longer
<1>3. CASE i \in 1..Len(q) /\ s[i] = q[i]
    <2>1. CASE /\ \A j \in 1..Len(q) : j < i => ~IsIndication(q[j])
               /\ x \in {q[i].from, None}
        BY <1>2, <1>3, <2>1
    <2>2. CASE \E j \in 1..Len(q) :
                  /\ j < i /\ IsIndication(q[j]) /\ q[j].from = q[i].from
                  /\ \A k \in 1..Len(q) : j < k /\ k < i => ~IsIndication(q[k])
        <3>1. PICK j \in 1..Len(q) :
                  /\ j < i /\ IsIndication(q[j]) /\ q[j].from = q[i].from
                  /\ \A k \in 1..Len(q) : j < k /\ k < i => ~IsIndication(q[k])
            BY <2>2
        <3>2. j \in 1..Len(s) /\ s[j] = q[j]
            BY <1>1 DEF Longer
        <3> QED
            BY <1>2, <1>3, <3>1, <3>2
    <2> QED
        BY <1>3, <2>1, <2>2 DEF Fits
<1>4. CASE i = Len(q) + 1 /\ s[i] = e
    <2>1. \A j \in 1..Len(q) : j \in 1..Len(s) /\ s[j] = q[j] /\ j < i
        BY <1>1, <1>4 DEF Longer
    <2>2. FitsNext(q, x, s[i].from)
        BY <1>4
    <2>3. CASE /\ \A j \in 1..Len(q) : ~IsIndication(q[j])
               /\ x \in {s[i].from, None}
        BY <1>2, <2>3
    <2>4. CASE \E j \in 1..Len(q) :
                  /\ IsIndication(q[j]) /\ q[j].from = s[i].from
                  /\ \A k \in 1..Len(q) : j < k => ~IsIndication(q[k])
        BY <1>2, <2>1, <2>4
    <2> QED
        BY <2>2, <2>3, <2>4 DEF FitsNext
<1> QED
    BY <1>1, <1>3, <1>4 DEF Longer

LEMMA FtHearsOther ==
    ASSUME NEW q \in Seq(GoodEvent), NEW l, NEW x, Leads(q, l, x), Fits(q, x),
           NEW e \in GoodEvent, ~IsAssociation(e)
    PROVE  Leads(Append(q, e), l, x) /\ Fits(Append(q, e), x)
<1> DEFINE s == Append(q, e)
<1>1. e.type # "ASSOCIATION_RELEASE"
    BY DEF IsAssociation, Association
<1>2. NoneIn(s) => NoneIn(q)
    BY LastAppended
<1>3. \A i \in 1..Len(s) : LastOf(s, i) => i \in 1..Len(q) /\ LastOf(q, i) /\ s[i] = q[i]
    BY LastAppended
<1>4. Fits(s, x)
    BY <1>1, FitsAppended
<1> HIDE DEF s
<1>5. Leads(s, l, x)
    BY <1>2, <1>3 DEF Leads
<1> QED
    BY <1>4, <1>5 DEF s

LEMMA FtHearsIndication ==
    ASSUME NEW q \in Seq(GoodEvent), NEW x, Fits(q, x),
           NEW e \in GoodEvent, e.type = "ASSOCIATION_IND"
    PROVE  Leads(Append(q, e), {e.from}, x) /\ Fits(Append(q, e), x)
<1> DEFINE s == Append(q, e)
<1>1. IsAssociation(e)
    BY DEF IsAssociation, Association
<1>2. ~NoneIn(s) /\ \A i \in 1..Len(s) : LastOf(s, i) => s[i] = e
    BY <1>1, LastAppended
<1>3. Fits(s, x)
    BY FitsAppended
<1> HIDE DEF s
<1>4. Leads(s, {e.from}, x)
    BY <1>2 DEF Leads
<1> QED
    BY <1>3, <1>4 DEF s

LEMMA FtHearsRelease ==
    ASSUME NEW q \in Seq(GoodEvent), NEW x, NEW e \in GoodEvent, e.type = "ASSOCIATION_RELEASE",
           Leads(q, {e.from}, x), Fits(q, x)
    PROVE  Leads(Append(q, e), {}, x) /\ Fits(Append(q, e), x)
<1> DEFINE s == Append(q, e)
<1>1. IsAssociation(e)
    BY DEF IsAssociation, Association
<1>2. ~NoneIn(s) /\ \A i \in 1..Len(s) : LastOf(s, i) => s[i] = e
    BY <1>1, LastAppended
<1>3. \A k \in 1..Len(q) : ~IsAssociation(q[k]) => ~IsIndication(q[k])
    BY DEF IsAssociation, IsIndication, Association
<1>4. FitsNext(q, x, e.from)
    <2>1. CASE NoneIn(q)
        BY <1>3, <2>1 DEF Leads, FitsNext, NoneIn
    <2>2. CASE ~NoneIn(q)
        <3>1. PICK i \in 1..Len(q) : LastOf(q, i)
            BY <2>2, LastExists
        <3>2. IsIndication(q[i]) /\ q[i].from = e.from
            BY <3>1 DEF Leads, IsIndication
        <3>3. \A k \in 1..Len(q) : i < k => ~IsIndication(q[k])
            BY <1>3, <3>1 DEF LastOf
        <3> QED
            BY <3>2, <3>3 DEF FitsNext
    <2> QED
        BY <2>1, <2>2
<1>5. Fits(s, x)
    BY <1>4, FitsAppended
<1> HIDE DEF s
<1>6. Leads(s, {}, x)
    BY <1>2 DEF Leads
<1> QED
    BY <1>5, <1>6 DEF s

\* What a board that believes in x believes once it has handled the event e.
BeliefAfter(e, x) ==
    IF e.type \in {"ASSOCIATION_IND", "NTF_ASSOCIATION"} THEN e.from
    ELSE IF e.type = "ASSOCIATION_RELEASE" /\ e.from = x THEN None ELSE x

LEMMA FtHandles ==
    ASSUME NEW q \in Seq(GoodEvent), q # <<>>, NEW l, NEW x, Leads(q, l, x), Fits(q, x),
           Head(q).type # "NTF_ASSOCIATION"
    PROVE  Leads(Tail(q), l, BeliefAfter(Head(q), x)) /\ Fits(Tail(q), BeliefAfter(Head(q), x))
<1> DEFINE s == Tail(q)
           h == Head(q)
           y == BeliefAfter(h, x)
<1>1. /\ h = q[1] /\ 1 \in 1..Len(q) /\ h \in GoodEvent
      /\ NoneIn(s) => IF IsAssociation(h) THEN LastOf(q, 1) ELSE NoneIn(q)
      /\ \A i \in 1..Len(s) : LastOf(s, i) =>
            i + 1 \in 1..Len(q) /\ LastOf(q, i + 1) /\ s[i] = q[i + 1]
    BY LastTaken
<1>2. Shorter(s, q, h)
    BY TailIndex
<1>3. \A k \in 1..Len(q) : k # 1 => \E i \in 1..Len(s) : k = i + 1 /\ s[i] = q[k]
    BY TailCovers
<1>4. h.type = "ASSOCIATION_IND" => h.from # None
    BY <1>1, BoardFacts DEF GoodEvent, Association
<1> HIDE DEF s, h
<1>5. h.type = "ASSOCIATION_RELEASE" => x \in {h.from, None} /\ y = None
    <2>1. \A j \in 1..Len(q) : ~(j < 1)
        OBVIOUS
    <2> QED
        BY <1>1, <2>1 DEF Fits, BeliefAfter
<1>6. h.type = "ASSOCIATION_IND" => y = h.from
    BY DEF BeliefAfter
<1>7. h.type \notin {"ASSOCIATION_IND", "ASSOCIATION_RELEASE"} => y = x /\ ~IsAssociation(h)
    BY DEF BeliefAfter, IsAssociation, Association, h
<1> HIDE DEF y
<1>8. NoneIn(s) => l = {y} \ {None}
    <2>1. CASE h.type = "ASSOCIATION_IND"
        BY <1>1, <1>4, <1>6, <2>1 DEF Leads, IsAssociation, Association
    <2>2. CASE h.type = "ASSOCIATION_RELEASE"
        BY <1>1, <1>5, <2>2 DEF Leads, IsAssociation, Association
    <2>3. CASE h.type \notin {"ASSOCIATION_IND", "ASSOCIATION_RELEASE"}
        BY <1>1, <1>7, <2>3 DEF Leads
    <2> QED
        BY <2>1, <2>2, <2>3
<1>9. Leads(s, l, y)
    BY <1>1, <1>8 DEF Leads
<1>10. Fits(s, y)
    <2> SUFFICES ASSUME NEW i \in 1..Len(s), s[i].type = "ASSOCIATION_RELEASE"
                 PROVE  \/ /\ \A j \in 1..Len(s) : j < i => ~IsIndication(s[j])
                           /\ y \in {s[i].from, None}
                        \/ \E j \in 1..Len(s) :
                              /\ j < i /\ IsIndication(s[j]) /\ s[j].from = s[i].from
                              /\ \A k \in 1..Len(s) : j < k /\ k < i => ~IsIndication(s[k])
        BY DEF Fits
    <2>1. i + 1 \in 1..Len(q) /\ s[i] = q[i + 1] /\ 1 < i + 1
        BY <1>2 DEF Shorter
    <2>2. \A j \in 1..Len(s) : j + 1 \in 1..Len(q) /\ s[j] = q[j + 1] /\ (j < i => j + 1 < i + 1)
        BY <1>2 DEF Shorter
    <2>3. CASE /\ \A j \in 1..Len(q) : j < i + 1 => ~IsIndication(q[j])
               /\ x \in {q[i + 1].from, None}
        <3>1. \A j \in 1..Len(s) : j < i => ~IsIndication(s[j])
            BY <2>2, <2>3
        <3>2. h.type # "ASSOCIATION_IND"
            BY <1>1, <2>1, <2>3 DEF IsIndication
        <3>3. y \in {x, None}
            BY <1>5, <1>7, <3>2
        <3> QED
            BY <2>1, <2>3, <3>1, <3>3
    <2>4. CASE \E j \in 1..Len(q) :
                  /\ j < i + 1 /\ IsIndication(q[j]) /\ q[j].from = q[i + 1].from
                  /\ \A k \in 1..Len(q) : j < k /\ k < i + 1 => ~IsIndication(q[k])
        <3>1. PICK j \in 1..Len(q) :
                  /\ j < i + 1 /\ IsIndication(q[j]) /\ q[j].from = q[i + 1].from
                  /\ \A k \in 1..Len(q) : j < k /\ k < i + 1 => ~IsIndication(q[k])
            BY <2>4
        <3>2. CASE j = 1
            <4>1. y = s[i].from
                BY <1>1, <1>6, <2>1, <3>1, <3>2 DEF IsIndication
            <4>2. \A k \in 1..Len(s) : k < i => ~IsIndication(s[k])
                <5>1. ASSUME NEW k \in 1..Len(s), k < i PROVE ~IsIndication(s[k])
                    <6>1. 1 < k + 1 /\ k + 1 < i + 1 /\ k + 1 \in 1..Len(q) /\ s[k] = q[k + 1]
                        BY <2>2, <5>1
                    <6> QED
                        BY <3>1, <3>2, <6>1
                <5> QED
                    BY <5>1
            <4> QED
                BY <4>1, <4>2
        <3>3. CASE j # 1
            <4>1. PICK m \in 1..Len(s) : j = m + 1 /\ s[m] = q[j]
                BY <1>3, <3>3
            <4>2. m < i
                BY <3>1, <4>1
            <4>3. \A k \in 1..Len(s) : m < k /\ k < i => ~IsIndication(s[k])
                <5>1. ASSUME NEW k \in 1..Len(s), m < k, k < i PROVE ~IsIndication(s[k])
                    <6>1. j < k + 1 /\ k + 1 < i + 1 /\ k + 1 \in 1..Len(q) /\ s[k] = q[k + 1]
                        BY <2>2, <4>1, <5>1
                    <6> QED
                        BY <3>1, <6>1
                <5> QED
                    BY <5>1
            <4> QED
                BY <2>1, <3>1, <4>1, <4>2, <4>3
        <3> QED
            BY <3>2, <3>3
    <2> QED
        BY <2>1, <2>3, <2>4 DEF Fits
<1> QED
    BY <1>9, <1>10 DEF s, y, h

-----------------------------------------------------------------------------
(* The same for a PT, and who is told what.                                *)

LEMMA PtHears ==
    ASSUME NEW q \in Seq(GoodEvent), NEW p, NEW x, NEW e \in GoodEvent
    PROVE  /\ \A l : LeadsPT(q, p, l, x) /\ ~IsAssociation(e) => LeadsPT(Append(q, e), p, l, x)
           /\ \A l : e.type = "NTF_ASSOCIATION" /\ p \in l => LeadsPT(Append(q, e), p, l, x)
           /\ \A l : e.type = "ASSOCIATION_RELEASE" /\ p \notin l => LeadsPT(Append(q, e), p, l, x)
<1> DEFINE s == Append(q, e)
<1>1. /\ ~IsAssociation(e) => (NoneIn(s) => NoneIn(q))
      /\ ~IsAssociation(e) =>
            \A i \in 1..Len(s) : LastOf(s, i) => i \in 1..Len(q) /\ LastOf(q, i) /\ s[i] = q[i]
      /\ IsAssociation(e) => ~NoneIn(s) /\ \A i \in 1..Len(s) : LastOf(s, i) => s[i] = e
    BY LastAppended
<1>2. e.type \in {"NTF_ASSOCIATION", "ASSOCIATION_RELEASE"} => IsAssociation(e)
    BY DEF IsAssociation, Association
<1> HIDE DEF s
<1>3. ASSUME NEW l, LeadsPT(q, p, l, x), ~IsAssociation(e) PROVE LeadsPT(s, p, l, x)
    BY <1>1, <1>3 DEF LeadsPT
<1>4. ASSUME NEW l, e.type = "NTF_ASSOCIATION", p \in l PROVE LeadsPT(s, p, l, x)
    BY <1>1, <1>2, <1>4 DEF LeadsPT
<1>5. ASSUME NEW l, e.type = "ASSOCIATION_RELEASE", p \notin l PROVE LeadsPT(s, p, l, x)
    BY <1>1, <1>2, <1>5 DEF LeadsPT
<1> QED
    BY <1>3, <1>4, <1>5 DEF s

LEMMA PtHandles ==
    ASSUME NEW q \in Seq(GoodEvent), q # <<>>, NEW p, NEW l, NEW x \in {FT, None},
           LeadsPT(q, p, l, x), ToldPT(q)
    PROVE  LeadsPT(Tail(q), p, l, BeliefAfter(Head(q), x))
<1> DEFINE s == Tail(q)
           h == Head(q)
           y == BeliefAfter(h, x)
<1>1. /\ h = q[1] /\ 1 \in 1..Len(q)
      /\ NoneIn(s) => IF IsAssociation(h) THEN LastOf(q, 1) ELSE NoneIn(q)
      /\ \A i \in 1..Len(s) : LastOf(s, i) =>
            i + 1 \in 1..Len(q) /\ LastOf(q, i + 1) /\ s[i] = q[i + 1]
    BY LastTaken
<1>2. IsAssociation(h) => h.from = FT /\ h.type \in {"NTF_ASSOCIATION", "ASSOCIATION_RELEASE"}
    BY <1>1 DEF ToldPT, IsAssociation, Association
<1>3. /\ IsAssociation(h) => (y = FT <=> h.type = "NTF_ASSOCIATION")
      /\ ~IsAssociation(h) => y = x
    BY <1>2, BoardFacts DEF BeliefAfter, IsAssociation, Association
<1> HIDE DEF s, h, y
<1>4. NoneIn(s) => (y = FT <=> p \in l)
    BY <1>1, <1>3 DEF LeadsPT
<1>5. LeadsPT(s, p, l, y)
    BY <1>1, <1>4 DEF LeadsPT
<1> QED
    BY <1>5 DEF s, y, h

LEMMA ToldMore ==
    ASSUME NEW q \in Seq(GoodEvent), NEW e \in GoodEvent
    PROVE  /\ ToldFT(q) /\ (IsAssociation(e) => e.type # "NTF_ASSOCIATION" /\ e.from \in PTs)
                 => ToldFT(Append(q, e))
           /\ ToldPT(q) /\ (IsAssociation(e) => e.type # "ASSOCIATION_IND" /\ e.from = FT)
                 => ToldPT(Append(q, e))
<1> DEFINE s == Append(q, e)
<1>1. Longer(s, q, e)
    BY AppendIndex
<1> HIDE DEF s
<1>2. ToldFT(q) /\ (IsAssociation(e) => e.type # "NTF_ASSOCIATION" /\ e.from \in PTs) => ToldFT(s)
    BY <1>1 DEF ToldFT, Longer
<1>3. ToldPT(q) /\ (IsAssociation(e) => e.type # "ASSOCIATION_IND" /\ e.from = FT) => ToldPT(s)
    BY <1>1 DEF ToldPT, Longer
<1> QED
    BY <1>2, <1>3 DEF s

LEMMA ToldLess ==
    ASSUME NEW q \in Seq(GoodEvent), q # <<>>
    PROVE  /\ ToldFT(q) => ToldFT(Tail(q)) /\ (IsAssociation(Head(q)) =>
                              Head(q).type # "NTF_ASSOCIATION" /\ Head(q).from \in PTs)
           /\ ToldPT(q) => ToldPT(Tail(q)) /\ (IsAssociation(Head(q)) =>
                              Head(q).type # "ASSOCIATION_IND" /\ Head(q).from = FT)
<1> DEFINE s == Tail(q)
           h == Head(q)
<1>1. Shorter(s, q, h)
    BY TailIndex
<1> HIDE DEF s, h
<1>2. ToldFT(q) => ToldFT(s) /\ (IsAssociation(h) => h.type # "NTF_ASSOCIATION" /\ h.from \in PTs)
    BY <1>1 DEF ToldFT, Shorter
<1>3. ToldPT(q) => ToldPT(s) /\ (IsAssociation(h) => h.type # "ASSOCIATION_IND" /\ h.from = FT)
    BY <1>1 DEF ToldPT, Shorter
<1> QED
    BY <1>2, <1>3 DEF s, h

-----------------------------------------------------------------------------
(* The commands.                                                           *)

LEMMA CommandValues ==
    /\ InitMac = <<"deactivate", "reset_link_state">>
    /\ ConfigureFt = <<"cluster_configure", "ft_mode">>
    /\ InitMac \o ConfigureFt
           = <<"deactivate", "reset_link_state", "cluster_configure", "ft_mode">>
    /\ <<"reset_link_state">> \o ConfigureFt
           = <<"reset_link_state", "cluster_configure", "ft_mode">>
<1>1. /\ InitMac = <<"deactivate", "reset_link_state">>
      /\ ConfigureFt = <<"cluster_configure", "ft_mode">>
    BY DEF InitMac, ConfigureFt
<1>2. /\ InitMac \in Seq(CommandSteps) /\ Len(InitMac) = 2
      /\ InitMac[1] = "deactivate" /\ InitMac[2] = "reset_link_state"
    BY <1>1 DEF CommandSteps
<1>3. /\ ConfigureFt \in Seq(CommandSteps) /\ Len(ConfigureFt) = 2
      /\ ConfigureFt[1] = "cluster_configure" /\ ConfigureFt[2] = "ft_mode"
    BY <1>1 DEF CommandSteps
<1>4. InitMac \o ConfigureFt
          = <<"deactivate", "reset_link_state", "cluster_configure", "ft_mode">>
    <2> DEFINE s == InitMac \o ConfigureFt
               t == <<"deactivate", "reset_link_state", "cluster_configure", "ft_mode">>
    <2>1. t \in Seq(CommandSteps) /\ Len(t) = 4
        BY DEF CommandSteps
    <2>2. /\ s \in Seq(CommandSteps) /\ Len(s) = 4
          /\ \A i \in 1..4 : s[i] = IF i <= 2 THEN InitMac[i] ELSE ConfigureFt[i - 2]
        <3>1. /\ s \in Seq(CommandSteps) /\ Len(s) = 2 + 2
              /\ \A i \in 1..2 + 2 : s[i] = IF i <= 2 THEN InitMac[i] ELSE ConfigureFt[i - 2]
            BY <1>2, <1>3, ConcatProperties
        <3> QED
            BY <3>1
    <2>3. s[1] = t[1] /\ s[2] = t[2] /\ s[3] = t[3] /\ s[4] = t[4]
        BY <1>2, <1>3, <2>2
    <2> HIDE DEF s, t
    <2>4. \A i \in 1..Len(s) : s[i] = t[i]
        BY <2>2, <2>3
    <2>5. s = t
        BY <2>1, <2>2, <2>4, SeqEqual
    <2> QED
        BY <2>5 DEF s, t
<1>5. <<"reset_link_state">> \o ConfigureFt
          = <<"reset_link_state", "cluster_configure", "ft_mode">>
    <2> DEFINE r == <<"reset_link_state">>
               s == r \o ConfigureFt
               t == <<"reset_link_state", "cluster_configure", "ft_mode">>
    <2>1. /\ t \in Seq(CommandSteps) /\ Len(t) = 3 /\ r \in Seq(CommandSteps) /\ Len(r) = 1
          /\ r[1] = "reset_link_state"
        BY DEF CommandSteps
    <2> HIDE DEF r
    <2>2. /\ s \in Seq(CommandSteps) /\ Len(s) = 3
          /\ \A i \in 1..3 : s[i] = IF i <= 1 THEN r[i] ELSE ConfigureFt[i - 1]
        <3>1. /\ s \in Seq(CommandSteps) /\ Len(s) = Len(r) + Len(ConfigureFt)
              /\ \A i \in 1..Len(r) + Len(ConfigureFt) :
                    s[i] = IF i <= Len(r) THEN r[i] ELSE ConfigureFt[i - Len(r)]
            BY <1>3, <2>1, ConcatProperties
        <3> QED
            BY <1>3, <2>1, <3>1
    <2>3. s[1] = t[1] /\ s[2] = t[2] /\ s[3] = t[3]
        BY <1>3, <2>1, <2>2
    <2> HIDE DEF s, t
    <2>4. \A i \in 1..Len(s) : s[i] = t[i]
        BY <2>2, <2>3
    <2>5. s = t
        BY <2>1, <2>2, <2>4, SeqEqual
    <2> QED
        BY <2>5 DEF s, t, r
<1> QED
    BY <1>1, <1>4, <1>5

LEMMA TodoStep ==
    ASSUME TodoInv, todo # <<>>, todo' = Tail(todo)
    PROVE  /\ TodoInv'
           /\ At("deactivate") => At("reset_link_state")'
           /\ At("reset_link_state") => ~Unsettled'
           /\ ~Unsettled => ~Unsettled'
<1>1. CASE todo = InitMac
    BY <1>1, CommandValues DEF TodoInv, At, Unsettled
<1>2. CASE todo = InitMac \o ConfigureFt
    <2>1. todo = <<"deactivate", "reset_link_state", "cluster_configure", "ft_mode">>
        BY <1>2, CommandValues
    <2>2. todo' = <<"reset_link_state", "cluster_configure", "ft_mode">>
        BY <2>1
    <2>3. todo' = <<"reset_link_state">> \o ConfigureFt
        BY <2>2, CommandValues
    <2>4. At("reset_link_state")' /\ ~At("reset_link_state") /\ Unsettled
        BY <2>1, <2>2 DEF At, Unsettled
    <2> QED
        BY <2>3, <2>4 DEF TodoInv
<1>3. CASE todo = <<"reset_link_state">>
    BY <1>3, CommandValues DEF TodoInv, At, Unsettled
<1>4. CASE todo = <<"reset_link_state">> \o ConfigureFt
    <2>1. todo = <<"reset_link_state", "cluster_configure", "ft_mode">>
        BY <1>4, CommandValues
    <2>2. todo' = <<"cluster_configure", "ft_mode">>
        BY <2>1
    <2>3. todo' = ConfigureFt
        BY <2>2, CommandValues
    <2>4. ~At("deactivate") /\ ~Unsettled' /\ Unsettled
        BY <2>1, <2>2 DEF At, Unsettled
    <2> QED
        BY <2>3, <2>4 DEF TodoInv
<1>5. CASE todo = ConfigureFt
    BY <1>5, CommandValues DEF TodoInv, At, Unsettled
<1>6. CASE todo = <<"ft_mode">>
    BY <1>6, CommandValues DEF TodoInv, At, Unsettled
<1> QED
    BY <1>1, <1>2, <1>3, <1>4, <1>5, <1>6 DEF TodoInv

-----------------------------------------------------------------------------
(* The beliefs are kept.                                                   *)

LEMMA QueueFacts ==
    ASSUME TypeInv
    PROVE  /\ app_evt_msgq[FT] \in Seq(GoodEvent)
           /\ \A p \in PTs : app_evt_msgq[p] \in Seq(GoodEvent)
           /\ link \subseteq PTs /\ mishap \in BOOLEAN
           /\ peer \in [Boards -> Boards \cup {None}]
BY BoardFacts DEF TypeInv, DataType, ControlType

\* Steps in which some queues get events of other kinds, or nothing happens to
\* what the beliefs are about.
LEMMA OtherEvents ==
    ASSUME TypeInv, BeliefInv, UNCHANGED <<peer, todo, beaconing, link, mishap>>,
           \A b \in Boards : \/ app_evt_msgq'[b] = app_evt_msgq[b]
                             \/ \E e \in GoodEvent : /\ ~IsAssociation(e)
                                                     /\ app_evt_msgq'[b] = Append(app_evt_msgq[b], e)
    PROVE  BeliefInv'
<1>1. ASSUME NEW p \in PTs
      PROVE  /\ ToldPT(app_evt_msgq[p]) => ToldPT(app_evt_msgq'[p])
             /\ LeadsPT(app_evt_msgq[p], p, link, peer[p]) => LeadsPT(app_evt_msgq'[p], p, link, peer[p])
    <2>1. p \in Boards
        BY BoardFacts
    <2>2. CASE app_evt_msgq'[p] = app_evt_msgq[p]
        BY <2>2
    <2>3. CASE app_evt_msgq'[p] # app_evt_msgq[p]
        <3>1. PICK e \in GoodEvent : ~IsAssociation(e) /\ app_evt_msgq'[p] = Append(app_evt_msgq[p], e)
            BY <2>1, <2>3
        <3> QED
            BY <3>1, QueueFacts, PtHears, ToldMore
    <2> QED
        BY <2>2, <2>3
<1>2. /\ ToldFT(app_evt_msgq[FT]) => ToldFT(app_evt_msgq'[FT])
      /\ Leads(app_evt_msgq[FT], link, peer[FT]) /\ Fits(app_evt_msgq[FT], peer[FT])
            => Leads(app_evt_msgq'[FT], link, peer[FT]) /\ Fits(app_evt_msgq'[FT], peer[FT])
    <2>1. CASE app_evt_msgq'[FT] = app_evt_msgq[FT]
        BY <2>1
    <2>2. CASE app_evt_msgq'[FT] # app_evt_msgq[FT]
        <3>1. PICK e \in GoodEvent : ~IsAssociation(e) /\ app_evt_msgq'[FT] = Append(app_evt_msgq[FT], e)
            BY <2>2, BoardFacts
        <3> QED
            BY <3>1, QueueFacts, FtHearsOther, ToldMore
    <2> QED
        BY <2>1, <2>2
<1>3. ToldInv'
    BY <1>1, <1>2 DEF BeliefInv, ToldInv
<1>4. TodoInv' /\ LinkInv'
    BY DEF BeliefInv, TodoInv, LinkInv, At
<1>5. BeliefPT'
    BY <1>1 DEF BeliefInv, BeliefPT
<1>6. BeliefFT'
    BY <1>2 DEF BeliefInv, BeliefFT, Unsettled, At
<1> QED
    BY <1>3, <1>4, <1>5, <1>6 DEF BeliefInv

LEMMA LoopFacts ==
    ASSUME TypeInv, NEW d \in Boards, EventLoop(d)
    PROVE  /\ app_evt_msgq[d] \in Seq(GoodEvent) /\ app_evt_msgq[d] # <<>>
           /\ app_evt_msgq'[d] = Tail(app_evt_msgq[d])
           /\ peer'[d] = BeliefAfter(Head(app_evt_msgq[d]), peer[d])
           /\ \A c \in Boards \ {d} : app_evt_msgq'[c] = app_evt_msgq[c] /\ peer'[c] = peer[c]
           /\ UNCHANGED <<todo, beaconing, link, mishap>>
<1> DEFINE handlers == {{"TX_AVAILABLE"}, {"DLC_RX"}, {"ASSOCIATION_IND", "NTF_ASSOCIATION"},
                        {"ASSOCIATION_RELEASE"}}
<1>1. PICK types \in handlers :
          /\ Receives(d, types)
          /\ types \in {{"TX_AVAILABLE"}, {"DLC_RX"}} => peer' = peer
          /\ types = {"ASSOCIATION_IND", "NTF_ASSOCIATION"} =>
                peer' = [peer EXCEPT ![d] = Received(d).from]
          /\ types = {"ASSOCIATION_RELEASE"} =>
                peer' = IF Received(d).from = peer[d] THEN [peer EXCEPT ![d] = None] ELSE peer
    <2>1. CASE process_dect_handle_tx(d)
        BY <2>1 DEF process_dect_handle_tx
    <2>2. CASE process_dlc_rx_event(d)
        BY <2>2 DEF process_dlc_rx_event
    <2>3. CASE process_association(d)
        BY <2>3 DEF process_association
    <2>4. CASE process_association_release_event(d)
        BY <2>4 DEF process_association_release_event
    <2> QED
        BY <2>1, <2>2, <2>3, <2>4 DEF EventLoop
<1>2. /\ app_evt_msgq[d] \in Seq(GoodEvent) /\ app_evt_msgq[d] # <<>>
      /\ app_evt_msgq'[d] = Tail(app_evt_msgq[d])
      /\ Received(d) = Head(app_evt_msgq[d]) /\ Received(d).type \in types
      /\ \A c \in Boards \ {d} : app_evt_msgq'[c] = app_evt_msgq[c]
      /\ UNCHANGED <<ftVars, beaconing, link, mishap>>
    BY <1>1, TakeFacts
<1>3. /\ peer'[d] = BeliefAfter(Received(d), peer[d])
      /\ \A c \in Boards \ {d} : peer'[c] = peer[c]
    BY <1>1, <1>2, QueueFacts DEF BeliefAfter
<1> QED
    BY <1>2, <1>3 DEF ftVars

LEMMA LoopBelief ==
    ASSUME TypeInv, BeliefInv, NEW d \in Boards, EventLoop(d)
    PROVE  BeliefInv'
<1>1. /\ app_evt_msgq[d] \in Seq(GoodEvent) /\ app_evt_msgq[d] # <<>>
      /\ app_evt_msgq'[d] = Tail(app_evt_msgq[d])
      /\ peer'[d] = BeliefAfter(Head(app_evt_msgq[d]), peer[d])
      /\ \A c \in Boards \ {d} : app_evt_msgq'[c] = app_evt_msgq[c] /\ peer'[c] = peer[c]
      /\ UNCHANGED <<todo, beaconing, link, mishap>>
    BY LoopFacts
<1>2. d = FT \/ d \in PTs
    BY DEF Boards
<1>3. \A h : /\ ~IsAssociation(h) => \A x : BeliefAfter(h, x) = x
             /\ \A x : BeliefAfter(h, x) \in {h.from, x, None}
    BY DEF BeliefAfter, IsAssociation, Association
<1>4. TodoInv' /\ LinkInv'
    BY <1>1 DEF BeliefInv, TodoInv, LinkInv, At
<1>5. CASE d = FT
    <2> DEFINE h == Head(app_evt_msgq[FT])
    <2>1. /\ ToldFT(app_evt_msgq'[FT])
          /\ IsAssociation(h) => h.type # "NTF_ASSOCIATION" /\ h.from \in PTs
        BY <1>1, <1>5, ToldLess DEF BeliefInv, ToldInv
    <2>2. \A p \in PTs : app_evt_msgq'[p] = app_evt_msgq[p] /\ peer'[p] = peer[p]
        BY <1>1, <1>5, BoardFacts
    <2>3. peer[FT] \in PTs \cup {None} /\ peer'[FT] = BeliefAfter(h, peer[FT])
        BY <1>1, <1>5 DEF BeliefInv, ToldInv
    <2>4. h.type # "NTF_ASSOCIATION"
        BY <2>1 DEF IsAssociation, Association
    <2> HIDE DEF h
    <2>5. peer'[FT] \in PTs \cup {None}
        BY <1>3, <2>1, <2>3
    <2>6. ToldInv' /\ BeliefPT'
        BY <1>1, <2>1, <2>2, <2>5 DEF BeliefInv, ToldInv, BeliefPT
    <2>7. ASSUME ~mishap', ~Unsettled'
          PROVE  Leads(app_evt_msgq'[FT], link', peer'[FT]) /\ Fits(app_evt_msgq'[FT], peer'[FT])
        <3>1. Leads(app_evt_msgq[FT], link, peer[FT]) /\ Fits(app_evt_msgq[FT], peer[FT])
            BY <1>1, <2>7 DEF BeliefInv, BeliefFT, Unsettled, At
        <3>2. /\ Leads(Tail(app_evt_msgq[FT]), link, BeliefAfter(h, peer[FT]))
              /\ Fits(Tail(app_evt_msgq[FT]), BeliefAfter(h, peer[FT]))
            BY <1>1, <1>5, <2>4, <3>1, FtHandles DEF h
        <3> QED
            BY <1>1, <1>5, <2>3, <3>2
    <2> QED
        BY <1>4, <2>6, <2>7 DEF BeliefInv, BeliefFT
<1>6. CASE d \in PTs
    <2> DEFINE h == Head(app_evt_msgq[d])
    <2>1. /\ ToldPT(app_evt_msgq[d]) /\ ToldPT(app_evt_msgq'[d])
          /\ IsAssociation(h) => h.from = FT
        BY <1>1, <1>6, ToldLess DEF BeliefInv, ToldInv
    <2>2. /\ app_evt_msgq'[FT] = app_evt_msgq[FT] /\ peer'[FT] = peer[FT]
          /\ \A p \in PTs \ {d} : app_evt_msgq'[p] = app_evt_msgq[p] /\ peer'[p] = peer[p]
        BY <1>1, <1>6, BoardFacts
    <2>3. peer[d] \in {FT, None}
        BY <1>6 DEF BeliefInv, ToldInv
    <2>4. LeadsPT(app_evt_msgq[d], d, link, peer[d])
              => LeadsPT(app_evt_msgq'[d], d, link, peer'[d])
        BY <1>1, <2>1, <2>3, PtHandles
    <2> HIDE DEF h
    <2>5. peer'[d] \in {FT, None}
        BY <1>1, <1>3, <2>1, <2>3 DEF h
    <2>6. ToldInv'
        BY <2>1, <2>2, <2>5 DEF BeliefInv, ToldInv
    <2>7. BeliefPT'
        BY <1>1, <1>6, <2>2, <2>4 DEF BeliefInv, BeliefPT
    <2>8. BeliefFT'
        BY <1>1, <2>2 DEF BeliefInv, BeliefFT, Unsettled, At
    <2> QED
        BY <1>4, <2>6, <2>7, <2>8 DEF BeliefInv
<1> QED
    BY <1>2, <1>5, <1>6

LEMMA AssociateBelief ==
    ASSUME TypeInv, BeliefInv, NEW p \in PTs, Associate(p)
    PROVE  BeliefInv'
<1> DEFINE ind == About("ASSOCIATION_IND", p)
           ntf == About("NTF_ASSOCIATION", FT)
<1>1. /\ Grown(app_evt_msgq[FT], app_evt_msgq'[FT], ind)
      /\ Grown(app_evt_msgq[p], app_evt_msgq'[p], ntf)
      /\ \A b \in Boards \ {FT, p} : app_evt_msgq'[b] = app_evt_msgq[b]
      /\ UNCHANGED <<peer, todo, beaconing>> /\ beaconing /\ link' = link \cup {p}
      /\ ~mishap' => /\ ~mishap /\ link = {}
                     /\ ~Full(app_evt_msgq[FT]) /\ ~Full(app_evt_msgq[p])
    BY AssociateFacts DEF ftVars
<1>2. /\ ind \in GoodEvent /\ ind.type = "ASSOCIATION_IND" /\ ind.from = p
      /\ ntf \in GoodEvent /\ ntf.type = "NTF_ASSOCIATION" /\ ntf.from = FT
    BY NoticeFacts, BoardFacts DEF Association
<1> HIDE DEF ind, ntf
<1>3. \A c \in PTs \ {p} : app_evt_msgq'[c] = app_evt_msgq[c]
    BY <1>1, BoardFacts
<1>4. ToldInv'
    <2>1. ToldFT(app_evt_msgq'[FT])
        BY <1>1, <1>2, QueueFacts, ToldMore DEF Grown, BeliefInv, ToldInv
    <2>2. ToldPT(app_evt_msgq'[p])
        BY <1>1, <1>2, QueueFacts, ToldMore DEF Grown, BeliefInv, ToldInv
    <2> QED
        BY <1>1, <1>3, <2>1, <2>2 DEF BeliefInv, ToldInv
<1>5. TodoInv' /\ LinkInv'
    BY <1>1 DEF BeliefInv, TodoInv, LinkInv, At
<1>6. ASSUME ~mishap', NEW c \in PTs PROVE LeadsPT(app_evt_msgq'[c], c, link', peer'[c])
    <2>1. CASE c = p
        <3>1. app_evt_msgq'[p] = Append(app_evt_msgq[p], ntf)
            BY <1>1, <1>6 DEF Grown
        <3> QED
            BY <1>1, <1>2, <2>1, <3>1, QueueFacts, PtHears
    <2>2. CASE c # p
        <3>1. LeadsPT(app_evt_msgq[c], c, link, peer[c]) /\ (c \in link' <=> c \in link)
            BY <1>1, <1>6, <2>2 DEF BeliefInv, BeliefPT
        <3> QED
            BY <1>1, <1>3, <2>2, <3>1 DEF LeadsPT
    <2> QED
        BY <2>1, <2>2
<1>7. ASSUME ~mishap', ~Unsettled'
      PROVE  Leads(app_evt_msgq'[FT], link', peer'[FT]) /\ Fits(app_evt_msgq'[FT], peer'[FT])
    <2>1. Fits(app_evt_msgq[FT], peer[FT])
        BY <1>1, <1>7 DEF BeliefInv, BeliefFT, Unsettled, At
    <2>2. app_evt_msgq'[FT] = Append(app_evt_msgq[FT], ind) /\ link' = {p} /\ peer' = peer
        BY <1>1, <1>7 DEF Grown
    <2>3. /\ Leads(Append(app_evt_msgq[FT], ind), {p}, peer[FT])
          /\ Fits(Append(app_evt_msgq[FT], ind), peer[FT])
        BY <1>2, <2>1, QueueFacts, FtHearsIndication
    <2> QED
        BY <2>2, <2>3
<1> QED
    BY <1>4, <1>5, <1>6, <1>7 DEF BeliefInv, BeliefPT, BeliefFT

LEMMA FailureBelief ==
    ASSUME TypeInv, BeliefInv, NEW p \in PTs, AssociationFails(p)
    PROVE  BeliefInv'
<1> DEFINE ind == About("ASSOCIATION_IND", p)
<1>1. /\ Grown(app_evt_msgq[FT], app_evt_msgq'[FT], ind)
      /\ \A b \in Boards \ {FT} : app_evt_msgq'[b] = app_evt_msgq[b]
      /\ UNCHANGED <<peer, todo, beaconing, link>> /\ mishap' = TRUE
    BY FailureFacts DEF ftVars
<1>2. ind \in GoodEvent /\ ind.type = "ASSOCIATION_IND" /\ ind.from = p
    BY NoticeFacts, BoardFacts DEF Association
<1> HIDE DEF ind
<1>3. \A c \in PTs : app_evt_msgq'[c] = app_evt_msgq[c]
    BY <1>1, BoardFacts
<1>4. ToldFT(app_evt_msgq'[FT])
    BY <1>1, <1>2, QueueFacts, ToldMore DEF Grown, BeliefInv, ToldInv
<1>5. ToldInv' /\ TodoInv' /\ LinkInv'
    BY <1>1, <1>3, <1>4 DEF BeliefInv, ToldInv, TodoInv, LinkInv
<1> QED
    BY <1>1, <1>5 DEF BeliefInv, BeliefPT, BeliefFT

\* Links that end, whoever is told of it at the FT.
LEMMA CutBelief ==
    ASSUME TypeInv, BeliefInv, NEW gone \in SUBSET PTs, NEW told \in PTs \cup {None},
           Cut(gone, told), UNCHANGED peer
    PROVE  /\ ToldInv' /\ BeliefPT' /\ link' = link \ gone /\ (~mishap' => ~mishap)
           /\ ~mishap' /\ told # None =>
                 app_evt_msgq'[FT] = Append(app_evt_msgq[FT], About("ASSOCIATION_RELEASE", told))
<1> DEFINE rel == About("ASSOCIATION_RELEASE", FT)
           toFT == About("ASSOCIATION_RELEASE", told)
<1>1. /\ \A p \in gone : Grown(app_evt_msgq[p], app_evt_msgq'[p], rel)
      /\ told # None => Grown(app_evt_msgq[FT], app_evt_msgq'[FT], toFT)
      /\ told = None => app_evt_msgq'[FT] = app_evt_msgq[FT]
      /\ \A p \in PTs \ gone : app_evt_msgq'[p] = app_evt_msgq[p]
      /\ link' = link \ gone /\ peer' = peer
      /\ ~mishap' => ~mishap /\ \A p \in gone : ~Full(app_evt_msgq[p])
      /\ ~mishap' /\ told # None => ~Full(app_evt_msgq[FT])
    BY CutFacts, BoardFacts
<1>2. /\ rel \in GoodEvent /\ rel.type = "ASSOCIATION_RELEASE" /\ rel.from = FT
      /\ told # None => /\ toFT \in GoodEvent /\ toFT.type = "ASSOCIATION_RELEASE"
                        /\ toFT.from = told /\ told \in PTs
    BY NoticeFacts, BoardFacts DEF Association
<1> HIDE DEF rel, toFT
<1>3. ToldFT(app_evt_msgq'[FT])
    <2>1. ToldFT(app_evt_msgq[FT])
        BY DEF BeliefInv, ToldInv
    <2>2. told # None => ToldFT(Append(app_evt_msgq[FT], toFT))
        BY <1>2, <2>1, QueueFacts, ToldMore
    <2> QED
        BY <1>1, <2>1, <2>2 DEF Grown
<1>4. ASSUME NEW p \in PTs PROVE ToldPT(app_evt_msgq'[p])
    <2>1. ToldPT(app_evt_msgq[p])
        BY DEF BeliefInv, ToldInv
    <2>2. ToldPT(Append(app_evt_msgq[p], rel))
        BY <1>2, <2>1, QueueFacts, ToldMore
    <2> QED
        BY <1>1, <2>1, <2>2 DEF Grown
<1>5. ASSUME ~mishap', NEW p \in PTs PROVE LeadsPT(app_evt_msgq'[p], p, link', peer'[p])
    <2>1. CASE p \in gone
        <3>1. app_evt_msgq'[p] = Append(app_evt_msgq[p], rel) /\ p \notin link'
            BY <1>1, <1>5, <2>1 DEF Grown
        <3> QED
            BY <1>1, <1>2, <3>1, QueueFacts, PtHears
    <2>2. CASE p \notin gone
        <3>1. LeadsPT(app_evt_msgq[p], p, link, peer[p]) /\ (p \in link' <=> p \in link)
            BY <1>1, <1>5, <2>2 DEF BeliefInv, BeliefPT
        <3> QED
            BY <1>1, <2>2, <3>1 DEF LeadsPT
    <2> QED
        BY <2>1, <2>2
<1>6. ToldInv'
    BY <1>1, <1>3, <1>4 DEF BeliefInv, ToldInv
<1>7. ~mishap' /\ told # None => app_evt_msgq'[FT] = Append(app_evt_msgq[FT], toFT)
    BY <1>1 DEF Grown
<1> QED
    BY <1>1, <1>5, <1>6, <1>7 DEF BeliefPT, toFT

LEMMA LostBelief ==
    ASSUME TypeInv, BeliefInv, NEW p \in PTs, LinkLost(p)
    PROVE  BeliefInv'
<1> DEFINE rel == About("ASSOCIATION_RELEASE", p)
<1>1. Cut({p}, p) /\ UNCHANGED <<peer, todo, beaconing>> /\ p \in link /\ p # None
    BY BoardFacts DEF LinkLost, ftVars
<1>2. /\ ToldInv' /\ BeliefPT' /\ link' = link \ {p} /\ (~mishap' => ~mishap)
      /\ ~mishap' => app_evt_msgq'[FT] = Append(app_evt_msgq[FT], rel)
    BY <1>1, CutBelief
<1>3. TodoInv' /\ LinkInv'
    BY <1>1, <1>2 DEF BeliefInv, TodoInv, LinkInv, At
<1>4. ASSUME ~mishap', ~Unsettled'
      PROVE  Leads(app_evt_msgq'[FT], link', peer'[FT]) /\ Fits(app_evt_msgq'[FT], peer'[FT])
    <2>1. Leads(app_evt_msgq[FT], link, peer[FT]) /\ Fits(app_evt_msgq[FT], peer[FT])
        BY <1>1, <1>2, <1>4 DEF BeliefInv, BeliefFT, Unsettled, At
    <2>2. link = {p}
        <3>1. CASE NoneIn(app_evt_msgq[FT])
            BY <1>1, <2>1, <3>1 DEF Leads
        <3>2. CASE ~NoneIn(app_evt_msgq[FT])
            <4>1. PICK i \in 1..Len(app_evt_msgq[FT]) : LastOf(app_evt_msgq[FT], i)
                BY <3>2, QueueFacts, LastExists
            <4> QED
                BY <1>1, <2>1, <4>1 DEF Leads
        <3> QED
            BY <3>1, <3>2
    <2>3. rel \in GoodEvent /\ rel.type = "ASSOCIATION_RELEASE" /\ rel.from = p
        BY NoticeFacts, BoardFacts DEF Association
    <2> HIDE DEF rel
    <2>4. /\ Leads(Append(app_evt_msgq[FT], rel), {}, peer[FT])
          /\ Fits(Append(app_evt_msgq[FT], rel), peer[FT])
        BY <2>1, <2>2, <2>3, QueueFacts, FtHearsRelease
    <2> QED
        BY <1>1, <1>2, <1>4, <2>2, <2>4
<1> QED
    BY <1>2, <1>3, <1>4 DEF BeliefInv, BeliefFT

LEMMA ShellBelief ==
    ASSUME TypeInv, BeliefInv, Shell
    PROVE  BeliefInv'
<1>0. ToldInv /\ TodoInv /\ LinkInv /\ BeliefPT /\ BeliefFT
    BY DEF BeliefInv
<1>1. ASSUME UNCHANGED <<app_evt_msgq, peer, link>>, ~mishap' => ~mishap
      PROVE  ToldInv' /\ BeliefPT'
    BY <1>0, <1>1 DEF ToldInv, BeliefPT
<1>2. CASE cmd_ft
    <2>1. /\ UNCHANGED <<app_evt_msgq, peer, link, beaconing>>
          /\ ~mishap' => ~mishap /\ ~(ft_post_scan /\ beaconing)
          /\ todo' = (IF ft_post_scan THEN <<"reset_link_state">> ELSE InitMac) \o ConfigureFt
        BY <1>2 DEF cmd_ft, modemVars
    <2>2. CASE ft_post_scan
        <3>1. todo' = <<"reset_link_state">> \o ConfigureFt
            BY <2>1, <2>2
        <3>2. todo' = <<"reset_link_state", "cluster_configure", "ft_mode">>
            BY <3>1, CommandValues
        <3>3. Unsettled' /\ TodoInv'
            BY <3>1, <3>2 DEF Unsettled, At, TodoInv
        <3>4. LinkInv'
            BY <1>0, <2>1, <2>2 DEF LinkInv
        <3> QED
            BY <1>1, <2>1, <3>3, <3>4 DEF BeliefInv, BeliefFT
    <2>3. CASE ~ft_post_scan
        <3>1. todo' = InitMac \o ConfigureFt
            BY <2>1, <2>3
        <3>2. todo' = <<"deactivate", "reset_link_state", "cluster_configure", "ft_mode">>
            BY <3>1, CommandValues
        <3>3. Unsettled' /\ ~At("reset_link_state")' /\ TodoInv'
            BY <3>1, <3>2 DEF Unsettled, At, TodoInv
        <3>4. LinkInv'
            BY <1>0, <2>1, <3>3 DEF LinkInv
        <3> QED
            BY <1>1, <2>1, <3>3, <3>4 DEF BeliefInv, BeliefFT
    <2> QED
        BY <2>2, <2>3
<1>3. CASE cmd_scan
    <2>1. UNCHANGED <<app_evt_msgq, peer, todo, link, beaconing, mishap>>
        BY <1>3 DEF cmd_scan, modemVars
    <2> QED
        BY <2>1, OtherEvents
<1>4. CASE cmd_stop
    <2>1. UNCHANGED <<peer, beaconing>> /\ todo' = InitMac
        BY <1>4 DEF cmd_stop
    <2>2. Unsettled' /\ ~At("reset_link_state")' /\ TodoInv'
        BY <2>1, CommandValues DEF Unsettled, At, TodoInv
    <2>3. ToldInv' /\ BeliefPT' /\ link' \subseteq link
        <3>1. CASE Linked(FT, peer[FT])
            <4>1. peer[FT] \in PTs
                BY <3>1, QueueFacts DEF Linked
            <4>2. PICK told \in {peer[FT], None} : Cut({peer[FT]}, told)
                BY <1>4, <3>1 DEF cmd_stop
            <4> QED
                BY <2>1, <4>1, <4>2, CutBelief
        <3>2. CASE ~Linked(FT, peer[FT])
            <4>1. UNCHANGED <<link, app_evt_msgq, mishap>>
                BY <1>4, <3>2 DEF cmd_stop
            <4> QED
                BY <1>1, <2>1, <4>1
        <3> QED
            BY <3>1, <3>2
    <2>4. LinkInv'
        BY <1>0, <2>1, <2>2, <2>3 DEF LinkInv
    <2> QED
        BY <2>2, <2>3, <2>4 DEF BeliefInv, BeliefFT
<1>5. CASE Deactivate
    <2>1. /\ todo # <<>> /\ todo' = Tail(todo) /\ At("deactivate") /\ beaconing' = FALSE
          /\ Cut(link, None) /\ UNCHANGED peer
        BY <1>5 DEF Deactivate, At
    <2>2. TodoInv' /\ Unsettled'
        BY <1>0, <2>1, TodoStep DEF Unsettled
    <2>3. ToldInv' /\ BeliefPT' /\ link' = {}
        BY <2>1, QueueFacts, CutBelief
    <2>4. LinkInv'
        BY <2>1, <2>3 DEF LinkInv
    <2> QED
        BY <2>2, <2>3, <2>4 DEF BeliefInv, BeliefFT
<1>6. CASE reset_link_state
    <2>1. /\ todo # <<>> /\ todo' = Tail(todo) /\ At("reset_link_state")
          /\ peer' = [peer EXCEPT ![FT] = None]
          /\ mishap' = (mishap \/ IndicationWaits)
          /\ UNCHANGED <<app_evt_msgq, beaconing, link>>
        BY <1>6 DEF reset_link_state, At, modemVars
    <2>2. TodoInv' /\ ~Unsettled'
        BY <1>0, <2>1, TodoStep
    <2>3. peer'[FT] = None /\ \A p \in PTs : peer'[p] = peer[p]
        BY <2>1, QueueFacts, BoardFacts
    <2>4. ToldInv' /\ BeliefPT'
        BY <1>0, <2>1, <2>3 DEF ToldInv, BeliefPT
    <2>5. LinkInv'
        BY <1>0, <2>1, <2>2 DEF LinkInv, Unsettled
    <2>6. ASSUME ~mishap'
          PROVE  Leads(app_evt_msgq'[FT], link', peer'[FT]) /\ Fits(app_evt_msgq'[FT], peer'[FT])
        <3>1. ~mishap /\ ~IndicationWaits
            BY <2>1, <2>6
        <3>2. link = {}
            BY <1>0, <2>1, <3>1 DEF LinkInv
        <3>3. \A i \in 1..Len(app_evt_msgq[FT]) : app_evt_msgq[FT][i].type # "ASSOCIATION_IND"
            BY <3>1 DEF IndicationWaits
        <3>4. Leads(app_evt_msgq[FT], {}, None) /\ Fits(app_evt_msgq[FT], None)
            BY <3>3 DEF Leads, Fits, IsIndication
        <3> QED
            BY <2>1, <2>3, <3>2, <3>4
    <2> QED
        BY <2>2, <2>4, <2>5, <2>6 DEF BeliefInv, BeliefFT
<1>7. CASE FtSteps
    <2>1. /\ todo # <<>> /\ todo' = Tail(todo) /\ ~Unsettled
          /\ (beaconing' = beaconing \/ beaconing')
          /\ UNCHANGED <<app_evt_msgq, peer, link, mishap>>
        BY <1>7 DEF FtSteps, At, Unsettled
    <2>2. TodoInv' /\ ~Unsettled'
        BY <1>0, <2>1, TodoStep
    <2>3. ToldInv' /\ BeliefPT'
        BY <1>1, <2>1
    <2>4. LinkInv'
        BY <1>0, <2>1, <2>2 DEF LinkInv, Unsettled
    <2>5. BeliefFT'
        BY <1>0, <2>1, <2>2 DEF BeliefFT
    <2> QED
        BY <2>2, <2>3, <2>4, <2>5 DEF BeliefInv
<1> QED
    BY <1>2, <1>3, <1>4, <1>5, <1>6, <1>7 DEF Shell, Steps

LEMMA BeliefNext == TypeInv /\ BeliefInv /\ [Next]_vars => BeliefInv'
<1> SUFFICES ASSUME TypeInv, BeliefInv, [Next]_vars PROVE BeliefInv'
    OBVIOUS
<1>1. CASE UNCHANGED vars
    <2>1. UNCHANGED <<app_evt_msgq, peer, todo, beaconing, link, mishap>>
        BY <1>1 DEF vars, ftVars, modemVars
    <2> QED
        BY <2>1, OtherEvents
<1>2. ASSUME NEW b \in Boards, RxAppend(b) PROVE BeliefInv'
    <2>1. UNCHANGED <<app_evt_msgq, peer, todo, beaconing, link, mishap>>
        BY <1>2 DEF RxAppend, ftVars, modemVars
    <2> QED
        BY <2>1, OtherEvents
<1>3. ASSUME NEW b \in Boards, Mac_TxReady(b) PROVE BeliefInv'
    <2>1. /\ UNCHANGED <<peer, todo, beaconing, link, mishap>>
          /\ app_evt_msgq' = Put(app_evt_msgq, b, TxAvailable)
        BY <1>3 DEF Mac_TxReady, ftVars, modemVars
    <2>2. TxAvailable \in GoodEvent /\ ~IsAssociation(TxAvailable)
        BY BoardFacts DEF TxAvailable, GoodEvent, Event, Association, IsAssociation
    <2>3. app_evt_msgq \in [Boards -> Seq(GoodEvent)]
        BY DEF TypeInv, DataType
    <2>4. /\ Grown(app_evt_msgq[b], app_evt_msgq'[b], TxAvailable)
          /\ \A c \in Boards \ {b} : app_evt_msgq'[c] = app_evt_msgq[c]
        BY <2>1, <2>2, <2>3, PutStep
    <2>5. \A c \in Boards : \/ app_evt_msgq'[c] = app_evt_msgq[c]
                            \/ app_evt_msgq'[c] = Append(app_evt_msgq[c], TxAvailable)
        BY <2>4 DEF Grown
    <2> QED
        BY <2>1, <2>2, <2>5, OtherEvents
<1>4. ASSUME NEW b \in Boards, NEW c \in Boards, Arrives(b, c) PROVE BeliefInv'
    <2>1. /\ UNCHANGED <<peer, todo, beaconing, link, mishap>>
          /\ \A d \in Boards \ {c} : app_evt_msgq'[d] = app_evt_msgq[d]
        BY <1>4, ArriveFacts DEF ftVars
    <2>2. PICK e \in GoodEvent : Tells(e, b) /\ Grown(app_evt_msgq[c], app_evt_msgq'[c], e)
        BY <1>4, ArriveFacts
    <2>3. ~IsAssociation(e)
        BY <2>2 DEF Tells, IsAssociation, Association
    <2>4. \A d \in Boards : \/ app_evt_msgq'[d] = app_evt_msgq[d]
                            \/ app_evt_msgq'[d] = Append(app_evt_msgq[d], e)
        BY <2>1, <2>2 DEF Grown
    <2> QED
        BY <2>1, <2>3, <2>4, OtherEvents
<1> QED
    BY <1>1, <1>2, <1>3, <1>4, LoopBelief, AssociateBelief, FailureBelief, LostBelief, ShellBelief
       DEF Next, Modem

\* When every notification is handled and no command is under way, the FT's
\* ft_child_* and the PTs' pt_associated name the links that the modems have,
\* unless one of the mishaps happened.
THEOREM PeersKnown == Spec => []KnownPeers
<1>1. Init => BeliefInv
    <2> SUFFICES ASSUME Init PROVE BeliefInv
        OBVIOUS
    <2>1. /\ \A b \in Boards : app_evt_msgq[b] = <<>> /\ peer[b] = None
          /\ todo = <<>> /\ ~beaconing /\ link = {} /\ ~mishap
        BY DEF Init
    <2>2. /\ app_evt_msgq[FT] = <<>> /\ peer[FT] = None
          /\ \A p \in PTs : app_evt_msgq[p] = <<>> /\ peer[p] = None
        BY <2>1, BoardFacts
    <2>3. ToldInv /\ TodoInv /\ LinkInv
        BY <2>1, <2>2 DEF ToldInv, ToldFT, ToldPT, TodoInv, LinkInv, At
    <2>4. BeliefPT
        BY <2>1, <2>2, BoardFacts DEF BeliefPT, LeadsPT
    <2>5. BeliefFT
        BY <2>1, <2>2 DEF BeliefFT, Leads, Fits
    <2> QED
        BY <2>3, <2>4, <2>5 DEF BeliefInv
<1>2. BeliefInv => KnownPeers
    <2> SUFFICES ASSUME BeliefInv, ~mishap, todo = <<>>
                 PROVE  /\ Settled(FT) => link = {peer[FT]} \ {None}
                        /\ \A p \in PTs : Settled(p) => (peer[p] = FT <=> p \in link)
        BY DEF KnownPeers
    <2>1. \A b : Settled(b) <=> NoneIn(app_evt_msgq[b])
        BY DEF Settled, NoneIn, IsAssociation
    <2>2. ~Unsettled
        BY DEF Unsettled, At
    <2> QED
        BY <2>1, <2>2 DEF BeliefInv, BeliefFT, BeliefPT, Leads, LeadsPT
<1> QED
    BY <1>1, <1>2, TypeInit, TypeNext, BeliefNext, PTL DEF Spec
=============================================================================
