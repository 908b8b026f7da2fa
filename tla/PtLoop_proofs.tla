---------------------------- MODULE PtLoop_proofs ----------------------------
(***************************************************************************)
(* Proofs about PtLoop: for any number of slots in a frame, any width of    *)
(* slotCounter and any faults of the modem.  A file of lemmas about the     *)
(* modem's sequence of operations comes first, then an invariant at a time. *)
(***************************************************************************)
EXTENDS PtLoop, SequenceTheorems, TLAPS

-----------------------------------------------------------------------------
(* The inductive invariants.                                               *)

\* The places where the modem has an uplink, and a reception that has heard
\* nothing yet.
Uplink(s, i) == s[i].handle = "PT_TX"
Unheard(s, h, i) == s[i].handle = h /\ ~s[i].heard

\* Behind its first "a" operations the modem has a downlink with its uplink,
\* and these with the beacon before them.
HasSlot(s, a) ==
    \E j, k \in 1..Len(s) : a < j /\ j < k /\ Unheard(s, "PT_RX", j) /\ Uplink(s, k)
HasFrame(s, a) ==
    \E l \in 1..Len(s) : a < l /\ Unheard(s, "BEACON_LATCH_RX", l) /\ HasSlot(s, l)

\* In each of its states a PT that follows the FT has all of the operations
\* ahead that the next states will need.
Ahead ==
    /\ ptState # "IDLE"
    /\ ptState = "WAIT_FOR_BEACON" /\ pc = "resync" =>
          \E i \in 1..Len(ops) : Unheard(ops, "BEACON_RX", i)
    /\ ptState = "WAIT_FOR_LATCH_BEACON" => HasFrame(ops, 0)
    /\ ptState = "SCHEDULED_DOWNLINK" => HasSlot(ops, 0)
    /\ ptState = "SCHEDULED_UPLINK" =>
          \E u \in 1..Len(ops) :
             /\ Uplink(ops, u)
             /\ IF slotCounter = 0 THEN HasFrame(ops, u) ELSE HasSlot(ops, u)

\* So it is from LoopState on until something asks it to resynchronise or the
\* wait for a beacon times out, if the modem has no faults.
AheadInv ==
    faults = {} /\ ~timedOut /\ pc \in {"listen", "resync"} /\ resync_sem = 0 => Ahead

\* What slotCounter may be in each state, unless the modem refused an
\* operation.
CountedInv ==
    "schedule" \notin faults =>
        /\ slotCounter \in 0..SlotsPerFrame
        /\ ptState \in {"WAIT_FOR_LATCH_BEACON", "SCHEDULED_DOWNLINK"} => slotCounter # 0

-----------------------------------------------------------------------------
(* What becomes of a sequence of operations, place by place.               *)

LEMMA NewOps == \A h \in Handles : NewOp(h) \in Op
BY DEF NewOp, Op

LEMMA TakenFacts ==
    ASSUME NEW h \in Handles, NEW taken
    PROVE  /\ Taken(h, taken) \in Seq(Op)
           /\ h \in taken => Len(Taken(h, taken)) = 1 /\ Taken(h, taken)[1] = NewOp(h)
           /\ h \notin taken => Len(Taken(h, taken)) = 0
<1>1. NewOp(h) \in Op
    BY NewOps
<1>2. CASE h \in taken
    <2>1. Taken(h, taken) = <<NewOp(h)>>
        BY <1>2 DEF Taken
    <2> QED
        BY <1>1, <1>2, <2>1
<1>3. CASE h \notin taken
    <2>1. Taken(h, taken) = <<>>
        BY <1>3 DEF Taken
    <2> QED
        BY <1>3, <2>1
<1> QED
    BY <1>2, <1>3

\* t begins with s.
Grown(s, t) ==
    /\ Len(s) <= Len(t)
    /\ \A i \in 1..Len(s) : i \in 1..Len(t) /\ t[i] = s[i]

LEMMA LengthFacts ==
    ASSUME NEW s \in Seq(Op)
    PROVE  /\ Len(s) \in Nat
           /\ \A i \in 1..Len(s) : i \in Nat /\ s[i] \in Op
OBVIOUS

\* A call more or less at the end.
LEMMA CallFacts ==
    ASSUME NEW s \in Seq(Op), NEW h \in Handles, NEW taken
    PROVE  LET t == s \o Taken(h, taken) IN
           /\ t \in Seq(Op) /\ Grown(s, t)
           /\ h \in taken => Len(t) = Len(s) + 1 /\ t[Len(s) + 1] = NewOp(h)
           /\ h \notin taken => Len(t) = Len(s)
<1> DEFINE w == Taken(h, taken)
           t == s \o w
<1>1. /\ w \in Seq(Op)
      /\ h \in taken => Len(w) = 1 /\ w[1] = NewOp(h)
      /\ h \notin taken => Len(w) = 0
    BY TakenFacts
<1>2. /\ t \in Seq(Op) /\ Len(t) = Len(s) + Len(w)
      /\ \A i \in 1..Len(s) + Len(w) : t[i] = IF i <= Len(s) THEN s[i] ELSE w[i - Len(s)]
    BY <1>1, ConcatProperties
<1>3. Len(s) \in Nat /\ Len(w) \in Nat
    BY <1>1, LengthFacts
<1> HIDE DEF w, t
<1>4. Grown(s, t)
    BY <1>2, <1>3 DEF Grown
<1>5. ASSUME h \in taken PROVE Len(t) = Len(s) + 1 /\ t[Len(s) + 1] = NewOp(h)
    <2>1. Len(w) = 1 /\ w[1] = NewOp(h)
        BY <1>1, <1>5
    <2>2. Len(s) + 1 \in 1..Len(s) + Len(w) /\ ~(Len(s) + 1 <= Len(s)) /\ (Len(s) + 1) - Len(s) = 1
        BY <1>3, <2>1
    <2>3. t[Len(s) + 1] = w[(Len(s) + 1) - Len(s)]
        BY <1>2, <2>2
    <2> QED
        BY <1>2, <2>1, <2>2, <2>3
<1>6. h \notin taken => Len(t) = Len(s)
    BY <1>1, <1>2, <1>3
<1>7. /\ t \in Seq(Op) /\ Grown(s, t)
      /\ h \in taken => Len(t) = Len(s) + 1 /\ t[Len(s) + 1] = NewOp(h)
      /\ h \notin taken => Len(t) = Len(s)
    BY <1>2, <1>4, <1>5, <1>6
<1> QED
    BY <1>7 DEF t, w

LEMMA GrownTwice ==
    ASSUME NEW r \in Seq(Op), NEW s \in Seq(Op), NEW t \in Seq(Op), Grown(r, s), Grown(s, t)
    PROVE  Grown(r, t)
BY LengthFacts DEF Grown

\* The calls of a handler.
LEMMA ScheduledFacts ==
    ASSUME NEW s \in Seq(Op), NEW taken
    PROVE  LET t == Scheduled(s, taken) IN
           /\ t \in Seq(Op) /\ Grown(s, t)
           /\ "PT_TX" \in taken => Len(s) < Len(t) /\ Uplink(t, Len(t))
           /\ SlotCalls \subseteq taken => HasSlot(t, Len(s))
           /\ FrameCalls \subseteq taken => HasFrame(t, Len(s))
<1> DEFINE a == s \o Taken("BEACON_LATCH_RX", taken)
           b == a \o Taken("PT_RX", taken)
           t == b \o Taken("PT_TX", taken)
<1>h. "BEACON_LATCH_RX" \in Handles /\ "PT_RX" \in Handles /\ "PT_TX" \in Handles
    BY DEF Handles
<1>1. /\ a \in Seq(Op) /\ Grown(s, a)
      /\ "BEACON_LATCH_RX" \in taken => Len(a) = Len(s) + 1 /\ a[Len(s) + 1] = NewOp("BEACON_LATCH_RX")
    BY <1>h, CallFacts
<1> HIDE DEF a
<1>2. /\ b \in Seq(Op) /\ Grown(a, b)
      /\ "PT_RX" \in taken => Len(b) = Len(a) + 1 /\ b[Len(a) + 1] = NewOp("PT_RX")
    BY <1>h, <1>1, CallFacts
<1> HIDE DEF b
<1>3. /\ t \in Seq(Op) /\ Grown(b, t)
      /\ "PT_TX" \in taken => Len(t) = Len(b) + 1 /\ t[Len(b) + 1] = NewOp("PT_TX")
    BY <1>h, <1>2, CallFacts
<1> HIDE DEF t
<1>4. Len(s) \in Nat /\ Len(a) \in Nat /\ Len(b) \in Nat /\ Len(t) \in Nat
    BY <1>1, <1>2, <1>3, LengthFacts
<1>5. Grown(s, b) /\ Grown(s, t) /\ Grown(a, t)
    BY <1>1, <1>2, <1>3, GrownTwice
<1>6. Len(s) <= Len(a) /\ Len(a) <= Len(b) /\ Len(b) <= Len(t)
    BY <1>1, <1>2, <1>3 DEF Grown
<1>7. "PT_TX" \in taken => Len(s) < Len(t) /\ Uplink(t, Len(t))
    BY <1>3, <1>4, <1>6 DEF Uplink, NewOp
<1>8. ASSUME SlotCalls \subseteq taken PROVE HasSlot(t, Len(a))
    <2>1. "PT_RX" \in taken /\ "PT_TX" \in taken
        BY <1>8 DEF SlotCalls
    <2>2. Len(b) \in 1..Len(t) /\ Len(t) \in 1..Len(t) /\ Len(a) < Len(b) /\ Len(b) < Len(t)
        BY <1>2, <1>3, <1>4, <2>1
    <2>3. t[Len(b)] = NewOp("PT_RX")
        <3>1. Len(b) \in 1..Len(b)
            BY <1>2, <1>4, <2>1
        <3>2. t[Len(b)] = b[Len(b)]
            BY <1>3, <3>1 DEF Grown
        <3> QED
            BY <1>2, <2>1, <3>2
    <2>4. Unheard(t, "PT_RX", Len(b)) /\ Uplink(t, Len(t))
        BY <1>7, <2>1, <2>3 DEF Unheard, NewOp
    <2> QED
        BY <2>2, <2>4 DEF HasSlot
<1>9. SlotCalls \subseteq taken => HasSlot(t, Len(s))
    BY <1>4, <1>6, <1>8 DEF HasSlot
<1>10. ASSUME FrameCalls \subseteq taken PROVE HasFrame(t, Len(s))
    <2>1. "BEACON_LATCH_RX" \in taken /\ SlotCalls \subseteq taken
        BY <1>10 DEF FrameCalls
    <2>2. Len(a) \in 1..Len(a) /\ Len(a) \in 1..Len(t) /\ Len(s) < Len(a)
        BY <1>1, <1>4, <1>6, <2>1
    <2>3. t[Len(a)] = NewOp("BEACON_LATCH_RX")
        <3>1. t[Len(a)] = a[Len(a)]
            BY <1>5, <2>2 DEF Grown
        <3> QED
            BY <1>1, <2>1, <3>1
    <2>4. Unheard(t, "BEACON_LATCH_RX", Len(a))
        BY <2>3 DEF Unheard, NewOp
    <2> QED
        BY <1>8, <2>1, <2>2, <2>4 DEF HasFrame
<1>11. /\ t \in Seq(Op) /\ Grown(s, t)
       /\ "PT_TX" \in taken => Len(s) < Len(t) /\ Uplink(t, Len(t))
       /\ SlotCalls \subseteq taken => HasSlot(t, Len(s))
       /\ FrameCalls \subseteq taken => HasFrame(t, Len(s))
    BY <1>3, <1>5, <1>7, <1>9, <1>10
<1>12. t = Scheduled(s, taken)
    BY DEF t, b, a, Scheduled
<1> QED
    BY <1>11, <1>12

\* The operation at the head has heard a packet.
LEMMA HeardFacts ==
    ASSUME ops \in Seq(Op), ops # <<>>
    PROVE  /\ Heard \in Seq(Op) /\ Heard # <<>> /\ Len(Heard) = Len(ops) /\ Len(ops) \in Nat /\ 1 <= Len(ops)
           /\ Heard[1].handle = ops[1].handle /\ Heard[1].doomed = ops[1].doomed /\ Heard[1].heard
           /\ \A i \in 1..Len(ops) : i # 1 => Heard[i] = ops[i]
           /\ \A i \in 1..Len(ops) : Heard[i].handle = ops[i].handle /\ Heard[i].doomed = ops[i].doomed
<1>1. Len(ops) \in Nat /\ 1 <= Len(ops) /\ ops[1] \in Op
    OBVIOUS
<1>2. [ops[1] EXCEPT !.heard = TRUE] \in Op
    BY <1>1 DEF Op
<1>3. Heard = [ops EXCEPT ![1] = [ops[1] EXCEPT !.heard = TRUE]]
    BY DEF Heard
<1>4. Heard \in Seq(Op) /\ Len(Heard) = Len(ops)
    BY <1>1, <1>2, <1>3
<1>5. Heard[1] = [ops[1] EXCEPT !.heard = TRUE]
    <2>1. 1 \in DOMAIN ops
        BY <1>1
    <2> QED
        BY <1>3, <2>1
<1>6. \A i \in 1..Len(ops) : i # 1 => Heard[i] = ops[i]
    BY <1>3
<1>7. /\ Heard[1].handle = ops[1].handle /\ Heard[1].doomed = ops[1].doomed /\ Heard[1].heard
    BY <1>1, <1>5 DEF Op
<1>8. Heard # <<>>
    BY <1>1, <1>4
<1> QED
    BY <1>1, <1>4, <1>6, <1>7, <1>8

\* t is s without its i-th operation.
Cut(s, t, i) ==
    /\ Len(t) = Len(s) - 1
    /\ \A k \in 1..Len(s) : k < i => k \in 1..Len(t) /\ t[k] = s[k]
    /\ \A k \in 1..Len(s) : i < k => k - 1 \in 1..Len(t) /\ t[k - 1] = s[k]
    /\ \A k \in 1..Len(t) : t[k] = IF k < i THEN s[k] ELSE s[k + 1]

LEMMA RemoveFacts ==
    ASSUME NEW s \in Seq(Op), NEW i \in 1..Len(s)
    PROVE  RemoveAt(s, i) \in Seq(Op) /\ Cut(s, RemoveAt(s, i), i)
<1> DEFINE a == SubSeq(s, 1, i - 1)
           b == SubSeq(s, i + 1, Len(s))
           t == a \o b
<1>1. Len(s) \in Nat /\ i \in Nat /\ 1 <= i /\ i <= Len(s)
    BY LengthFacts
<1>2. /\ \A k \in 1..i - 1 : s[k] \in Op
      /\ \A k \in i + 1..Len(s) : s[k] \in Op
    BY <1>1, LengthFacts
<1>3. /\ a \in Seq(Op) /\ Len(a) = i - 1
      /\ \A k \in 1..i - 1 : a[k] = s[k]
    <2>1. i - 1 \in Int /\ (i - 1) - 1 + 1 = i - 1
        BY <1>1
    <2>2. /\ a \in Seq(Op) /\ Len(a) = (IF 1 <= i - 1 THEN (i - 1) - 1 + 1 ELSE 0)
          /\ \A k \in 1..(i - 1) - 1 + 1 : a[k] = s[1 + k - 1]
        BY <1>2, <2>1, SubSeqProperties
    <2> HIDE DEF a
    <2>3. Len(a) = i - 1
        BY <1>1, <2>2
    <2>4. \A k \in 1..i - 1 : a[k] = s[k]
        BY <1>1, <2>2
    <2> QED
        BY <2>2, <2>3, <2>4
<1>4. /\ b \in Seq(Op) /\ Len(b) = Len(s) - i
      /\ \A k \in 1..Len(s) - i : b[k] = s[k + i]
    <2>1. i + 1 \in Int /\ Len(s) \in Int
        BY <1>1
    <2>2. /\ b \in Seq(Op) /\ Len(b) = (IF i + 1 <= Len(s) THEN Len(s) - (i + 1) + 1 ELSE 0)
          /\ \A k \in 1..Len(s) - (i + 1) + 1 : b[k] = s[(i + 1) + k - 1]
        BY <1>2, <2>1, SubSeqProperties
    <2> HIDE DEF b
    <2>3. Len(b) = Len(s) - i
        BY <1>1, <2>2
    <2>4. \A k \in 1..Len(s) - i : b[k] = s[k + i]
        BY <1>1, <2>2
    <2> QED
        BY <2>2, <2>3, <2>4
<1> HIDE DEF a, b
<1>5. /\ t \in Seq(Op) /\ Len(t) = Len(a) + Len(b)
      /\ \A k \in 1..Len(a) + Len(b) : t[k] = IF k <= Len(a) THEN a[k] ELSE b[k - Len(a)]
    BY <1>3, <1>4, ConcatProperties
<1> HIDE DEF t
<1>6. Len(t) = Len(s) - 1
    BY <1>1, <1>3, <1>4, <1>5
<1>7. \A k \in 1..Len(t) : t[k] = IF k < i THEN s[k] ELSE s[k + 1]
    <2> SUFFICES ASSUME NEW k \in 1..Len(t) PROVE t[k] = IF k < i THEN s[k] ELSE s[k + 1]
        OBVIOUS
    <2>1. k \in Nat /\ 1 <= k /\ k <= Len(s) - 1 /\ k \in 1..Len(a) + Len(b)
        BY <1>1, <1>5, <1>6
    <2>2. CASE k < i
        <3>1. k <= Len(a) /\ k \in 1..i - 1
            BY <1>1, <1>3, <2>1, <2>2
        <3> QED
            BY <1>3, <1>5, <2>1, <2>2, <3>1
    <2>3. CASE ~(k < i)
        <3>1. ~(k <= Len(a)) /\ k - Len(a) \in 1..Len(s) - i /\ (k - Len(a)) + i = k + 1
            BY <1>1, <1>3, <2>1, <2>3
        <3> QED
            BY <1>4, <1>5, <2>1, <2>3, <3>1
    <2> QED
        BY <2>2, <2>3
<1>8. \A k \in 1..Len(s) : k < i => k \in 1..Len(t) /\ t[k] = s[k]
    BY <1>1, <1>6, <1>7
<1>9. \A k \in 1..Len(s) : i < k => k - 1 \in 1..Len(t) /\ t[k - 1] = s[k]
    <2> SUFFICES ASSUME NEW k \in 1..Len(s), i < k PROVE k - 1 \in 1..Len(t) /\ t[k - 1] = s[k]
        OBVIOUS
    <2>1. k - 1 \in 1..Len(t) /\ ~(k - 1 < i) /\ (k - 1) + 1 = k
        BY <1>1, <1>6
    <2> QED
        BY <1>7, <2>1
<1>10. t \in Seq(Op) /\ Cut(s, t, i)
    BY <1>5, <1>6, <1>7, <1>8, <1>9 DEF Cut
<1>11. t = RemoveAt(s, i)
    BY DEF t, a, b, RemoveAt
<1> QED
    BY <1>10, <1>11

\* t is s with d operations more, one or none, behind its first n.
Spread(s, t, n, d) ==
    /\ Len(t) = Len(s) + d
    /\ \A k \in 1..Len(s) : k <= n => k \in 1..Len(t) /\ t[k] = s[k]
    /\ \A k \in 1..Len(s) : n < k => k + d \in 1..Len(t) /\ t[k + d] = s[k]
    /\ d = 1 => n + 1 \in 1..Len(t) /\ t[n + 1] = NewOp("BEACON_RX")
    /\ \A k \in 1..Len(t) :
          \/ k <= n /\ k \in 1..Len(s) /\ t[k] = s[k]
          \/ n < k /\ k - d \in 1..Len(s) /\ t[k] = s[k - d]
          \/ t[k] = NewOp("BEACON_RX")

\* A reception that starts at once, s being q and then w.
LEMMA ListenFacts ==
    ASSUME NEW s \in Seq(Op), NEW q \in Seq(Op), NEW w \in Seq(Op), NEW taken,
           Len(s) = Len(q) + Len(w),
           \A i \in 1..Len(q) : s[i] = q[i],
           \A i \in 1..Len(w) : s[i + Len(q)] = w[i]
    PROVE  LET t == q \o Taken("BEACON_RX", taken) \o w IN
           /\ t \in Seq(Op)
           /\ Spread(s, t, Len(q), IF "BEACON_RX" \in taken THEN 1 ELSE 0)
<1> DEFINE m == Taken("BEACON_RX", taken)
           a == q \o m
           t == a \o w
           d == IF "BEACON_RX" \in taken THEN 1 ELSE 0
           n == Len(q)
<1>1. /\ a \in Seq(Op) /\ Grown(q, a) /\ Len(a) = n + d
      /\ d = 1 => a[n + 1] = NewOp("BEACON_RX")
    <2>1. "BEACON_RX" \in Handles
        BY DEF Handles
    <2>2. Len(q) \in Nat
        BY LengthFacts
    <2> HIDE DEF a, m
    <2>3. /\ a \in Seq(Op) /\ Grown(q, a)
          /\ "BEACON_RX" \in taken => Len(a) = Len(q) + 1 /\ a[Len(q) + 1] = NewOp("BEACON_RX")
          /\ "BEACON_RX" \notin taken => Len(a) = Len(q)
        BY <2>1, CallFacts DEF a, m
    <2> QED
        BY <2>2, <2>3
<1> HIDE DEF a, m
<1>2. /\ t \in Seq(Op) /\ Len(t) = Len(a) + Len(w)
      /\ \A i \in 1..Len(a) + Len(w) : t[i] = IF i <= Len(a) THEN a[i] ELSE w[i - Len(a)]
    BY <1>1, ConcatProperties
<1>3. n \in Nat /\ Len(w) \in Nat /\ Len(s) \in Nat /\ d \in 0..1
    BY LengthFacts
<1>d. d \in Nat /\ (d = 0 \/ d = 1)
    BY <1>3
<1> HIDE DEF t, n, d
<1>n. n = Len(q)
    BY DEF n
<1>4. Len(t) = n + d + Len(w) /\ Len(t) = Len(s) + d
    BY <1>1, <1>2, <1>3, <1>d, <1>n
<1>5. \A k \in 1..n : k \in 1..Len(a) /\ k \in 1..Len(t) /\ k \in 1..Len(s) /\ t[k] = s[k]
    <2> SUFFICES ASSUME NEW k \in 1..n
                 PROVE  k \in 1..Len(a) /\ k \in 1..Len(t) /\ k \in 1..Len(s) /\ t[k] = s[k]
        OBVIOUS
    <2>1. k \in 1..Len(a) /\ k \in 1..Len(t) /\ k \in 1..Len(s) /\ k <= Len(a) /\ k \in 1..Len(a) + Len(w)
        BY <1>1, <1>3, <1>4, <1>d, <1>n
    <2>2. t[k] = a[k]
        BY <1>2, <2>1
    <2>3. a[k] = q[k] /\ s[k] = q[k]
        BY <1>1, <1>n DEF Grown
    <2> QED
        BY <2>1, <2>2, <2>3
<1>6. \A i \in 1..Len(w) : i + n \in 1..Len(s) /\ (i + n) + d \in 1..Len(t) /\ t[(i + n) + d] = s[i + n]
    <2> SUFFICES ASSUME NEW i \in 1..Len(w)
                 PROVE  i + n \in 1..Len(s) /\ (i + n) + d \in 1..Len(t) /\ t[(i + n) + d] = s[i + n]
        OBVIOUS
    <2>1. /\ i + n \in 1..Len(s) /\ (i + n) + d \in 1..Len(t) /\ (i + n) + d \in 1..Len(a) + Len(w)
          /\ ~((i + n) + d <= Len(a)) /\ ((i + n) + d) - Len(a) = i
        BY <1>1, <1>3, <1>4, <1>d, <1>n
    <2>2. t[(i + n) + d] = w[i]
        BY <1>2, <2>1
    <2> QED
        BY <1>n, <2>1, <2>2
<1>7. \A k \in 1..Len(s) : n < k => k - n \in 1..Len(w) /\ (k - n) + n = k
    BY <1>3, <1>n
<1>8. \A k \in 1..Len(s) : n < k => k + d \in 1..Len(t) /\ t[k + d] = s[k]
    BY <1>6, <1>7
<1>9. d = 1 => n + 1 \in 1..Len(t) /\ t[n + 1] = NewOp("BEACON_RX")
    <2> SUFFICES ASSUME d = 1 PROVE n + 1 \in 1..Len(t) /\ t[n + 1] = NewOp("BEACON_RX")
        OBVIOUS
    <2>1. n + 1 \in 1..Len(t) /\ n + 1 \in 1..Len(a) + Len(w) /\ n + 1 <= Len(a)
        BY <1>1, <1>3, <1>4
    <2> QED
        BY <1>1, <1>2, <2>1
<1>10. ASSUME NEW k \in 1..Len(t)
       PROVE  \/ k <= n /\ k \in 1..Len(s) /\ t[k] = s[k]
              \/ n < k /\ k - d \in 1..Len(s) /\ t[k] = s[k - d]
              \/ t[k] = NewOp("BEACON_RX")
    <2>1. CASE k <= n
        <3>1. k \in 1..n
            BY <1>3, <1>4, <1>d, <2>1
        <3> QED
            BY <1>5, <2>1, <3>1
    <2>2. CASE n < k /\ k <= n + d
        <3>1. d = 1 /\ k = n + 1
            BY <1>3, <1>4, <1>d, <2>2
        <3> QED
            BY <1>9, <3>1
    <2>3. CASE n + d < k
        <3>1. n < k /\ k - d \in 1..Len(s) /\ n < k - d /\ (k - d) + d = k
            BY <1>3, <1>4, <1>d, <2>3
        <3>2. t[(k - d) + d] = s[k - d]
            BY <1>8, <3>1
        <3> QED
            BY <3>1, <3>2
    <2>4. k \in Int /\ n \in Int /\ n + d \in Int
        BY <1>3, <1>4, <1>d
    <2> QED
        BY <2>1, <2>2, <2>3, <2>4
<1>11. \A k \in 1..Len(s) : k <= n => k \in 1..Len(t) /\ t[k] = s[k]
    <2>1. \A k \in 1..Len(s) : k <= n => k \in 1..n
        BY <1>3
    <2> QED
        BY <1>5, <2>1
<1>12. t \in Seq(Op) /\ Spread(s, t, n, d)
    BY <1>2, <1>4, <1>8, <1>9, <1>10, <1>11 DEF Spread
<1> QED
    BY <1>12 DEF t, a, m, n, d

\* The three places where it does: behind the operation under way, before
\* all others when none is, and where LoopListen comes in between.
LEMMA ListenBehindHead ==
    ASSUME NEW s \in Seq(Op), s # <<>>, NEW taken
    PROVE  LET t == <<Head(s)>> \o Taken("BEACON_RX", taken) \o Tail(s) IN
           /\ t \in Seq(Op)
           /\ Spread(s, t, 1, IF "BEACON_RX" \in taken THEN 1 ELSE 0)
<1> DEFINE q == <<Head(s)>>
           w == Tail(s)
<1>1. /\ Head(s) \in Op /\ w \in Seq(Op) /\ Len(w) = Len(s) - 1 /\ Len(s) \in Nat
      /\ \A i \in 1..Len(w) : w[i] = s[i + 1]
      /\ Head(s) = s[1]
    BY HeadTailProperties
<1>2. q \in Seq(Op) /\ Len(q) = 1 /\ q[1] = s[1]
    BY <1>1
<1> HIDE DEF q, w
<1>3. Len(s) = Len(q) + Len(w)
    BY <1>1, <1>2
<1>4. \A i \in 1..Len(q) : s[i] = q[i]
    BY <1>2
<1>5. \A i \in 1..Len(w) : s[i + Len(q)] = w[i]
    BY <1>1, <1>2
<1>6. LET t == q \o Taken("BEACON_RX", taken) \o w IN
      t \in Seq(Op) /\ Spread(s, t, Len(q), IF "BEACON_RX" \in taken THEN 1 ELSE 0)
    BY <1>1, <1>2, <1>3, <1>4, <1>5, ListenFacts
<1>7. LET t == q \o Taken("BEACON_RX", taken) \o w IN
      t \in Seq(Op) /\ Spread(s, t, 1, IF "BEACON_RX" \in taken THEN 1 ELSE 0)
    BY <1>2, <1>6
<1> QED
    BY <1>7 DEF q, w

LEMMA ListenFirst ==
    ASSUME NEW s \in Seq(Op), NEW taken
    PROVE  LET t == <<>> \o Taken("BEACON_RX", taken) \o s IN
           /\ t \in Seq(Op)
           /\ Spread(s, t, 0, IF "BEACON_RX" \in taken THEN 1 ELSE 0)
<1> DEFINE q == <<>>
<1>1. q \in Seq(Op) /\ Len(q) = 0
    OBVIOUS
<1> HIDE DEF q
<1>2. Len(s) \in Nat
    BY LengthFacts
<1>3. Len(s) = Len(q) + Len(s)
    BY <1>1, <1>2
<1>4. \A i \in 1..Len(q) : s[i] = q[i]
    BY <1>1
<1>5. \A i \in 1..Len(s) : s[i + Len(q)] = s[i]
    BY <1>1, <1>2
<1>6. LET t == q \o Taken("BEACON_RX", taken) \o s IN
      t \in Seq(Op) /\ Spread(s, t, Len(q), IF "BEACON_RX" \in taken THEN 1 ELSE 0)
    BY <1>1, <1>3, <1>4, <1>5, ListenFacts
<1>7. LET t == q \o Taken("BEACON_RX", taken) \o s IN
      t \in Seq(Op) /\ Spread(s, t, 0, IF "BEACON_RX" \in taken THEN 1 ELSE 0)
    BY <1>1, <1>6
<1> QED
    BY <1>7 DEF q

LEMMA ListenBehind ==
    ASSUME NEW s \in Seq(Op), NEW n \in 0..Len(s), NEW taken
    PROVE  LET t == SubSeq(s, 1, n) \o Taken("BEACON_RX", taken) \o SubSeq(s, n + 1, Len(s)) IN
           /\ t \in Seq(Op)
           /\ Spread(s, t, n, IF "BEACON_RX" \in taken THEN 1 ELSE 0)
<1> DEFINE q == SubSeq(s, 1, n)
           w == SubSeq(s, n + 1, Len(s))
<1>1. Len(s) \in Nat /\ n \in Nat /\ n <= Len(s)
    BY LengthFacts
<1>2. /\ \A k \in 1..n : s[k] \in Op
      /\ \A k \in n + 1..Len(s) : s[k] \in Op
    BY <1>1, LengthFacts
<1>3. q \in Seq(Op) /\ Len(q) = n /\ \A i \in 1..n : q[i] = s[i]
    <2>1. /\ q \in Seq(Op) /\ Len(q) = (IF 1 <= n THEN n - 1 + 1 ELSE 0)
          /\ \A i \in 1..n - 1 + 1 : q[i] = s[1 + i - 1]
        BY <1>1, <1>2, SubSeqProperties
    <2> HIDE DEF q
    <2> QED
        BY <1>1, <2>1
<1>4. w \in Seq(Op) /\ Len(w) = Len(s) - n /\ \A i \in 1..Len(s) - n : w[i] = s[i + n]
    <2>1. n + 1 \in Int /\ Len(s) \in Int
        BY <1>1
    <2>2. /\ w \in Seq(Op) /\ Len(w) = (IF n + 1 <= Len(s) THEN Len(s) - (n + 1) + 1 ELSE 0)
          /\ \A i \in 1..Len(s) - (n + 1) + 1 : w[i] = s[(n + 1) + i - 1]
        BY <1>2, <2>1, SubSeqProperties
    <2> HIDE DEF w
    <2>3. Len(w) = Len(s) - n
        BY <1>1, <2>2
    <2>4. \A i \in 1..Len(s) - n : w[i] = s[i + n]
        BY <1>1, <2>2
    <2> QED
        BY <2>2, <2>3, <2>4
<1> HIDE DEF q, w
<1>5. Len(s) = Len(q) + Len(w)
    BY <1>1, <1>3, <1>4
<1>6. \A i \in 1..Len(q) : s[i] = q[i]
    BY <1>3
<1>7. \A i \in 1..Len(w) : s[i + Len(q)] = w[i]
    BY <1>3, <1>4
<1>8. LET t == q \o Taken("BEACON_RX", taken) \o w IN
      t \in Seq(Op) /\ Spread(s, t, Len(q), IF "BEACON_RX" \in taken THEN 1 ELSE 0)
    BY <1>3, <1>4, <1>5, <1>6, <1>7, ListenFacts
<1>9. LET t == q \o Taken("BEACON_RX", taken) \o w IN
      t \in Seq(Op) /\ Spread(s, t, n, IF "BEACON_RX" \in taken THEN 1 ELSE 0)
    BY <1>3, <1>8
<1> QED
    BY <1>9 DEF q, w

-----------------------------------------------------------------------------
(* Types.                                                                  *)

\* The operations of the modem are operations, and not too many of them.
OpsOK == ops \in Seq(Op) /\ Len(ops) <= MaxOps

LEMMA RoomForOps == ops' \in Seq(Op) /\ HasRoom => OpsOK'
<1> SUFFICES ASSUME ops' \in Seq(Op), HasRoom PROVE Len(ops') <= MaxOps
    BY DEF OpsOK
<1>1. Len(ops') \in Nat
    OBVIOUS
<1>2. MaxOps \in Nat /\ MaxFaultyOps \in Nat /\ MaxFaultyOps <= MaxOps
    BY PtLoopAssumption
<1>3. Len(ops') <= MaxOps \/ Len(ops') <= MaxFaultyOps
    BY DEF HasRoom
<1> QED
    BY <1>1, <1>2, <1>3

LEMMA HeardOps ==
    ASSUME OpsOK, ops # <<>>
    PROVE  Heard \in Seq(Op) /\ Len(Heard) <= MaxOps /\ Heard # <<>>
BY HeardFacts DEF OpsOK

LEMMA ScheduleOps ==
    ASSUME OpsOK, ops # <<>>, NEW calls, NEW next, ScheduleFrom(calls, next)
    PROVE  OpsOK' /\ ptState' \in {ptState, next} /\ resync_sem' \in {resync_sem, 1}
<1> PICK taken \in Accepts(calls) :
        /\ Schedule(Heard, taken)
        /\ IF "PT_TX" \in taken
           THEN ptState' = next /\ UNCHANGED resync_sem
           ELSE resync_sem' = 1 /\ UNCHANGED ptState
    BY DEF ScheduleFrom
<1>1. ops' = Scheduled(Heard, taken) /\ HasRoom
    BY DEF Schedule
<1>2. ops' \in Seq(Op)
    BY <1>1, HeardOps, ScheduledFacts
<1> QED
    BY <1>1, <1>2, RoomForOps

LEMMA NotABeaconOps ==
    ASSUME OpsOK, ops # <<>>, ListenNow(<<Head(Heard)>>, Tail(Heard))
    PROVE  /\ OpsOK'
           /\ \E taken \in Accepts({"BEACON_RX"}) :
                 Spread(Heard, ops', 1, IF "BEACON_RX" \in taken THEN 1 ELSE 0)
<1> PICK taken \in Accepts({"BEACON_RX"}) :
        /\ ops' = <<Head(Heard)>> \o Taken("BEACON_RX", taken) \o Tail(Heard)
        /\ HasRoom
    BY DEF ListenNow
<1>1. ops' \in Seq(Op) /\ Spread(Heard, ops', 1, IF "BEACON_RX" \in taken THEN 1 ELSE 0)
    BY HeardOps, ListenBehindHead
<1> QED
    BY <1>1, RoomForOps

LEMMA RestOps ==
    ASSUME OpsOK, NEW i \in 1..Len(ops)
    PROVE  /\ RemoveAt(ops, i) \in Seq(Op) /\ Cut(ops, RemoveAt(ops, i), i)
           /\ Len(RemoveAt(ops, i)) <= MaxOps
<1>1. RemoveAt(ops, i) \in Seq(Op) /\ Cut(ops, RemoveAt(ops, i), i)
    BY RemoveFacts DEF OpsOK
<1>2. Len(RemoveAt(ops, i)) = Len(ops) - 1 /\ Len(ops) \in Nat /\ Len(ops) <= MaxOps
    BY <1>1 DEF Cut, OpsOK
<1>3. MaxOps \in Nat
    BY PtLoopAssumption
<1> QED
    BY <1>1, <1>2, <1>3

LEMMA MissedOps ==
    ASSUME OpsOK, NEW i \in 1..Len(ops), ListenNow(<<>>, RemoveAt(ops, i))
    PROVE  OpsOK'
<1> PICK taken \in Accepts({"BEACON_RX"}) :
        /\ ops' = <<>> \o Taken("BEACON_RX", taken) \o RemoveAt(ops, i)
        /\ HasRoom
    BY DEF ListenNow
<1>1. ops' \in Seq(Op)
    BY RestOps, ListenFirst
<1> QED
    BY <1>1, RoomForOps

LEMMA ListenOps ==
    ASSUME OpsOK, LoopListen
    PROVE  /\ OpsOK'
           /\ \E n \in 0..Len(ops), taken \in Accepts({"BEACON_RX"}) :
                 n <= 1 /\ Spread(ops, ops', n, IF "BEACON_RX" \in taken THEN 1 ELSE 0)
<1> PICK n \in 0..Len(ops) : n <= 1 /\ ListenNow(SubSeq(ops, 1, n), SubSeq(ops, n + 1, Len(ops)))
    BY DEF LoopListen
<1> PICK taken \in Accepts({"BEACON_RX"}) :
        /\ ops' = SubSeq(ops, 1, n) \o Taken("BEACON_RX", taken) \o SubSeq(ops, n + 1, Len(ops))
        /\ HasRoom
    BY DEF ListenNow
<1>1. ops' \in Seq(Op) /\ Spread(ops, ops', n, IF "BEACON_RX" \in taken THEN 1 ELSE 0)
    BY ListenBehind DEF OpsOK
<1> QED
    BY <1>1, RoomForOps

LEMMA CancelOps ==
    ASSUME OpsOK, LoopCancel
    PROVE  /\ OpsOK'
           /\ Len(ops') = Len(ops)
           /\ \A i \in 1..Len(ops) : ops'[i].handle = ops[i].handle /\ ops'[i].heard = ops[i].heard
<1>1. ops' = [i \in 1..Len(ops) |-> [ops[i] EXCEPT !.doomed = TRUE]]
    BY DEF LoopCancel
<1>2. Len(ops) \in Nat /\ Len(ops) <= MaxOps /\ \A i \in 1..Len(ops) : ops[i] \in Op
    BY LengthFacts DEF OpsOK
<1>3. \A i \in 1..Len(ops) :
         /\ [ops[i] EXCEPT !.doomed = TRUE] \in Op
         /\ [ops[i] EXCEPT !.doomed = TRUE].handle = ops[i].handle
         /\ [ops[i] EXCEPT !.doomed = TRUE].heard = ops[i].heard
    BY <1>2 DEF Op
<1>4. ops' \in [1..Len(ops) -> Op]
    BY <1>1, <1>3
<1>5. ops' \in Seq(Op) /\ Len(ops') = Len(ops)
    BY <1>2, <1>4
<1> QED
    BY <1>1, <1>2, <1>3, <1>5 DEF OpsOK

\* The scalar variables one by one.
ScalarsOK ==
    /\ ptState \in States
    /\ slotCounter \in 0..CounterRange - 1
    /\ warmedUp \in BOOLEAN /\ cancelling \in BOOLEAN /\ timeAsked \in BOOLEAN
    /\ timedOut \in BOOLEAN
    /\ time_sem \in 0..1 /\ resync_sem \in 0..1 /\ cancel_sem \in 0..1
    /\ pc \in PCs

LEMMA TypeSplit == TypeOK <=> ScalarsOK /\ OpsOK
BY DEF TypeOK, ScalarsOK, OpsOK

LEMMA TypeJoin == ScalarsOK' /\ OpsOK' => TypeOK'
BY DEF TypeOK, ScalarsOK, OpsOK

LEMMA CounterFacts ==
    /\ SlotsPerFrame \in 0..CounterRange - 1 /\ 0 \in 0..CounterRange - 1
    /\ \A c \in 0..CounterRange - 1 : (c - 1) % CounterRange \in 0..CounterRange - 1
<1>1. SlotsPerFrame \in Nat /\ CounterRange \in Nat /\ SlotsPerFrame < CounterRange
    BY PtLoopAssumption
<1> QED
    BY <1>1

LEMMA TypeInit == Init => TypeOK
<1> SUFFICES ASSUME Init PROVE ScalarsOK /\ OpsOK
    BY TypeSplit
<1>1. 0 \in 0..CounterRange - 1 /\ MaxOps \in Nat
    BY CounterFacts, PtLoopAssumption
<1>2. OpsOK
    <2>1. ops = <<>>
        BY DEF Init
    <2> QED
        BY <1>1, <2>1 DEF OpsOK
<1>3. ScalarsOK
    <2>1. ptState \in States /\ pc \in PCs
        BY DEF Init, States, PCs
    <2>2. /\ slotCounter \in 0..CounterRange - 1
          /\ time_sem \in 0..1 /\ resync_sem \in 0..1 /\ cancel_sem \in 0..1
        BY <1>1 DEF Init
    <2>3. /\ warmedUp \in BOOLEAN /\ cancelling \in BOOLEAN /\ timeAsked \in BOOLEAN
          /\ timedOut \in BOOLEAN
        BY DEF Init
    <2> QED
        BY <2>1, <2>2, <2>3 DEF ScalarsOK
<1> QED
    BY <1>2, <1>3

\* A packet leaves the main thread and the modem's other answers alone.
LEMMA PdcType == TypeOK /\ Pdc => TypeOK'
<1> SUFFICES ASSUME ScalarsOK, OpsOK, Pdc PROVE ScalarsOK' /\ OpsOK'
    BY TypeSplit, TypeJoin
<1>1. /\ ops # <<>>
      /\ UNCHANGED <<warmedUp, time_sem, cancel_sem, pc, cancelling, timeAsked, timedOut>>
    BY DEF Pdc
<1>2. Heard \in Seq(Op) /\ Len(Heard) <= MaxOps
    BY <1>1, HeardOps
<1>3. /\ OpsOK' /\ ptState' \in States /\ slotCounter' \in 0..CounterRange - 1
      /\ resync_sem' \in 0..1
    <2>s. /\ "WAIT_FOR_LATCH_BEACON" \in States /\ "SCHEDULED_UPLINK" \in States
          /\ "SCHEDULED_DOWNLINK" \in States /\ "WAIT_FOR_BEACON" \in States
          /\ ptState \in States /\ slotCounter \in 0..CounterRange - 1
          /\ resync_sem \in 0..1 /\ 1 \in 0..1
        BY DEF ScalarsOK, States
    <2>1. CASE FirstBeacon
        <3>1. ScheduleFrom(FrameCalls, "WAIT_FOR_LATCH_BEACON") /\ slotCounter' = SlotsPerFrame
            BY <2>1 DEF FirstBeacon
        <3>2. OpsOK' /\ ptState' \in {ptState, "WAIT_FOR_LATCH_BEACON"} /\ resync_sem' \in {resync_sem, 1}
            BY <1>1, <3>1, ScheduleOps
        <3> QED
            BY <2>s, <3>1, <3>2, CounterFacts
    <2>2. CASE LatchBeacon
        <3>1. OpsOK'
            BY <1>2, <2>2 DEF LatchBeacon, OpsOK
        <3> QED
            BY <2>2, <2>s, <3>1 DEF LatchBeacon
    <2>3. CASE NotABeacon
        <3>1. OpsOK'
            BY <1>1, <2>3, NotABeaconOps DEF NotABeacon
        <3> QED
            BY <2>3, <2>s, <3>1 DEF NotABeacon
    <2>4. CASE LatchNotABeacon
        <3>1. OpsOK'
            BY <1>1, <2>4, NotABeaconOps DEF LatchNotABeacon
        <3> QED
            BY <2>4, <2>s, <3>1 DEF LatchNotABeacon
    <2>5. CASE Downlink
        <3>1. /\ ScheduleFrom(IF slotCounter' # 0 THEN SlotCalls ELSE FrameCalls, "SCHEDULED_UPLINK")
              /\ slotCounter' = (slotCounter - 1) % CounterRange
            BY <2>5 DEF Downlink
        <3>2. OpsOK' /\ ptState' \in {ptState, "SCHEDULED_UPLINK"} /\ resync_sem' \in {resync_sem, 1}
            BY <1>1, <3>1, ScheduleOps
        <3>3. slotCounter' \in 0..CounterRange - 1
            BY <2>s, <3>1, CounterFacts
        <3> QED
            BY <2>s, <3>2, <3>3
    <2>6. CASE PacketIgnored
        <3>1. OpsOK'
            BY <1>2, <2>6 DEF PacketIgnored, OpsOK
        <3> QED
            BY <2>6, <2>s, <3>1 DEF PacketIgnored
    <2> QED
        BY <2>1, <2>2, <2>3, <2>4, <2>5, <2>6 DEF Pdc
<1>4. ScalarsOK'
    BY <1>1, <1>3 DEF ScalarsOK
<1> QED
    BY <1>3, <1>4

\* The end of an operation.
LEMMA CompleteType == TypeOK /\ Completed => TypeOK'
<1> SUFFICES ASSUME ScalarsOK, OpsOK, NEW i \in 1..Len(ops), Complete(i)
             PROVE  ScalarsOK' /\ OpsOK'
    BY TypeSplit, TypeJoin DEF Completed
<1> DEFINE h == ops[i].handle
           rest == RemoveAt(ops, i)
<1>1. /\ UNCHANGED <<warmedUp, time_sem, cancel_sem, pc, cancelling, timeAsked>>
      /\ timedOut' \in BOOLEAN
    BY DEF Complete
<1>2. rest \in Seq(Op) /\ Len(rest) <= MaxOps
    BY RestOps
<1>3. \/ (UplinkDone(h) \/ NothingToDo(h)) /\ ops' = rest
      \/ /\ ListenNow(<<>>, rest)
         /\ resync_sem' = 1
         /\ UNCHANGED <<ptState, slotCounter>>
      \/ /\ resync_sem' = 1
         /\ ops' = rest
         /\ UNCHANGED <<ptState, slotCounter>>
    BY DEF Complete
<1>4. OpsOK'
    <2>1. CASE ops' = rest
        BY <1>2, <2>1 DEF OpsOK
    <2>2. CASE ListenNow(<<>>, rest)
        BY <2>2, MissedOps
    <2> QED
        BY <1>3, <2>1, <2>2
<1>5. ptState' \in States /\ slotCounter' \in 0..CounterRange - 1 /\ resync_sem' \in 0..1
    <2>s. /\ "WAIT_FOR_LATCH_BEACON" \in States /\ "SCHEDULED_DOWNLINK" \in States
          /\ ptState \in States /\ slotCounter \in 0..CounterRange - 1
          /\ resync_sem \in 0..1 /\ 1 \in 0..1
        BY DEF ScalarsOK, States
    <2>1. CASE UplinkDone(h)
        BY <2>1, <2>s, CounterFacts DEF UplinkDone
    <2>2. CASE NothingToDo(h)
        BY <2>2, <2>s DEF NothingToDo
    <2>3. CASE resync_sem' = 1 /\ UNCHANGED <<ptState, slotCounter>>
        BY <2>3, <2>s
    <2> QED
        BY <1>3, <2>1, <2>2, <2>3
<1>6. ScalarsOK'
    BY <1>1, <1>5 DEF ScalarsOK
<1> QED
    BY <1>4, <1>6

\* The other steps change no more than a variable or two each.
LEMMA ScalarsNext == ScalarsOK /\ [Next]_vars => ScalarsOK' \/ Pdc \/ Completed
<1> SUFFICES ASSUME ScalarsOK, [Next]_vars PROVE ScalarsOK' \/ Pdc \/ Completed
    OBVIOUS
<1>1. CASE on_cancel
    <2>1. /\ cancelling' = FALSE /\ cancel_sem' = 1
          /\ UNCHANGED <<ptState, slotCounter, warmedUp, time_sem, resync_sem, pc, timeAsked, timedOut>>
        BY <1>1 DEF on_cancel
    <2>2. cancelling' \in BOOLEAN
        BY <2>1
    <2>3. cancel_sem' \in 0..1
        BY <2>1
    <2> QED
        BY <2>1, <2>2, <2>3 DEF ScalarsOK
<1>2. CASE on_time_get_pt
    <2>1. /\ timeAsked' = FALSE /\ warmedUp' = TRUE /\ time_sem' = 1
          /\ UNCHANGED <<ptState, slotCounter, resync_sem, cancel_sem, pc, cancelling, timedOut>>
        BY <1>2 DEF on_time_get_pt
    <2>2. timeAsked' \in BOOLEAN /\ warmedUp' \in BOOLEAN
        BY <2>1
    <2>3. time_sem' \in 0..1
        BY <2>1
    <2> QED
        BY <2>1, <2>2, <2>3 DEF ScalarsOK
<1>3. CASE MainTime
    BY <1>3 DEF MainTime, Goto, ScalarsOK, PCs
<1>4. CASE LoopTime
    BY <1>4 DEF LoopTime, Goto, ScalarsOK, PCs
<1>5. CASE LoopState
    BY <1>5 DEF LoopState, sems, Goto, ScalarsOK, PCs, States
<1>6. CASE LoopListen
    <2>1. /\ pc' = "resync"
          /\ UNCHANGED <<ptState, slotCounter, warmedUp, sems, cancelling, timeAsked, timedOut>>
        BY <1>6 DEF LoopListen, Goto
    <2> QED
        BY <2>1 DEF sems, ScalarsOK, PCs
<1>7. CASE LoopResync
    BY <1>7 DEF LoopResync, Goto, ScalarsOK, PCs
<1>8. CASE LoopCancel
    <2>1. /\ pc' = "cancelled" /\ cancelling' = TRUE
          /\ UNCHANGED <<ptState, slotCounter, warmedUp, sems, timeAsked, timedOut>>
        BY <1>8 DEF LoopCancel, Goto
    <2> QED
        BY <2>1 DEF sems, ScalarsOK, PCs
<1>9. CASE LoopCancelled
    BY <1>9 DEF LoopCancelled, Goto, ScalarsOK, PCs
<1>10. CASE LoopCold
    <2>1. /\ pc' = "sleep" /\ warmedUp' = FALSE /\ timeAsked' = TRUE
          /\ UNCHANGED <<ptState, slotCounter, time_sem, resync_sem, cancel_sem, cancelling, timedOut>>
        BY <1>10 DEF LoopCold, sems, Goto
    <2>2. pc' \in PCs
        BY <2>1 DEF PCs
    <2> QED
        BY <2>1, <2>2 DEF ScalarsOK
<1>11. CASE LoopSleep
    <2>1. /\ pc' = "top" /\ UNCHANGED <<ptState, slotCounter, warmedUp, cancelling, timeAsked, timedOut>>
          /\ UNCHANGED <<time_sem, resync_sem, cancel_sem>>
        BY <1>11 DEF LoopSleep, sems, Goto
    <2>2. pc' \in PCs
        BY <2>1 DEF PCs
    <2> QED
        BY <2>1, <2>2 DEF ScalarsOK
<1>12. CASE UNCHANGED vars
    BY <1>12 DEF vars, sems, ScalarsOK
<1> QED
    BY <1>1, <1>2, <1>3, <1>4, <1>5, <1>6, <1>7, <1>8, <1>9, <1>10, <1>11, <1>12
       DEF Next, Modem, Loop

LEMMA QuietOps ==
    [Next]_vars => Pdc \/ Completed \/ LoopListen \/ LoopCancel \/ ops' = ops
BY DEF Next, Modem, Loop, on_cancel, on_time_get_pt, MainTime, LoopTime, LoopState, LoopResync,
       LoopCancelled, LoopCold, LoopSleep, vars

LEMMA TypeNext == TypeOK /\ [Next]_vars => TypeOK'
<1> SUFFICES ASSUME TypeOK, [Next]_vars PROVE TypeOK'
    OBVIOUS
<1>0. ScalarsOK /\ OpsOK
    BY TypeSplit
<1>1. CASE Pdc
    BY <1>1, PdcType
<1>2. CASE Completed
    BY <1>2, CompleteType
<1>3. CASE ~Pdc /\ ~Completed
    <2>1. ScalarsOK'
        BY <1>0, <1>3, ScalarsNext
    <2>2. OpsOK'
        <3>1. CASE LoopListen
            BY <1>0, <3>1, ListenOps
        <3>2. CASE LoopCancel
            BY <1>0, <3>2, CancelOps
        <3>3. CASE ops' = ops
            BY <1>0, <3>3 DEF OpsOK
        <3> QED
            BY <1>3, <3>1, <3>2, <3>3, QuietOps
    <2> QED
        BY <2>1, <2>2, TypeJoin
<1> QED
    BY <1>1, <1>2, <1>3

\* Every variable keeps its type: slotCounter never leaves its width and the
\* modem never holds more operations than the bound, whatever its faults.
THEOREM PtTypes == Spec => []TypeOK
BY TypeInit, TypeNext, PTL DEF Spec

-----------------------------------------------------------------------------
(* The handshake of a cancellation.                                        *)

\* Only three steps touch it.
LEMMA HandshakeSteps ==
    [Next]_vars =>
        \/ LoopCancel \/ on_cancel \/ LoopCancelled
        \/ /\ UNCHANGED <<cancelling, cancel_sem>>
           /\ pc' = pc \/ (pc # "cancelled" /\ pc' # "cancelled")
<1> SUFFICES ASSUME [Next]_vars, ~LoopCancel, ~on_cancel, ~LoopCancelled
             PROVE  /\ UNCHANGED <<cancelling, cancel_sem>>
                    /\ pc' = pc \/ (pc # "cancelled" /\ pc' # "cancelled")
    OBVIOUS
<1>1. CASE Pdc \/ Completed \/ on_time_get_pt \/ UNCHANGED vars
    BY <1>1 DEF Pdc, Completed, Complete, on_time_get_pt, vars, sems
<1>2. CASE MainTime \/ LoopTime \/ LoopState
    BY <1>2 DEF MainTime, LoopTime, LoopState, Goto, sems
<1>3. CASE LoopListen \/ LoopResync
    BY <1>3 DEF LoopListen, LoopResync, Goto, sems
<1>4. CASE LoopCold \/ LoopSleep
    BY <1>4 DEF LoopCold, LoopSleep, Goto, sems
<1> QED
    BY <1>1, <1>2, <1>3, <1>4 DEF Next, Modem, Loop

LEMMA HandshakeInit == Init => CancelHandshake
BY DEF Init, CancelHandshake

LEMMA HandshakeNext == TypeOK /\ CancelHandshake /\ [Next]_vars => CancelHandshake'
<1> SUFFICES ASSUME ScalarsOK, CancelHandshake, [Next]_vars PROVE CancelHandshake'
    BY TypeSplit
<1>0. cancelling \in BOOLEAN /\ cancel_sem \in 0..1
    BY DEF ScalarsOK
<1>1. CASE LoopCancel
    <2>1. pc = "cancel" /\ pc' = "cancelled" /\ cancelling' = TRUE /\ cancel_sem' = cancel_sem
        BY <1>1 DEF LoopCancel, Goto, sems
    <2>2. cancel_sem # 1
        BY <2>1 DEF CancelHandshake
    <2> QED
        BY <2>1, <2>2 DEF CancelHandshake
<1>2. CASE on_cancel
    <2>1. cancelling /\ cancelling' = FALSE /\ cancel_sem' = 1 /\ pc' = pc
        BY <1>2 DEF on_cancel
    <2>2. pc = "cancelled"
        BY <2>1 DEF CancelHandshake
    <2> QED
        BY <2>1, <2>2 DEF CancelHandshake
<1>3. CASE LoopCancelled
    <2>1. pc' = "cold" /\ cancel_sem = 1 /\ cancel_sem' = 0 /\ cancelling' = cancelling
        BY <1>3 DEF LoopCancelled, Goto
    <2>2. ~cancelling
        BY <2>1 DEF CancelHandshake
    <2> QED
        BY <2>1, <2>2 DEF CancelHandshake
<1>4. CASE /\ UNCHANGED <<cancelling, cancel_sem>>
           /\ pc' = pc \/ (pc # "cancelled" /\ pc' # "cancelled")
    BY <1>4 DEF CancelHandshake
<1> QED
    BY <1>1, <1>2, <1>3, <1>4, HandshakeSteps

\* cancel_sem has a token only while the loop waits for it, and of the
\* cancellation it has just asked for.
THEOREM CancellationsMatched == Spec => []CancelHandshake
BY PtTypes, HandshakeInit, HandshakeNext, PTL DEF Spec

-----------------------------------------------------------------------------
(* The steps that change ptState and slotCounter.                          *)

LEMMA FaultsKept == [Next]_vars => faults' = faults
BY DEF Next, Modem, Loop, Pdc, Completed, Complete, on_cancel, on_time_get_pt, MainTime, LoopTime,
       LoopState, LoopListen, LoopResync, LoopCancel, LoopCancelled, LoopCold, LoopSleep, vars

LEMMA StateSteps ==
    [Next]_vars => Pdc \/ Completed \/ LoopState \/ UNCHANGED <<ptState, slotCounter>>
BY DEF Next, Modem, Loop, on_cancel, on_time_get_pt, MainTime, LoopTime, LoopListen, LoopResync,
       LoopCancel, LoopCancelled, LoopCold, LoopSleep, vars

\* A modem that refuses nothing takes all of the calls.
LEMMA AllTaken ==
    ASSUME "schedule" \notin faults, NEW calls, NEW next, "PT_TX" \in calls,
           ScheduleFrom(calls, next)
    PROVE  ptState' = next /\ resync_sem' = resync_sem /\ ops' = Scheduled(Heard, calls)
<1> PICK taken \in Accepts(calls) :
        /\ Schedule(Heard, taken)
        /\ IF "PT_TX" \in taken
           THEN ptState' = next /\ UNCHANGED resync_sem
           ELSE resync_sem' = 1 /\ UNCHANGED ptState
    BY DEF ScheduleFrom
<1>1. taken = calls
    BY DEF Accepts
<1> QED
    BY <1>1 DEF Schedule

LEMMA CallsFacts == "PT_TX" \in SlotCalls /\ "PT_TX" \in FrameCalls
BY DEF SlotCalls, FrameCalls

LEMMA DownlinkFacts ==
    ASSUME Downlink
    PROVE  /\ ptState = "SCHEDULED_DOWNLINK" /\ slotCounter' = (slotCounter - 1) % CounterRange
           /\ \E calls \in {SlotCalls, FrameCalls} :
                 /\ calls = IF slotCounter' # 0 THEN SlotCalls ELSE FrameCalls
                 /\ "PT_TX" \in calls /\ ScheduleFrom(calls, "SCHEDULED_UPLINK")
BY CallsFacts DEF Downlink

-----------------------------------------------------------------------------
(* slotCounter.                                                            *)

LEMMA CountedInit == Init => CountedInv
<1>1. SlotsPerFrame \in Nat
    BY PtLoopAssumption
<1> QED
    BY <1>1 DEF Init, CountedInv

LEMMA CountedNext == TypeOK /\ CountedInv /\ [Next]_vars => CountedInv'
<1> SUFFICES ASSUME TypeOK, CountedInv, [Next]_vars, "schedule" \notin faults'
             PROVE  /\ slotCounter' \in 0..SlotsPerFrame
                    /\ ptState' \in {"WAIT_FOR_LATCH_BEACON", "SCHEDULED_DOWNLINK"} =>
                          slotCounter' # 0
    BY DEF CountedInv
<1>0. /\ "schedule" \notin faults
      /\ slotCounter \in 0..SlotsPerFrame
      /\ ptState \in {"WAIT_FOR_LATCH_BEACON", "SCHEDULED_DOWNLINK"} => slotCounter # 0
    BY FaultsKept DEF CountedInv
<1>1. SlotsPerFrame \in Nat /\ 1 <= SlotsPerFrame /\ CounterRange \in Nat /\ SlotsPerFrame < CounterRange
    BY PtLoopAssumption
<1>2. CASE Pdc
    <2>1. CASE FirstBeacon
        BY <1>1, <2>1 DEF FirstBeacon
    <2>2. CASE LatchBeacon
        BY <1>0, <2>2 DEF LatchBeacon
    <2>3. CASE NotABeacon
        BY <1>0, <2>3 DEF NotABeacon
    <2>4. CASE LatchNotABeacon
        BY <1>0, <2>4 DEF LatchNotABeacon
    <2>5. CASE Downlink
        <3>1. ptState' = "SCHEDULED_UPLINK" /\ slotCounter' = (slotCounter - 1) % CounterRange
              /\ slotCounter \in 1..SlotsPerFrame
            BY <1>0, <1>1, <2>5, DownlinkFacts, AllTaken
        <3>2. slotCounter - 1 \in 0..CounterRange - 1 /\ slotCounter - 1 \in 0..SlotsPerFrame
            BY <1>1, <3>1
        <3>3. (slotCounter - 1) % CounterRange = slotCounter - 1
            BY <1>1, <3>2
        <3> QED
            BY <3>1, <3>2, <3>3
    <2>6. CASE PacketIgnored
        BY <1>0, <2>6 DEF PacketIgnored
    <2> QED
        BY <1>2, <2>1, <2>2, <2>3, <2>4, <2>5, <2>6 DEF Pdc
<1>3. CASE Completed
    <2> PICK i \in 1..Len(ops) : Complete(i)
        BY <1>3 DEF Completed
    <2> DEFINE h == ops[i].handle
    <2>1. UplinkDone(h) \/ UNCHANGED <<ptState, slotCounter>>
        BY DEF Complete, NothingToDo
    <2>2. CASE UplinkDone(h)
        <3>1. slotCounter \in 0..SlotsPerFrame
            BY <1>0
        <3>2. CASE slotCounter # 0
            BY <1>1, <2>2, <3>1, <3>2 DEF UplinkDone
        <3>3. CASE slotCounter = 0
            BY <1>1, <2>2, <3>3 DEF UplinkDone
        <3> QED
            BY <3>2, <3>3
    <2> QED
        BY <1>0, <2>1, <2>2
<1>4. CASE LoopState
    BY <1>0, <1>4 DEF LoopState
<1>5. CASE UNCHANGED <<ptState, slotCounter>>
    BY <1>0, <1>5
<1> QED
    BY <1>2, <1>3, <1>4, <1>5, StateSteps

\* If the modem refuses no operation, slotCounter is at most the number of slots
\* in a frame and a downlink that is counted down does not find it 0, so that
\* the unsigned counter never wraps around.
THEOREM CounterNeverWrapsUnrefused == Spec => []CounterInv
<1>1. CountedInv => CounterInv
    BY DEF CountedInv, CounterInv
<1> QED
    BY <1>1, PtTypes, CountedInit, CountedNext, PTL DEF Spec

-----------------------------------------------------------------------------
(* The uplink that a PT waits for.                                         *)

HasUplink(s) == \E i \in 1..Len(s) : Uplink(s, i)

LEMMA UplinkSpread ==
    ASSUME NEW s \in Seq(Op), NEW t, NEW n, NEW d, Spread(s, t, n, d), n \in Nat, HasUplink(s)
    PROVE  HasUplink(t)
<1> PICK i \in 1..Len(s) : s[i].handle = "PT_TX"
    BY DEF HasUplink, Uplink
<1>0. i \in Nat
    OBVIOUS
<1>1. CASE i <= n
    <2>1. i \in 1..Len(t) /\ t[i] = s[i]
        BY <1>1 DEF Spread
    <2> QED
        BY <2>1 DEF HasUplink, Uplink
<1>2. CASE n < i
    <2>1. i + d \in 1..Len(t) /\ t[i + d] = s[i]
        BY <1>2 DEF Spread
    <2> QED
        BY <2>1 DEF HasUplink, Uplink
<1> QED
    BY <1>0, <1>1, <1>2

LEMMA UplinkCut ==
    ASSUME NEW s \in Seq(Op), NEW t, NEW i \in 1..Len(s), Cut(s, t, i),
           s[i].handle # "PT_TX", HasUplink(s)
    PROVE  HasUplink(t)
<1> PICK k \in 1..Len(s) : s[k].handle = "PT_TX"
    BY DEF HasUplink, Uplink
<1>0. i \in Nat /\ k \in Nat /\ i # k
    OBVIOUS
<1>1. CASE k < i
    <2>1. k \in 1..Len(t) /\ t[k] = s[k]
        BY <1>1 DEF Cut
    <2> QED
        BY <2>1 DEF HasUplink, Uplink
<1>2. CASE i < k
    <2>1. k - 1 \in 1..Len(t) /\ t[k - 1] = s[k]
        BY <1>2 DEF Cut
    <2> QED
        BY <2>1 DEF HasUplink, Uplink
<1> QED
    BY <1>0, <1>1, <1>2

LEMMA UplinkHeard ==
    ASSUME ops \in Seq(Op), ops # <<>>
    PROVE  HasUplink(ops) <=> HasUplink(Heard)
BY HeardFacts DEF HasUplink, Uplink

LEMMA PendingInit == Init => UplinkPending
BY DEF Init, UplinkPending

LEMMA PendingNext == TypeOK /\ UplinkPending /\ [Next]_vars => UplinkPending'
<1> SUFFICES ASSUME TypeOK, UplinkPending, [Next]_vars, ptState' = "SCHEDULED_UPLINK"
             PROVE  HasUplink(ops')
    BY DEF UplinkPending, HasUplink, Uplink
<1>0. /\ OpsOK /\ ops \in Seq(Op)
      /\ ptState = "SCHEDULED_UPLINK" => HasUplink(ops)
    BY TypeSplit DEF UplinkPending, HasUplink, Uplink, OpsOK
<1>1. CASE Pdc
    <2>0. ops # <<>>
        BY <1>1 DEF Pdc
    <2>1. CASE Downlink
        <3> PICK calls \in {SlotCalls, FrameCalls} : ScheduleFrom(calls, "SCHEDULED_UPLINK")
            BY <2>1, DownlinkFacts
        <3> PICK taken \in Accepts(calls) :
                /\ ops' = Scheduled(Heard, taken)
                /\ IF "PT_TX" \in taken
                   THEN ptState' = "SCHEDULED_UPLINK" /\ UNCHANGED resync_sem
                   ELSE resync_sem' = 1 /\ UNCHANGED ptState
            BY DEF ScheduleFrom, Schedule
        <3>1. "PT_TX" \in taken
            BY <2>1 DEF Downlink
        <3>2. ops' \in Seq(Op) /\ Len(Heard) < Len(ops') /\ Uplink(ops', Len(ops'))
            BY <1>0, <2>0, <3>1, HeardFacts, ScheduledFacts
        <3>3. Len(ops') \in 1..Len(ops')
            BY <1>0, <2>0, <3>2, HeardFacts, LengthFacts
        <3> QED
            BY <3>2, <3>3 DEF HasUplink
    <2>2. CASE PacketIgnored
        BY <1>0, <2>0, <2>2, UplinkHeard DEF PacketIgnored
    <2>3. CASE FirstBeacon
        <3>1. ptState = "WAIT_FOR_BEACON" /\ ScheduleFrom(FrameCalls, "WAIT_FOR_LATCH_BEACON")
            BY <2>3 DEF FirstBeacon
        <3>2. ptState' \in {ptState, "WAIT_FOR_LATCH_BEACON"}
            BY <1>0, <2>0, <3>1, ScheduleOps
        <3> QED
            BY <3>1, <3>2
    <2>4. CASE NotABeacon \/ LatchBeacon \/ LatchNotABeacon
        BY <2>4 DEF NotABeacon, LatchBeacon, LatchNotABeacon
    <2> QED
        BY <1>1, <2>1, <2>2, <2>3, <2>4 DEF Pdc
<1>2. CASE Completed
    <2> PICK i \in 1..Len(ops) : Complete(i)
        BY <1>2 DEF Completed
    <2> DEFINE h == ops[i].handle
    <2>1. \/ UplinkDone(h)
          \/ NothingToDo(h) /\ ops' = RemoveAt(ops, i)
          \/ ptState # "SCHEDULED_UPLINK" /\ UNCHANGED ptState
        BY DEF Complete, LatchMissed, DownlinkMissed
    <2>2. ~UplinkDone(h)
        BY DEF UplinkDone
    <2>3. CASE NothingToDo(h) /\ ops' = RemoveAt(ops, i)
        <3>1. ptState = "SCHEDULED_UPLINK" /\ h # "PT_TX"
            BY <2>3 DEF NothingToDo, IS_TX_HANDLE
        <3>2. Cut(ops, ops', i)
            BY <1>0, <2>3, RestOps
        <3> QED
            BY <1>0, <3>1, <3>2, UplinkCut
    <2> QED
        BY <2>1, <2>2, <2>3
<1>3. CASE LoopState
    BY <1>3 DEF LoopState
<1>4. CASE LoopListen
    <2> PICK n \in 0..Len(ops), taken \in Accepts({"BEACON_RX"}) :
            n <= 1 /\ Spread(ops, ops', n, IF "BEACON_RX" \in taken THEN 1 ELSE 0)
        BY <1>0, <1>4, ListenOps
    <2>1. n \in Nat
        OBVIOUS
    <2>2. ptState = "SCHEDULED_UPLINK"
        BY <1>4 DEF LoopListen
    <2> QED
        BY <1>0, <2>1, <2>2, UplinkSpread
<1>5. CASE LoopCancel
    <2>1. ptState = "SCHEDULED_UPLINK"
        BY <1>5 DEF LoopCancel
    <2> QED
        BY <1>0, <1>5, <2>1, CancelOps DEF HasUplink, Uplink
<1>6. CASE ops' = ops /\ UNCHANGED ptState
    BY <1>0, <1>6
<1> QED
    BY <1>1, <1>2, <1>3, <1>4, <1>5, <1>6, QuietOps, StateSteps

\* A PT that waits for the end of its uplink has one with the modem: it never
\* waits for an event that cannot come.
THEOREM UplinkToWaitFor == Spec => []UplinkPending
BY PtTypes, PendingInit, PendingNext, PTL DEF Spec

-----------------------------------------------------------------------------
(* What a PT that follows the FT has ahead, when the operations move.      *)

\* f takes what s has behind its first a operations to where t has it,
\* behind its first b.
Carries(f, s, a, t, b) ==
    /\ \A i \in 1..Len(s) : a < i =>
          /\ f[i] \in 1..Len(t) /\ b < f[i]
          /\ t[f[i]].handle = s[i].handle /\ t[f[i]].heard = s[i].heard
    /\ \A i, j \in 1..Len(s) : a < i /\ i < j => f[i] < f[j]

LEMMA SlotCarried ==
    ASSUME NEW f, NEW s \in Seq(Op), NEW a \in Nat, NEW t \in Seq(Op), NEW b \in Nat,
           Carries(f, s, a, t, b), HasSlot(s, a)
    PROVE  HasSlot(t, b)
<1> PICK j, k \in 1..Len(s) : a < j /\ j < k /\ Unheard(s, "PT_RX", j) /\ Uplink(s, k)
    BY DEF HasSlot
<1>1. a < k
    BY LengthFacts
<1>2. f[j] \in 1..Len(t) /\ f[k] \in 1..Len(t) /\ b < f[j] /\ f[j] < f[k]
    BY <1>1 DEF Carries
<1>3. Unheard(t, "PT_RX", f[j]) /\ Uplink(t, f[k])
    BY <1>1 DEF Carries, Unheard, Uplink
<1> QED
    BY <1>2, <1>3 DEF HasSlot

LEMMA FrameCarried ==
    ASSUME NEW f, NEW s \in Seq(Op), NEW a \in Nat, NEW t \in Seq(Op), NEW b \in Nat,
           Carries(f, s, a, t, b), HasFrame(s, a)
    PROVE  HasFrame(t, b)
<1> PICK l \in 1..Len(s) : a < l /\ Unheard(s, "BEACON_LATCH_RX", l) /\ HasSlot(s, l)
    BY DEF HasFrame
<1>1. f[l] \in 1..Len(t) /\ b < f[l] /\ Unheard(t, "BEACON_LATCH_RX", f[l])
    BY DEF Carries, Unheard
<1>2. l \in Nat /\ f[l] \in Nat
    BY <1>1, LengthFacts
<1>3. Carries(f, s, l, t, f[l])
    <2>1. \A i \in 1..Len(s) : l < i => a < i
        BY <1>2, LengthFacts
    <2>2. \A i \in 1..Len(s) : l < i => f[l] < f[i]
        BY DEF Carries
    <2>3. \A i \in 1..Len(s) : l < i =>
             /\ f[i] \in 1..Len(t)
             /\ t[f[i]].handle = s[i].handle /\ t[f[i]].heard = s[i].heard
        BY <2>1 DEF Carries
    <2>4. \A i, j \in 1..Len(s) : l < i /\ i < j => f[i] < f[j]
        BY <2>1 DEF Carries
    <2> QED
        BY <2>2, <2>3, <2>4 DEF Carries
<1>4. HasSlot(t, f[l])
    BY <1>2, <1>3, SlotCarried
<1> QED
    BY <1>1, <1>4 DEF HasFrame

\* Behind fewer operations there is at least as much.
LEMMA FartherAhead ==
    ASSUME NEW s \in Seq(Op), NEW a \in Nat, NEW b \in Nat, b <= a
    PROVE  (HasSlot(s, a) => HasSlot(s, b)) /\ (HasFrame(s, a) => HasFrame(s, b))
<1>1. \A i \in 1..Len(s) : a < i => b < i
    BY LengthFacts
<1> QED
    BY <1>1 DEF HasSlot, HasFrame

\* What a PT in state SCHEDULED_UPLINK has ahead behind place u.
Rest(s, u, last) == IF last THEN HasFrame(s, u) ELSE HasSlot(s, u)

LEMMA RestCarried ==
    ASSUME NEW f, NEW s \in Seq(Op), NEW a \in Nat, NEW t \in Seq(Op), NEW b \in Nat,
           Carries(f, s, a, t, b), NEW last, Rest(s, a, last)
    PROVE  Rest(t, b, last)
BY SlotCarried, FrameCarried DEF Rest

\* The four ways in which operations move.
LEMMA CarriedHeard ==
    ASSUME ops \in Seq(Op), ops # <<>>, NEW a \in Nat, 1 <= a
    PROVE  Carries([i \in 1..Len(ops) |-> i], ops, a, Heard, a)
<1>1. \A i \in 1..Len(ops) : a < i => i # 1 /\ i \in 1..Len(Heard) /\ Heard[i] = ops[i]
    BY HeardFacts
<1> QED
    BY <1>1 DEF Carries

LEMMA CarriedGrown ==
    ASSUME NEW s \in Seq(Op), NEW t \in Seq(Op), Grown(s, t), NEW a \in Nat
    PROVE  Carries([i \in 1..Len(s) |-> i], s, a, t, a)
BY DEF Grown, Carries

LEMMA CarriedCut ==
    ASSUME NEW s \in Seq(Op), NEW t \in Seq(Op), NEW i \in 1..Len(s), Cut(s, t, i),
           NEW a \in Nat, i <= a
    PROVE  Carries([k \in 1..Len(s) |-> k - 1], s, a, t, a - 1)
<1>1. i \in Nat /\ \A k \in 1..Len(s) : k \in Nat /\ (a < k => i < k /\ a - 1 < k - 1)
    BY LengthFacts
<1>2. \A k \in 1..Len(s) : a < k => k - 1 \in 1..Len(t) /\ t[k - 1] = s[k]
    BY <1>1 DEF Cut
<1>3. \A k, j \in 1..Len(s) : k < j => k - 1 < j - 1
    BY <1>1
<1> QED
    BY <1>1, <1>2, <1>3 DEF Carries

LEMMA CarriedSpread ==
    ASSUME NEW s \in Seq(Op), NEW t \in Seq(Op), NEW n \in Nat, NEW d \in Nat, Spread(s, t, n, d),
           NEW f, f = [k \in 1..Len(s) |-> IF k <= n THEN k ELSE k + d]
    PROVE  /\ Carries(f, s, 0, t, 0)
           /\ \A a \in 1..Len(s) : f[a] \in 1..Len(t) /\ t[f[a]] = s[a] /\ Carries(f, s, a, t, f[a])
<1>1. \A k \in 1..Len(s) : k \in Nat /\ f[k] = IF k <= n THEN k ELSE k + d
    BY LengthFacts
<1>2. \A k \in 1..Len(s) : f[k] \in 1..Len(t) /\ t[f[k]] = s[k]
    <2> SUFFICES ASSUME NEW k \in 1..Len(s) PROVE f[k] \in 1..Len(t) /\ t[f[k]] = s[k]
        OBVIOUS
    <2>1. CASE k <= n
        BY <1>1, <2>1 DEF Spread
    <2>2. CASE n < k
        <3>1. f[k] = k + d
            BY <1>1, <2>2
        <3> QED
            BY <2>2, <3>1 DEF Spread
    <2> QED
        BY <1>1, <2>1, <2>2
<1>3. \A k, j \in 1..Len(s) : k < j => f[k] < f[j]
    BY <1>1
<1>4. \A k \in 1..Len(s) : 0 < f[k]
    BY <1>1
<1>5. Carries(f, s, 0, t, 0)
    BY <1>2, <1>3, <1>4 DEF Carries
<1>6. ASSUME NEW a \in 1..Len(s) PROVE Carries(f, s, a, t, f[a])
    BY <1>2, <1>3 DEF Carries
<1> QED
    BY <1>2, <1>5, <1>6

-----------------------------------------------------------------------------
(* No operation is doomed but by the cancellation under way.               *)

Undoomed(s) == \A i \in 1..Len(s) : ~s[i].doomed
DoomedInv == ~cancelling => Undoomed(ops)

LEMMA UndoomedCall ==
    ASSUME NEW s \in Seq(Op), NEW h \in Handles, NEW taken, Undoomed(s)
    PROVE  Undoomed(s \o Taken(h, taken))
<1> DEFINE t == s \o Taken(h, taken)
<1>1. /\ t \in Seq(Op) /\ Grown(s, t)
      /\ h \in taken => Len(t) = Len(s) + 1 /\ t[Len(s) + 1] = NewOp(h)
      /\ h \notin taken => Len(t) = Len(s)
    BY CallFacts
<1> HIDE DEF t
<1>2. Len(s) \in Nat
    BY LengthFacts
<1>3. ASSUME NEW i \in 1..Len(t) PROVE ~t[i].doomed
    <2>1. CASE i \in 1..Len(s)
        <3>1. t[i] = s[i]
            BY <1>1, <2>1 DEF Grown
        <3> QED
            BY <2>1, <3>1 DEF Undoomed
    <2>2. CASE i \notin 1..Len(s)
        <3>1. h \in taken /\ i = Len(s) + 1
            BY <1>1, <1>2, <2>2
        <3>2. t[i] = NewOp(h)
            BY <1>1, <3>1
        <3> QED
            BY <3>2 DEF NewOp
    <2> QED
        BY <2>1, <2>2
<1>4. Undoomed(t)
    BY <1>3 DEF Undoomed
<1> QED
    BY <1>4 DEF t

LEMMA UndoomedScheduled ==
    ASSUME NEW s \in Seq(Op), NEW taken, Undoomed(s)
    PROVE  Undoomed(Scheduled(s, taken))
<1> DEFINE a == s \o Taken("BEACON_LATCH_RX", taken)
           b == a \o Taken("PT_RX", taken)
<1>h. "BEACON_LATCH_RX" \in Handles /\ "PT_RX" \in Handles /\ "PT_TX" \in Handles
    BY DEF Handles
<1>1. a \in Seq(Op) /\ Undoomed(a)
    BY <1>h, CallFacts, UndoomedCall
<1> HIDE DEF a
<1>2. b \in Seq(Op) /\ Undoomed(b)
    BY <1>h, <1>1, CallFacts, UndoomedCall
<1> HIDE DEF b
<1>3. Undoomed(b \o Taken("PT_TX", taken))
    BY <1>h, <1>2, UndoomedCall
<1> QED
    BY <1>3 DEF a, b, Scheduled

LEMMA UndoomedHeard ==
    ASSUME ops \in Seq(Op), ops # <<>>, Undoomed(ops)
    PROVE  Undoomed(Heard)
BY HeardFacts DEF Undoomed

LEMMA UndoomedCut ==
    ASSUME NEW s \in Seq(Op), NEW i \in 1..Len(s), NEW t \in Seq(Op), Cut(s, t, i), Undoomed(s)
    PROVE  Undoomed(t)
<1>1. \A k \in 1..Len(t) : k \in 1..Len(s) /\ k + 1 \in 1..Len(s)
    BY LengthFacts DEF Cut
<1>2. \A k \in 1..Len(t) : t[k] = s[k] \/ t[k] = s[k + 1]
    BY DEF Cut
<1> QED
    BY <1>1, <1>2 DEF Undoomed

LEMMA UndoomedSpread ==
    ASSUME NEW s, NEW t, NEW n, NEW d, Spread(s, t, n, d), Undoomed(s)
    PROVE  Undoomed(t)
<1>1. ~NewOp("BEACON_RX").doomed
    BY DEF NewOp
<1> QED
    BY <1>1 DEF Spread, Undoomed

LEMMA UndoomedPdc ==
    ASSUME OpsOK, Pdc, Undoomed(ops)
    PROVE  Undoomed(ops')
<1>0. ops # <<>> /\ ops \in Seq(Op) /\ Heard \in Seq(Op) /\ Undoomed(Heard)
    BY UndoomedHeard, HeardFacts DEF Pdc, OpsOK
<1>1. CASE FirstBeacon \/ Downlink
    <2> PICK calls, next : ScheduleFrom(calls, next)
        BY <1>1 DEF FirstBeacon, Downlink
    <2> PICK taken : ops' = Scheduled(Heard, taken)
        BY DEF ScheduleFrom, Schedule
    <2> QED
        BY <1>0, UndoomedScheduled
<1>2. CASE NotABeacon \/ LatchNotABeacon
    <2>1. ListenNow(<<Head(Heard)>>, Tail(Heard))
        BY <1>2 DEF NotABeacon, LatchNotABeacon
    <2> PICK taken : Spread(Heard, ops', 1, IF "BEACON_RX" \in taken THEN 1 ELSE 0)
        BY <1>0, <2>1, NotABeaconOps
    <2> QED
        BY <1>0, UndoomedSpread
<1>3. CASE LatchBeacon \/ PacketIgnored
    BY <1>0, <1>3 DEF LatchBeacon, PacketIgnored
<1> QED
    BY <1>1, <1>2, <1>3 DEF Pdc

LEMMA UndoomedCompleted ==
    ASSUME OpsOK, NEW i \in 1..Len(ops), Complete(i), Undoomed(ops)
    PROVE  Undoomed(ops')
<1> DEFINE rest == RemoveAt(ops, i)
<1>0. rest \in Seq(Op) /\ Undoomed(rest)
    <2>1. ops \in Seq(Op) /\ rest \in Seq(Op) /\ Cut(ops, rest, i)
        BY RestOps DEF OpsOK
    <2> QED
        BY <2>1, UndoomedCut
<1> HIDE DEF rest
<1>1. ops' = rest \/ ListenNow(<<>>, rest)
    BY DEF Complete, rest
<1>2. CASE ListenNow(<<>>, rest)
    <2> PICK taken : ops' = <<>> \o Taken("BEACON_RX", taken) \o rest
        BY <1>2 DEF ListenNow
    <2>1. Spread(rest, ops', 0, IF "BEACON_RX" \in taken THEN 1 ELSE 0)
        BY <1>0, ListenFirst
    <2> QED
        BY <1>0, <2>1, UndoomedSpread
<1> QED
    BY <1>0, <1>1, <1>2

LEMMA DoomedInit == Init => DoomedInv
BY DEF Init, DoomedInv, Undoomed

LEMMA DoomedNext == TypeOK /\ DoomedInv /\ [Next]_vars => DoomedInv'
<1> SUFFICES ASSUME TypeOK, DoomedInv, [Next]_vars, ~cancelling' PROVE Undoomed(ops')
    BY DEF DoomedInv
<1>0. OpsOK /\ ops \in Seq(Op)
    BY TypeSplit DEF OpsOK
<1>1. CASE on_cancel
    BY <1>1 DEF on_cancel, Undoomed
<1>2. CASE LoopCancel
    BY <1>2 DEF LoopCancel
<1>3. CASE ~on_cancel /\ ~LoopCancel
    <2>1. cancelling' = cancelling
        BY <1>3, HandshakeSteps DEF LoopCancelled
    <2>2. Undoomed(ops)
        BY <2>1 DEF DoomedInv
    <2>3. CASE Pdc
        BY <1>0, <2>2, <2>3, UndoomedPdc
    <2>4. CASE Completed
        BY <1>0, <2>2, <2>4, UndoomedCompleted DEF Completed
    <2>5. CASE LoopListen
        <3> PICK n, taken : Spread(ops, ops', n, IF "BEACON_RX" \in taken THEN 1 ELSE 0)
            BY <1>0, <2>5, ListenOps
        <3> QED
            BY <2>2, UndoomedSpread
    <2>6. CASE ops' = ops
        BY <2>2, <2>6
    <2> QED
        BY <1>3, <2>3, <2>4, <2>5, <2>6, QuietOps
<1> QED
    BY <1>1, <1>2, <1>3

-----------------------------------------------------------------------------
(* A PT that follows the FT has ahead what it needs.                       *)

\* Only LoopState forgets that the wait for a beacon has timed out.
LEMMA TimedOutSteps == [Next]_vars /\ timedOut /\ ~timedOut' => LoopState
<1> SUFFICES ASSUME [Next]_vars, ~LoopState, timedOut PROVE timedOut'
    OBVIOUS
<1>1. CASE Completed
    BY <1>1 DEF Completed, Complete
<1>2. CASE UNCHANGED timedOut
    BY <1>2
<1> QED
    BY <1>1, <1>2 DEF Next, Modem, Loop, Pdc, on_cancel, on_time_get_pt, MainTime, LoopTime,
       LoopListen, LoopResync, LoopCancel, LoopCancelled, LoopCold, LoopSleep, vars

\* Where Ahead is due after a step it was due before, LoopState apart: only
\* the loop on its way to a cancellation takes the semaphore's token.
LEMMA Following ==
    ASSUME TypeOK, AheadInv, [Next]_vars, faults' = {}, ~timedOut', pc' \in {"listen", "resync"},
           resync_sem' = 0
    PROVE  /\ faults = {}
           /\ ~LoopState => Ahead /\ pc # "cancelled"
           /\ LoopListen \/ LoopState \/ pc' = pc
<1>1. faults = {}
    BY FaultsKept
<1>2. LoopListen \/ LoopState \/ pc' = pc
    BY DEF Next, Modem, Loop, Pdc, Completed, Complete, on_cancel, on_time_get_pt, MainTime, LoopTime,
           LoopResync, LoopCancel, LoopCancelled, LoopCold, LoopSleep, Goto, vars
<1>3. ASSUME ~LoopState PROVE pc \in {"listen", "resync"} /\ ~timedOut
    <2>1. pc \in {"listen", "resync"}
        BY <1>2, <1>3 DEF LoopListen, Goto
    <2>2. ~timedOut
        BY <1>3, TimedOutSteps
    <2> QED
        BY <2>1, <2>2
<1>4. resync_sem = 0
    <2>1. resync_sem \in 0..1
        BY TypeSplit DEF ScalarsOK
    <2>2. CASE UNCHANGED resync_sem
        BY <2>2
    <2>3. CASE Pdc
        <3>1. resync_sem' \in {resync_sem, 1}
            BY <2>3 DEF Pdc, FirstBeacon, NotABeacon, LatchBeacon, LatchNotABeacon, Downlink,
                        PacketIgnored, ScheduleFrom
        <3> QED
            BY <3>1
    <2>4. CASE Completed
        <3>1. resync_sem' \in {resync_sem, 1}
            BY <2>4 DEF Completed, Complete, UplinkDone, NothingToDo
        <3> QED
            BY <3>1
    <2>5. CASE LoopResync
        BY <2>5 DEF LoopResync, Goto
    <2> QED
        BY <2>2, <2>3, <2>4, <2>5
           DEF Next, Modem, Loop, on_cancel, on_time_get_pt, MainTime, LoopTime, LoopState,
               LoopListen, LoopCancel, LoopCancelled, LoopCold, LoopSleep, sems, vars
<1> QED
    BY <1>1, <1>2, <1>3, <1>4 DEF AheadInv

\* Without faults the modem takes a reception that starts at once.
LEMMA NoneRefused ==
    ASSUME faults = {}, NEW calls
    PROVE  \A taken \in Accepts(calls) : taken = calls
BY DEF Accepts

LEMMA NewReception ==
    ASSUME NEW s, NEW t, NEW n, Spread(s, t, n, 1)
    PROVE  \E i \in 1..Len(t) : Unheard(t, "BEACON_RX", i)
<1>1. n + 1 \in 1..Len(t) /\ t[n + 1] = NewOp("BEACON_RX")
    BY DEF Spread
<1>2. NewOp("BEACON_RX").handle = "BEACON_RX" /\ ~NewOp("BEACON_RX").heard
    BY DEF NewOp
<1> QED
    BY <1>1, <1>2 DEF Unheard

\* Ahead, with what a PT in state SCHEDULED_UPLINK has ahead named.
LEMMA AheadSplit ==
    Ahead <=>
        /\ ptState # "IDLE"
        /\ ptState = "WAIT_FOR_BEACON" /\ pc = "resync" =>
              \E i \in 1..Len(ops) : Unheard(ops, "BEACON_RX", i)
        /\ ptState = "WAIT_FOR_LATCH_BEACON" => HasFrame(ops, 0)
        /\ ptState = "SCHEDULED_DOWNLINK" => HasSlot(ops, 0)
        /\ ptState = "SCHEDULED_UPLINK" =>
              \E u \in 1..Len(ops) : Uplink(ops, u) /\ Rest(ops, u, slotCounter = 0)
BY DEF Ahead, Rest

LEMMA AheadJoin ==
    ASSUME ptState' # "IDLE",
           ptState' = "WAIT_FOR_BEACON" /\ pc' = "resync" =>
              \E i \in 1..Len(ops') : Unheard(ops', "BEACON_RX", i),
           ptState' = "WAIT_FOR_LATCH_BEACON" => HasFrame(ops', 0),
           ptState' = "SCHEDULED_DOWNLINK" => HasSlot(ops', 0),
           ptState' = "SCHEDULED_UPLINK" =>
              \E u \in 1..Len(ops') : Uplink(ops', u) /\ Rest(ops', u, slotCounter' = 0)
    PROVE  Ahead'
BY DEF Ahead, Rest

LEMMA AheadPdc ==
    ASSUME TypeOK, faults = {}, Ahead, Pdc
    PROVE  Ahead'
<1>0. /\ ops \in Seq(Op) /\ ops # <<>> /\ Heard \in Seq(Op) /\ OpsOK
      /\ Len(Heard) = Len(ops) /\ Len(ops) \in Nat
    BY TypeSplit, HeardFacts DEF Pdc, OpsOK
<1>h. \A i \in 1..Len(ops) : Uplink(ops, i) => i # 1 /\ 2 <= i /\ i \in Nat
    BY <1>0 DEF Pdc, Uplink
<1>1. CASE FirstBeacon
    <2>1. ScheduleFrom(FrameCalls, "WAIT_FOR_LATCH_BEACON")
        BY <1>1 DEF FirstBeacon
    <2>2. ptState' = "WAIT_FOR_LATCH_BEACON" /\ ops' = Scheduled(Heard, FrameCalls)
        BY <2>1, AllTaken, CallsFacts
    <2>3. ops' \in Seq(Op) /\ HasFrame(ops', Len(Heard))
        BY <1>0, <2>2, ScheduledFacts
    <2>4. HasFrame(ops', 0)
        BY <1>0, <2>3, FartherAhead
    <2> QED
        BY <2>2, <2>4, AheadJoin
<1>2. CASE NotABeacon \/ LatchNotABeacon
    <2>1. ListenNow(<<Head(Heard)>>, Tail(Heard)) /\ ptState' = "WAIT_FOR_BEACON"
        BY <1>2 DEF NotABeacon, LatchNotABeacon
    <2> PICK taken \in Accepts({"BEACON_RX"}) :
            Spread(Heard, ops', 1, IF "BEACON_RX" \in taken THEN 1 ELSE 0)
        BY <1>0, <2>1, NotABeaconOps
    <2>2. Spread(Heard, ops', 1, 1)
        BY NoneRefused
    <2>3. \E i \in 1..Len(ops') : Unheard(ops', "BEACON_RX", i)
        BY <2>2, NewReception
    <2> QED
        BY <2>1, <2>3, AheadJoin
<1>3. CASE LatchBeacon
    <2>1. ptState = "WAIT_FOR_LATCH_BEACON" /\ ptState' = "SCHEDULED_DOWNLINK" /\ ops' = Heard
        BY <1>3 DEF LatchBeacon
    <2> PICK l \in 1..Len(ops) : HasSlot(ops, l)
        BY <2>1, AheadSplit DEF HasFrame
    <2>2. l \in Nat /\ 1 <= l /\ 0 <= l
        BY <1>0
    <2>3. HasSlot(Heard, l)
        BY <1>0, <2>2, CarriedHeard, SlotCarried
    <2>4. HasSlot(Heard, 0)
        BY <1>0, <2>2, <2>3, FartherAhead
    <2> QED
        BY <2>1, <2>4, AheadJoin
<1>4. CASE Downlink
    <2> PICK calls \in {SlotCalls, FrameCalls} :
            /\ calls = IF slotCounter' # 0 THEN SlotCalls ELSE FrameCalls
            /\ "PT_TX" \in calls /\ ScheduleFrom(calls, "SCHEDULED_UPLINK")
        BY <1>4, DownlinkFacts
    <2>1. ptState' = "SCHEDULED_UPLINK" /\ ops' = Scheduled(Heard, calls)
        BY AllTaken
    <2>2. ptState = "SCHEDULED_DOWNLINK"
        BY <1>4 DEF Downlink
    <2> PICK k \in 1..Len(ops) : Uplink(ops, k)
        BY <2>2, AheadSplit DEF HasSlot
    <2>3. ops' \in Seq(Op) /\ Grown(Heard, ops')
        BY <1>0, <2>1, ScheduledFacts
    <2>4. k \in 1..Len(ops') /\ Uplink(ops', k)
        <3>1. k \in 1..Len(Heard) /\ Heard[k].handle = ops[k].handle
            BY <1>0, HeardFacts
        <3> QED
            BY <2>3, <3>1 DEF Grown, Uplink
    <2>5. Rest(ops', Len(Heard), slotCounter' = 0)
        <3>1. CASE slotCounter' = 0
            <4>1. HasFrame(ops', Len(Heard))
                BY <1>0, <2>1, <3>1, ScheduledFacts
            <4> QED
                BY <3>1, <4>1 DEF Rest
        <3>2. CASE slotCounter' # 0
            <4>1. HasSlot(ops', Len(Heard))
                BY <1>0, <2>1, <3>2, ScheduledFacts
            <4> QED
                BY <3>2, <4>1 DEF Rest
        <3> QED
            BY <3>1, <3>2
    <2>6. Rest(ops', k, slotCounter' = 0)
        <3>1. k \in Nat /\ k <= Len(Heard) /\ Len(Heard) \in Nat
            BY <1>0
        <3> QED
            BY <2>3, <2>5, <3>1, FartherAhead DEF Rest
    <2> QED
        BY <2>1, <2>4, <2>6, AheadJoin
<1>5. CASE PacketIgnored
    <2>1. ptState = "SCHEDULED_UPLINK" /\ ptState' = ptState /\ ops' = Heard /\ slotCounter' = slotCounter
        BY <1>5, AheadSplit DEF PacketIgnored
    <2> PICK u \in 1..Len(ops) : Uplink(ops, u) /\ Rest(ops, u, slotCounter = 0)
        BY <2>1, AheadSplit
    <2>2. u \in 1..Len(Heard) /\ Uplink(Heard, u)
        BY <1>0, HeardFacts DEF Uplink
    <2>3. Rest(Heard, u, slotCounter = 0)
        <3>1. u \in Nat /\ 1 <= u
            BY <1>h
        <3>2. Carries([i \in 1..Len(ops) |-> i], ops, u, Heard, u)
            BY <1>0, <3>1, CarriedHeard
        <3> QED
            BY <1>0, <3>1, <3>2, RestCarried
    <2> QED
        BY <2>1, <2>2, <2>3, AheadJoin
<1> QED
    BY <1>1, <1>2, <1>3, <1>4, <1>5 DEF Pdc

\* Without faults nothing but a reception for a beacon is overtaken.
LEMMA EndsInOrder ==
    ASSUME OpsOK, faults = {}, Undoomed(ops), NEW i \in 1..Len(ops), MayEnd(i)
    PROVE  \A p \in 1..Len(ops) : ops[p].handle # "BEACON_RX" => i <= p
<1>1. Len(ops) \in Nat /\ i \in Nat /\ ~ops[i].doomed
    BY LengthFacts DEF OpsOK, Undoomed
<1>2. i = 1 \/ \A j \in 1..i - 1 : ops[j].handle = "BEACON_RX"
    BY <1>1 DEF MayEnd
<1>3. ASSUME NEW p \in 1..Len(ops), ops[p].handle # "BEACON_RX" PROVE i <= p
    <2>1. p \in Nat /\ 1 <= p
        BY <1>1
    <2>2. p \notin 1..i - 1 \/ i = 1
        BY <1>2, <1>3
    <2> QED
        BY <1>1, <2>1, <2>2
<1> QED
    BY <1>3

LEMMA AheadCompleted ==
    ASSUME TypeOK, faults = {}, Ahead, Undoomed(ops), NEW i \in 1..Len(ops), Complete(i),
           resync_sem' = 0, ~timedOut'
    PROVE  Ahead'
<1> DEFINE h == ops[i].handle
           t == RemoveAt(ops, i)
           f == [k \in 1..Len(ops) |-> k - 1]
<1>0. /\ OpsOK /\ ops \in Seq(Op) /\ Len(ops) \in Nat /\ i \in Nat /\ 1 <= i
      /\ t \in Seq(Op) /\ Cut(ops, t, i) /\ pc' = pc
    <2>1. OpsOK /\ ops \in Seq(Op)
        BY TypeSplit DEF OpsOK
    <2>2. Len(ops) \in Nat /\ i \in Nat /\ 1 <= i
        BY <2>1, LengthFacts
    <2> QED
        BY <2>1, <2>2, RestOps DEF Complete
<1>1. /\ \A p \in 1..Len(ops) : ops[p].handle # "BEACON_RX" => i <= p
      /\ ptState = "WAIT_FOR_BEACON" => ~Unheard(ops, "BEACON_RX", i)
    <2>1. \A p \in 1..Len(ops) : ops[p].handle # "BEACON_RX" => i <= p
        BY <1>0, EndsInOrder DEF Complete
    <2>2. ~TimedOut(ops[i])
        BY DEF Complete
    <2>3. ptState = "WAIT_FOR_BEACON" => ~Unheard(ops, "BEACON_RX", i)
        BY <2>2 DEF TimedOut, Unheard, Undoomed
    <2> QED
        BY <2>1, <2>3
<1>2. ops' = t /\ (UplinkDone(h) \/ NothingToDo(h))
    BY DEF Complete
<1>3. ~LatchMissed(h) /\ ~DownlinkMissed(h)
    BY <1>2 DEF LatchMissed, DownlinkMissed, UplinkDone, NothingToDo
<1> HIDE DEF t
<1>4. \A a \in 1..Len(ops) : i <= a => Carries(f, ops, a, t, a - 1) /\ a - 1 \in Nat /\ a \in Nat
    BY <1>0, CarriedCut
<1> HIDE DEF f, h
<1>5. CASE UplinkDone(h)
    <2>1. ptState = "SCHEDULED_UPLINK"
        BY <1>5 DEF UplinkDone
    <2> PICK u \in 1..Len(ops) : Uplink(ops, u) /\ Rest(ops, u, slotCounter = 0)
        BY <2>1, AheadSplit
    <2>2. i <= u
        BY <1>1 DEF Uplink
    <2>3. Rest(t, u - 1, slotCounter = 0) /\ u - 1 \in Nat
        BY <1>0, <1>4, <2>2, RestCarried
    <2>4. Rest(t, 0, slotCounter = 0)
        <3>1. 0 <= u - 1
            BY <2>3
        <3> QED
            BY <1>0, <2>3, <3>1, FartherAhead DEF Rest
    <2>5. CASE slotCounter = 0
        <3>1. ptState' = "WAIT_FOR_LATCH_BEACON" /\ HasFrame(ops', 0)
            BY <1>2, <1>5, <2>4, <2>5 DEF UplinkDone, Rest
        <3> QED
            BY <3>1, AheadJoin
    <2>6. CASE slotCounter # 0
        <3>1. ptState' = "SCHEDULED_DOWNLINK" /\ HasSlot(ops', 0)
            BY <1>2, <1>5, <2>4, <2>6 DEF UplinkDone, Rest
        <3> QED
            BY <3>1, AheadJoin
    <2> QED
        BY <2>5, <2>6
<1>6. CASE NothingToDo(h)
    <2>0. /\ ptState' = ptState /\ slotCounter' = slotCounter
          /\ ~(ptState = "SCHEDULED_UPLINK" /\ h = "PT_TX")
        BY <1>6 DEF NothingToDo, IS_TX_HANDLE
    <2>1. CASE ptState = "WAIT_FOR_BEACON"
        <3>1. ASSUME pc' = "resync" PROVE \E b \in 1..Len(t) : Unheard(t, "BEACON_RX", b)
            <4> PICK b \in 1..Len(ops) : Unheard(ops, "BEACON_RX", b)
                BY <1>0, <2>1, <3>1, AheadSplit
            <4>1. b # i /\ b \in Nat
                BY <1>0, <1>1, <2>1
            <4>2. CASE b < i
                <5>1. b \in 1..Len(t) /\ t[b] = ops[b]
                    BY <1>0, <4>2 DEF Cut
                <5> QED
                    BY <5>1 DEF Unheard
            <4>3. CASE i < b
                <5>1. b - 1 \in 1..Len(t) /\ t[b - 1] = ops[b]
                    BY <1>0, <4>3 DEF Cut
                <5> QED
                    BY <5>1 DEF Unheard
            <4> QED
                BY <1>0, <4>1, <4>2, <4>3
        <3> QED
            BY <1>2, <2>0, <2>1, <3>1, AheadJoin
    <2>2. CASE ptState = "WAIT_FOR_LATCH_BEACON"
        <3> PICK l \in 1..Len(ops) : Unheard(ops, "BEACON_LATCH_RX", l) /\ HasSlot(ops, l)
            BY <2>2, AheadSplit DEF HasFrame
        <3>1. i <= l /\ i # l
            BY <1>1, <1>3, <2>2 DEF Unheard, LatchMissed, h
        <3>2. i < l /\ l \in Nat
            BY <1>0, <3>1
        <3>3. l - 1 \in 1..Len(t) /\ t[l - 1] = ops[l] /\ 0 < l - 1
            BY <1>0, <3>2 DEF Cut
        <3>4. HasSlot(t, l - 1)
            BY <1>0, <1>4, <3>1, SlotCarried
        <3>5. HasFrame(t, 0)
            BY <3>3, <3>4 DEF HasFrame, Unheard
        <3> QED
            BY <1>2, <2>0, <2>2, <3>5, AheadJoin
    <2>3. CASE ptState = "SCHEDULED_DOWNLINK"
        <3> PICK j, k \in 1..Len(ops) : j < k /\ Unheard(ops, "PT_RX", j) /\ Uplink(ops, k)
            BY <2>3, AheadSplit DEF HasSlot
        <3>1. i <= j /\ i # j
            BY <1>1, <1>3, <2>3 DEF Unheard, DownlinkMissed, IS_RX_HANDLE, h
        <3>2. i < j /\ i \in 1..Len(ops)
            BY <1>0, <3>1
        <3>3. HasSlot(ops, i)
            BY <3>2 DEF HasSlot
        <3>4. i <= i /\ i - 1 \in Nat /\ 0 <= i - 1
            BY <1>0
        <3>5. HasSlot(t, i - 1)
            BY <1>0, <1>4, <3>3, <3>4, SlotCarried
        <3>6. HasSlot(t, 0)
            BY <1>0, <3>4, <3>5, FartherAhead
        <3> QED
            BY <1>2, <2>0, <2>3, <3>6, AheadJoin
    <2>4. CASE ptState = "SCHEDULED_UPLINK"
        <3> PICK u \in 1..Len(ops) : Uplink(ops, u) /\ Rest(ops, u, slotCounter = 0)
            BY <2>4, AheadSplit
        <3>1. i <= u /\ i # u
            BY <1>1, <2>0, <2>4 DEF Uplink, h
        <3>2. u - 1 \in 1..Len(t) /\ t[u - 1] = ops[u]
            <4>1. i < u
                BY <1>0, <3>1
            <4> QED
                BY <1>0, <4>1 DEF Cut
        <3>3. Rest(t, u - 1, slotCounter = 0)
            BY <1>0, <1>4, <3>1, RestCarried
        <3>4. Uplink(t, u - 1)
            BY <3>2 DEF Uplink
        <3> QED
            BY <1>2, <2>0, <2>4, <3>2, <3>3, <3>4, AheadJoin
    <2> QED
        <3>1. ptState \in States /\ ptState # "IDLE"
            BY TypeSplit, AheadSplit DEF ScalarsOK
        <3> QED
            BY <2>1, <2>2, <2>3, <2>4, <3>1 DEF States
<1> QED
    BY <1>2, <1>5, <1>6

LEMMA AheadListen ==
    ASSUME TypeOK, faults = {}, Ahead, LoopListen
    PROVE  Ahead'
<1>0. OpsOK /\ ops \in Seq(Op) /\ ops' \in Seq(Op)
    BY TypeSplit, ListenOps DEF OpsOK
<1>1. UNCHANGED <<ptState, slotCounter>>
    BY DEF LoopListen
<1> PICK n \in 0..Len(ops), taken \in Accepts({"BEACON_RX"}) :
        Spread(ops, ops', n, IF "BEACON_RX" \in taken THEN 1 ELSE 0)
    BY <1>0, ListenOps
<1>2. Spread(ops, ops', n, 1) /\ n \in Nat /\ 1 \in Nat
    BY NoneRefused
<1> DEFINE f == [k \in 1..Len(ops) |-> IF k <= n THEN k ELSE k + 1]
<1>3. /\ Carries(f, ops, 0, ops', 0)
      /\ \A a \in 1..Len(ops) :
            f[a] \in 1..Len(ops') /\ ops'[f[a]] = ops[a] /\ Carries(f, ops, a, ops', f[a])
    BY <1>0, <1>2, CarriedSpread
<1> HIDE DEF f
<1>4. \E i \in 1..Len(ops') : Unheard(ops', "BEACON_RX", i)
    BY <1>2, NewReception
<1>5. ptState' = "WAIT_FOR_LATCH_BEACON" => HasFrame(ops', 0)
    BY <1>0, <1>1, <1>3, FrameCarried, AheadSplit
<1>6. ptState' = "SCHEDULED_DOWNLINK" => HasSlot(ops', 0)
    BY <1>0, <1>1, <1>3, SlotCarried, AheadSplit
<1>7. ASSUME ptState' = "SCHEDULED_UPLINK"
      PROVE  \E u \in 1..Len(ops') : Uplink(ops', u) /\ Rest(ops', u, slotCounter' = 0)
    <2> PICK u \in 1..Len(ops) : Uplink(ops, u) /\ Rest(ops, u, slotCounter = 0)
        BY <1>1, <1>7, AheadSplit
    <2>1. f[u] \in 1..Len(ops') /\ ops'[f[u]] = ops[u] /\ u \in Nat /\ f[u] \in Nat
        BY <1>0, <1>3
    <2>2. Rest(ops', f[u], slotCounter = 0)
        BY <1>0, <1>3, <2>1, RestCarried
    <2> QED
        BY <1>1, <2>1, <2>2 DEF Uplink
<1>8. ptState' # "IDLE"
    BY <1>1, AheadSplit
<1> QED
    BY <1>4, <1>5, <1>6, <1>7, <1>8, AheadJoin

LEMMA AheadInit == Init => AheadInv
BY DEF Init, AheadInv

LEMMA AheadNext ==
    TypeOK /\ CancelHandshake /\ DoomedInv /\ AheadInv /\ [Next]_vars => AheadInv'
<1> SUFFICES ASSUME TypeOK, CancelHandshake, DoomedInv, AheadInv, [Next]_vars,
                    faults' = {}, ~timedOut', pc' \in {"listen", "resync"}, resync_sem' = 0
             PROVE  Ahead'
    BY DEF AheadInv
<1>0. /\ faults = {}
      /\ ~LoopState => Ahead /\ pc # "cancelled"
      /\ LoopListen \/ LoopState \/ pc' = pc
    BY Following
<1>1. CASE LoopState
    <2>1. ptState' = "WAIT_FOR_BEACON" /\ pc' = "listen"
        BY <1>1 DEF LoopState, Goto
    <2> QED
        BY <2>1, AheadJoin
<1>2. CASE ~LoopState
    <2>0. Ahead /\ Undoomed(ops)
        BY <1>0, <1>2 DEF CancelHandshake, DoomedInv
    <2>1. CASE Pdc
        BY <1>0, <2>0, <2>1, AheadPdc
    <2>2. CASE Completed
        BY <1>0, <2>0, <2>2, AheadCompleted DEF Completed
    <2>3. CASE LoopListen
        BY <1>0, <2>0, <2>3, AheadListen
    <2>4. CASE ops' = ops /\ UNCHANGED <<ptState, slotCounter>> /\ pc' = pc
        BY <2>0, <2>4 DEF Ahead
    <2>5. ~LoopCancel
        BY <1>0, <1>2, <2>3 DEF LoopCancel, Goto
    <2> QED
        BY <1>0, <1>2, <2>1, <2>2, <2>3, <2>4, <2>5, QuietOps, StateSteps
<1> QED
    BY <1>1, <1>2

\* With a modem without faults a PT that spins, has nothing that asks it to
\* resynchronise, and whose reception for a beacon has not timed out since it
\* began to wait for one, has a reception before it: until then it is not deaf.
THEOREM PtNeverDeaf == Spec => []NeverDeaf
<1>1. TypeOK /\ AheadInv => NeverDeaf
    <2> SUFFICES ASSUME TypeOK, AheadInv, faults = {}, ~timedOut, pc = "resync", resync_sem = 0
                 PROVE  \E i \in 1..Len(ops) : ops[i].handle # "PT_TX" /\ ~ops[i].heard
        BY DEF NeverDeaf
    <2>1. Ahead /\ ptState \in States
        BY TypeSplit DEF AheadInv, ScalarsOK
    <2>2. CASE ptState = "WAIT_FOR_BEACON"
        BY <2>1, <2>2 DEF Ahead, Unheard
    <2>3. CASE ptState = "WAIT_FOR_LATCH_BEACON"
        BY <2>1, <2>3 DEF Ahead, HasFrame, Unheard
    <2>4. CASE ptState = "SCHEDULED_DOWNLINK"
        BY <2>1, <2>4 DEF Ahead, HasSlot, Unheard
    <2>5. CASE ptState = "SCHEDULED_UPLINK"
        BY <2>1, <2>5 DEF Ahead, HasFrame, HasSlot, Unheard
    <2> QED
        BY <2>1, <2>2, <2>3, <2>4, <2>5 DEF States, Ahead
<1> QED
    BY <1>1, PtTypes, CancellationsMatched, DoomedInit, DoomedNext, AheadInit, AheadNext, PTL DEF Spec
=============================================================================
