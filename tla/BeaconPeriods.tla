---------------------------- MODULE BeaconPeriods ----------------------------
(***************************************************************************)
(* How a beacon period in milliseconds, as the shell takes it and as the   *)
(* MAC bridge counts in it, becomes one of the few the modem has, and what *)
(* comes back: the conversions of src/mac_impl/dect_adapter.c between      *)
(* cmd_period, configure_ft and the beacons a PT hears.                    *)
(***************************************************************************)
EXTENDS Naturals, TLAPS

\* The periods of the modem's two enumerations.  An enumerator is its type and
\* the period it is named for.
ClusterPeriods == {10, 50, 100, 500, 1000, 1500, 2000, 4000, 8000, 16000, 32000}
NwPeriods == {50, 100, 500, 1000, 1500, 2000, 4000}

ClusterEnum(p) == <<"CLUSTER_BEACON_PERIOD", p>>
NwEnum(p) == <<"NW_BEACON_PERIOD", p>>

Default == 1000

cluster_beacon_period_from_ms(ms) ==
    ClusterEnum(IF ms \in ClusterPeriods THEN ms ELSE Default)

cluster_beacon_period_to_ms(period) ==
    IF \E p \in ClusterPeriods : period = ClusterEnum(p)
    THEN CHOOSE p \in ClusterPeriods : period = ClusterEnum(p)
    ELSE Default

nw_beacon_period_from_ms(ms) == NwEnum(IF ms \in NwPeriods THEN ms ELSE Default)

\* cmd_period: what it accepts, and pt_scan_time_ms after it.
Accepted == 10..32000
ScanTime(value) == 2 * value

\* The time between two beacons of an FT that is configured with a value.
OnAir(value) == cluster_beacon_period_to_ms(cluster_beacon_period_from_ms(value))

-----------------------------------------------------------------------------

LEMMA OnAirIs ==
    ASSUME NEW ms
    PROVE  OnAir(ms) = IF ms \in ClusterPeriods THEN ms ELSE Default
<1> DEFINE q == IF ms \in ClusterPeriods THEN ms ELSE Default
<1>1. q \in ClusterPeriods
    BY DEF ClusterPeriods, Default
<1>2. \A p \in ClusterPeriods : ClusterEnum(q) = ClusterEnum(p) <=> p = q
    BY DEF ClusterEnum
<1>3. (CHOOSE p \in ClusterPeriods : ClusterEnum(q) = ClusterEnum(p)) = q
    BY <1>1, <1>2
<1> QED
    BY <1>1, <1>2, <1>3 DEF OnAir, cluster_beacon_period_to_ms, cluster_beacon_period_from_ms

\* A PT subscribes to a cluster's beacons with the period it read out of one
\* (cb_ntf_cluster_beacon keeps it in milliseconds): on the way through them
\* the modem's enumerator comes back unchanged.
THEOREM SubscribedAsAnnounced ==
    \A p \in ClusterPeriods :
        cluster_beacon_period_from_ms(cluster_beacon_period_to_ms(ClusterEnum(p)))
            = ClusterEnum(p)
<1> SUFFICES ASSUME NEW p \in ClusterPeriods
             PROVE  cluster_beacon_period_from_ms(cluster_beacon_period_to_ms(ClusterEnum(p)))
                        = ClusterEnum(p)
    OBVIOUS
<1>1. cluster_beacon_period_to_ms(ClusterEnum(p)) = p
    BY OnAirIs DEF OnAir, cluster_beacon_period_from_ms
<1> QED
    BY <1>1 DEF cluster_beacon_period_from_ms

\* The two of the network beacon agree with the cluster's on the periods they
\* share, so that a period valid for both is sent as it was given by both.
THEOREM NwAgrees ==
    \A p \in NwPeriods :
        /\ nw_beacon_period_from_ms(p) = NwEnum(p)
        /\ OnAir(p) = p
<1>1. \A p \in NwPeriods : p \in ClusterPeriods
    BY DEF NwPeriods, ClusterPeriods
<1> QED
    BY <1>1, OnAirIs DEF nw_beacon_period_from_ms

\* "PT scan time should be at least 2 beacon periods" (cmd_period).  Of all
\* values that the command accepts, it is so for those the modem has and for
\* those above a second; for the others below a second, such as 200, the FT
\* beacons every second while the PT scans for less than two.
THEOREM ScanCoversTwoBeacons ==
    \A value \in Accepted :
        ScanTime(value) >= 2 * OnAir(value) <=> value \in ClusterPeriods \/ value > Default
<1> SUFFICES ASSUME NEW value \in Accepted
             PROVE  ScanTime(value) >= 2 * OnAir(value)
                        <=> value \in ClusterPeriods \/ value > Default
    OBVIOUS
<1>1. value \in Nat
    BY DEF Accepted
<1>2. CASE value \in ClusterPeriods
    BY <1>1, <1>2, OnAirIs DEF ScanTime
<1>3. CASE value \notin ClusterPeriods
    <2>1. OnAir(value) = 1000 /\ value # 1000
        BY <1>3, OnAirIs DEF Default, ClusterPeriods
    <2> QED
        BY <1>1, <1>3, <2>1 DEF ScanTime, Default
<1> QED
    BY <1>2, <1>3
=============================================================================
