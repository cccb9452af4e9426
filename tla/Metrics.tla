------------------------------ MODULE Metrics ------------------------------
(***************************************************************************)
(* The metric aggregation at the end of run_simulation (Coexistence.py     *)
(* 894-1030): collision probabilities, channel occupancy and efficiency,   *)
(* the traditional two-technology fairness, Jain's index over per-node     *)
(* throughputs and the joint metric, computed from the counters the run    *)
(* leaves in the channel.                                                  *)
(*                                                                         *)
(* Every metric is a ratio; it is kept as an exact fraction [num, den].    *)
(* The common factor 1 / time cancels in every fairness index and is left  *)
(* out of the throughputs.  TLC's integers are 32-bit, so times are in     *)
(* units of 200 us and the data rates 866.7 and 1200.0 Mb/s are the        *)
(* integers WIFI_RATE and NRU_RATE in (nearly) the same ratio.             *)
(***************************************************************************)
EXTENDS Integers, Sequences, FiniteSets, SequencesExt

CONSTANTS
    N_STATIONS, N_GNBS,
    SUCC,           \* successful transmissions of one node
    FAILS,          \* values of the failed transmission counters
    WIFI_FRAME,     \* frame_time of a Wi-Fi frame
    ACK,            \* get_ack_frame_time()
    NR_TX,          \* transmission_time = mcot * 1000
    NR_RS,          \* rs_time totals a gNB's successes can add up to
    RS_MAX,         \* largest rs_time of one transmission (a sync slot)
    TIME,           \* simulation_time * 1000000
    WIFI_RATE,      \* wifi_data_rate * 10
    NRU_RATE        \* nru_data_rate * 10

ASSUME /\ {N_STATIONS, N_GNBS, WIFI_FRAME, ACK} \subseteq Nat
       /\ SUCC \subseteq Nat /\ FAILS \subseteq Nat
       /\ NR_RS \subseteq Nat /\ {NR_TX, RS_MAX} \subseteq Nat /\ RS_MAX < NR_TX /\ {TIME, WIFI_RATE, NRU_RATE} \subseteq Nat \ {0}

Stations == 1 .. N_STATIONS
Gnbs     == N_STATIONS + 1 .. N_STATIONS + N_GNBS
Nodes    == Stations \cup Gnbs
Frac     == [num : Nat, den : Nat \ {0}]
Zero     == [num |-> 0, den |-> 1]

VARIABLES
    succ,      \* succeeded_transmissions of each node
    data,      \* channel.airtime_data / airtime_data_NR, per node
    control,   \* channel.airtime_control / airtime_control_NR, per node
    failed,    \* channel.failed_transmissions / failed_transmissions_NR
    report     \* <<the metrics written to the CSV row>>, or <<>> before

vars == <<succ, data, control, failed, report>>
-----------------------------------------------------------------------------
\* Mutant of PColl: no test for a run without attempts.
PCollNoGuard(present, f, s) ==
    IF present THEN [num |-> f, den |-> f + s] ELSE Zero

(* p_coll: failed / (failed + succeeded), 0 without nodes or attempts.     *)
PColl(present, f, s) ==
    IF present /\ f + s # 0 THEN [num |-> f, den |-> f + s] ELSE Zero

(* Channel occupancy time and efficiency of a set of nodes, over TIME.     *)
Occupancy(S)  == MapThenSumSet(LAMBDA n : data[n] + control[n], S)
Efficiency(S) == MapThenSumSet(LAMBDA n : data[n], S)

(* Traditional fairness O_all^2 / (2 (O_W^2 + O_N^2)), 0 if both are 0.    *)
TraditionalFairness(ow, on) ==
    IF ow > 0 \/ on > 0
    THEN [num |-> (ow + on) * (ow + on), den |-> 2 * (ow * ow + on * on)]
    ELSE Zero

\* Mutant of AllThroughputs: the gNBs' throughput at the Wi-Fi data rate.
AllThroughputsOneRate ==
    [i \in 1 .. N_STATIONS |-> data[i] * WIFI_RATE]
      \o [i \in 1 .. N_GNBS |-> data[N_STATIONS + i] * WIFI_RATE]

(* all_throughputs: the stations' then the gNBs' airtime times data rate. *)
AllThroughputs ==
    [i \in 1 .. N_STATIONS |-> data[i] * WIFI_RATE]
      \o [i \in 1 .. N_GNBS |-> data[N_STATIONS + i] * NRU_RATE]

(* Jain's index (sum t)^2 / (len * sum t^2), 0 when no node or sum t^2 = 0 *)
JainsFairness(ts) ==
    LET sum   == FoldLeft(LAMBDA a, t : a + t, 0, ts)
        sumSq == FoldLeft(LAMBDA a, t : a + t * t, 0, ts)
    IN  IF Len(ts) > 0 /\ sumSq > 0
        THEN [num |-> sum * sum, den |-> Len(ts) * sumSq]
        ELSE Zero

FracTimes(a, b) == [num |-> a.num * b.num, den |-> a.den * b.den]
-----------------------------------------------------------------------------
(* The counters as a run leaves them.  Airtime is only added on success:  *)
(* a station adds frame_time of data and an ACK of control per success    *)
(* (sent_completed, send_frame); a gNB adds rs_time of control and        *)
(* transmission_time - rs_time of data (gen_new_transmission).            *)
Init ==
    /\ succ \in [Nodes -> SUCC]
    /\ failed \in [{"wifi", "nru"} -> FAILS]
    /\ N_STATIONS = 0 => failed.wifi = 0
    /\ N_GNBS = 0 => failed.nru = 0
    /\ \E r \in [Gnbs -> NR_RS] :
         /\ \A g \in Gnbs : r[g] <= succ[g] * RS_MAX
         /\ data = [n \in Nodes |-> IF n \in Stations THEN succ[n] * WIFI_FRAME
                                   ELSE succ[n] * NR_TX - r[n]]
         /\ control = [n \in Nodes |-> IF n \in Stations THEN succ[n] * ACK ELSE r[n]]
    /\ report = <<>>

(* The aggregation after environment.run returns, as one step.            *)
Report ==
    /\ report = <<>>
    /\ LET fair == TraditionalFairness(Occupancy(Stations), Occupancy(Gnbs))
       IN report' = <<
        [pColl    |-> PColl(N_STATIONS # 0, failed.wifi, MapThenSumSet(LAMBDA n : succ[n], Stations)),
         pCollNR  |-> PColl(N_GNBS # 0, failed.nru, MapThenSumSet(LAMBDA n : succ[n], Gnbs)),
         occAll   |-> [num |-> Occupancy(Nodes), den |-> TIME],
         effAll   |-> [num |-> Efficiency(Nodes), den |-> TIME],
         fairness |-> fair,
         jains    |-> JainsFairness(AllThroughputs),
         joint    |-> FracTimes(fair, [num |-> Occupancy(Nodes), den |-> TIME])] >>
    /\ UNCHANGED <<succ, data, control, failed>>

Reported == report # <<>> /\ UNCHANGED vars

Next == Report \/ Reported

Spec == Init /\ [][Next]_vars
-----------------------------------------------------------------------------
TypeOK ==
    /\ data \in [Nodes -> Nat] /\ control \in [Nodes -> Nat]
    /\ report \in Seq([pColl : Frac, pCollNR : Frac, occAll : Frac,
                                      effAll : Frac, fairness : Frac, jains : Frac,
                                      joint : Frac])
(* Jain's index as the specification defines it, over the set of nodes.   *)
Throughput(n) == data[n] * (IF n \in Stations THEN WIFI_RATE ELSE NRU_RATE)
JainRef ==
    LET sum == MapThenSumSet(Throughput, Nodes)
        sumSq == MapThenSumSet(LAMBDA n : Throughput(n) * Throughput(n), Nodes)
    IN  [num |-> sum * sum, den |-> Cardinality(Nodes) * sumSq]

\* Spec 5 and 7: in a run where some node transmitted data, the CSV's
\* jains_fairness is the spec's (sum t)^2 / (n sum t^2) over every node's
\* throughput, it lies in [1/n, 1] and it is 1 exactly when all nodes got
\* the same throughput; the traditional fairness lies in [1/2, 1].
FairnessMatchesSpec ==
    report # <<>> /\ (\E n \in Nodes : data[n] > 0) =>
      /\ report[1].jains = JainRef
      /\ Cardinality(Nodes) * report[1].jains.num >= report[1].jains.den
      /\ report[1].jains.num <= report[1].jains.den
      /\ (report[1].jains.num = report[1].jains.den
            <=> \A a, b \in Nodes : Throughput(a) = Throughput(b))
      /\ 2 * report[1].fairness.num >= report[1].fairness.den
      /\ report[1].fairness.num <= report[1].fairness.den

\* Spec P8: the reported Jain's index lies in [1/n, 1] for every run.
JainsIndexBounds ==
    report # <<>> =>
      /\ Cardinality(Nodes) * report[1].jains.num >= report[1].jains.den
      /\ report[1].jains.num <= report[1].jains.den
====
