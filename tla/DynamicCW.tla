----------------------------- MODULE DynamicCW -----------------------------
(***************************************************************************)
(* The contention-window controller of coexistanceSimpy/Coexistence.py    *)
(* (class DynamicCWController) composed with the scenario loop of          *)
(* run_all_modes.py that runs it, and with the backoff draws of the nodes  *)
(* that read the windows it sets.                                          *)
(*                                                                         *)
(* test_all_modes builds ONE wifi_config and ONE nru_config and passes     *)
(* them to every run_simulation; the controller writes the new windows     *)
(* into those objects and into every node.  Each run builds the backoff    *)
(* histogram channel.backoffs with keys 0 .. wifi_config.cw_max.           *)
(*                                                                         *)
(* The airtime a technology gains in one measurement interval is the       *)
(* input: a choice from AIRTIME.  A node's failures in a row, which the    *)
(* channel decides, is a choice from 0 .. FIR_MAX.                         *)
(***************************************************************************)
EXTENDS Integers, Sequences

CONSTANTS
    N_STATIONS, N_GNBS,
    WIFI_CW_MIN, WIFI_CW_MAX,  \* Config() defaults: 15, 63
    NR_CW_MIN, NR_CW_MAX,      \* Config_NR() defaults: 15, 63
    ADJ_STEP,                  \* adjustment_step = 5
    MIN_CW, MAX_CW,            \* min_cw = 7, max_cw = 511
    TARGET,                    \* target_fairness = 0.95, as TARGET / 100
    AIRTIME,                   \* airtime gained in one interval
    INTERVALS,                 \* measurement intervals in one run
    SCENARIO_DYN,              \* dynamic_cw of each successive run
    FIR_MAX                    \* largest failures in a row a draw sees

ASSUME /\ {N_STATIONS, N_GNBS, ADJ_STEP, MIN_CW, MAX_CW, INTERVALS, FIR_MAX} \subseteq Nat
       /\ 0 <= WIFI_CW_MIN /\ 0 <= NR_CW_MIN /\ TARGET \in 0 .. 100
       /\ AIRTIME \subseteq Nat /\ SCENARIO_DYN \in Seq(BOOLEAN)

Stations == 1 .. N_STATIONS
Gnbs     == N_STATIONS + 1 .. N_STATIONS + N_GNBS
Techs    == {"wifi", "nru"}
Tech(n)  == IF n \in Stations THEN "wifi" ELSE "nru"

MinOf(a, b) == IF a <= b THEN a ELSE b
MaxOf(a, b) == IF a >= b THEN a ELSE b

VARIABLES
    cfg,       \* wifi_config / nru_config cw_min, cw_max (shared by all runs)
    nodeCw,    \* station.cw_min, cw_max / gnb.cw_min, cw_max
    hist,      \* largest key of this run's channel.backoffs
    run,       \* index of the current run in the scenario loop
    interval,  \* measurement intervals elapsed in this run
    phase,     \* "idle" between runs, "sim" during run_simulation, "done"
    keyError,  \* this run died of a KeyError in generate_new_back_off_time
    startCfg,  \* history: cfg when each run started
    delta      \* history: the airtime deltas of the last measurement

vars == <<cfg, nodeCw, hist, run, interval, phase, keyError, startCfg, delta>>
-----------------------------------------------------------------------------
(* _calculate_jains_fairness(w, n) < target_fairness, in integers:         *)
(* (w + n)^2 / (2 (w^2 + n^2)) < TARGET / 100; both zero gives 1.0.      *)
Unfair(w, n) ==
    /\ w * w + n * n # 0
    /\ 100 * (w + n) * (w + n) < TARGET * 2 * (w * w + n * n)

(* `a > b * 1.1` *)
Dominates(a, b) == 10 * a > 11 * b

\* Mutant of Decreased: cw_min - step not clamped at min_cw.
DecreasedNoClamp(c) == [min |-> c.min - ADJ_STEP, max |-> MinOf((c.min - ADJ_STEP) * 4, MAX_CW)]

(* _increase_*_cw / _decrease_*_cw: new cw_min, and cw_max = 4 cw_min.     *)
Increased(c) == LET m == MinOf(c.min + ADJ_STEP, MAX_CW)
                IN  [min |-> m, max |-> MinOf(m * 4, MAX_CW)]
Decreased(c) == LET m == MaxOf(c.min - ADJ_STEP, MIN_CW)
                IN  [min |-> m, max |-> MinOf(m * 4, MAX_CW)]

\* Mutant of Adjusted: the dominated technology backs off instead.
AdjustedSwapped(c, w, n) ==
    IF Dominates(n, w)
    THEN [wifi |-> Increased(c.wifi),
          nru  |-> IF c.nru.min > MIN_CW THEN Decreased(c.nru) ELSE c.nru]
    ELSE IF Dominates(w, n)
    THEN [wifi |-> IF c.wifi.min > MIN_CW THEN Decreased(c.wifi) ELSE c.wifi,
          nru  |-> Increased(c.nru)]
    ELSE c

(* _adjust_contention_windows: the technology with more than 10% more     *)
(* airtime backs off; the other one speeds up if above min_cw.            *)
Adjusted(c, w, n) ==
    IF Dominates(w, n)
    THEN [wifi |-> Increased(c.wifi),
          nru  |-> IF c.nru.min > MIN_CW THEN Decreased(c.nru) ELSE c.nru]
    ELSE IF Dominates(n, w)
    THEN [wifi |-> IF c.wifi.min > MIN_CW THEN Decreased(c.wifi) ELSE c.wifi,
          nru  |-> Increased(c.nru)]
    ELSE c

(* generate_new_back_off_time: upper limit of the draw.                    *)
UpperLimit(c, k) == MinOf(2^k * (c.min + 1) - 1, c.max)
-----------------------------------------------------------------------------
Init ==
    /\ cfg = [wifi |-> [min |-> WIFI_CW_MIN, max |-> WIFI_CW_MAX],
              nru  |-> [min |-> NR_CW_MIN, max |-> NR_CW_MAX]]
    /\ nodeCw = [n \in Stations \cup Gnbs |-> [min |-> 0, max |-> 0]]
    /\ hist = 0
    /\ run = 1
    /\ interval = 0
    /\ phase = IF SCENARIO_DYN = <<>> THEN "done" ELSE "idle"
    /\ keyError = FALSE
    /\ startCfg = <<>>
    /\ delta = [w |-> 0, n |-> 0]

\* test_all_modes, one iteration of the seed loop: build channel.backoffs
\* from wifi_config.cw_max, then run_simulation creates the nodes, which
\* copy cw_min / cw_max from the shared configs.
StartRun ==
    /\ phase = "idle"
    /\ hist' = cfg.wifi.max
    /\ nodeCw' = [n \in Stations \cup Gnbs |-> cfg[Tech(n)]]
    /\ startCfg' = Append(startCfg, cfg)
    /\ interval' = 0
    /\ keyError' = FALSE
    /\ phase' = "sim"
    /\ UNCHANGED <<cfg, run, delta>>

\* _monitor_and_adjust, one measurement interval of a run with the
\* controller enabled: adjust when fairness is below target, and broadcast
\* the new windows to every station and gNB.
Monitor ==
    /\ phase = "sim" /\ ~keyError /\ SCENARIO_DYN[run]
    /\ interval < INTERVALS
    /\ \E w, n \in AIRTIME :
         LET c == IF (w > 0 \/ n > 0) /\ Unfair(w, n) THEN Adjusted(cfg, w, n) ELSE cfg
         IN  /\ cfg' = c
             /\ nodeCw' = [m \in Stations \cup Gnbs |-> c[Tech(m)]]
             /\ delta' = [w |-> w, n |-> n]
    /\ interval' = interval + 1
    /\ UNCHANGED <<hist, run, phase, keyError, startCfg>>

\* A node draws a backoff: channel.backoffs[back_off] raises KeyError when
\* the draw is above the histogram's largest key.
Draw(m) ==
    /\ phase = "sim" /\ ~keyError
    /\ \E k \in 0 .. FIR_MAX : \E b \in 0 .. UpperLimit(nodeCw[m], k) :
         keyError' = (b > hist)
    /\ UNCHANGED <<cfg, nodeCw, hist, run, interval, phase, startCfg, delta>>

\* environment.run(until) returns, or `except Exception` in test_all_modes
\* swallows the KeyError; the loop goes on with the same config objects.
EndRun ==
    /\ phase = "sim"
    /\ keyError \/ interval = INTERVALS \/ ~SCENARIO_DYN[run]
    /\ run' = IF run < Len(SCENARIO_DYN) THEN run + 1 ELSE run
    /\ phase' = IF run < Len(SCENARIO_DYN) THEN "idle" ELSE "done"
    /\ UNCHANGED <<cfg, nodeCw, hist, interval, keyError, startCfg, delta>>

Done == phase = "done" /\ UNCHANGED vars

Next ==
    \/ StartRun \/ Monitor \/ EndRun \/ Done
    \/ \E m \in Stations \cup Gnbs : Draw(m)

Spec == Init /\ [][Next]_vars
-----------------------------------------------------------------------------
\* Spec P7: after a measurement in which one technology got more than 10%
\* more airtime and fairness was below target, that technology's cw_min is
\* strictly larger (or already max_cw) and the other one's is not larger.
ControllerBacksOffDominant ==
    [][interval' = interval + 1 /\ Unfair(delta'.w, delta'.n) =>
       /\ Dominates(delta'.w, delta'.n) =>
            /\ cfg'.wifi.min > cfg.wifi.min \/ cfg.wifi.min = MAX_CW
            /\ cfg'.nru.min <= cfg.nru.min
       /\ Dominates(delta'.n, delta'.w) =>
            /\ cfg'.nru.min > cfg.nru.min \/ cfg.nru.min = MAX_CW
            /\ cfg'.wifi.min <= cfg.wifi.min]_vars

\* However many adjustments the controller makes, over however many runs
\* that share the configs, every window stays within min_cw .. max_cw with
\* cw_min <= cw_max, as binary exponential backoff requires.
WindowsInRange ==
    \A t \in Techs : MIN_CW <= cfg[t].min /\ cfg[t].min <= cfg[t].max /\ cfg[t].max <= MAX_CW

\* Every backoff a node can draw is a key of channel.backoffs: no run of a
\* scenario with the controller dies of KeyError.
HistogramCoversDraws == ~keyError

\* Spec P6: runs of a scenario with the same configuration start from the
\* same contention windows, so equal seeds give equal records.
RunsStartFromConfig == \A i \in DOMAIN startCfg : startCfg[i] = startCfg[1]
====
