---------------------------- MODULE MCDynamicCW ----------------------------
(***************************************************************************)
(* Model-checking instance of DynamicCW with the code's defaults: Config() *)
(* and Config_NR() windows 15 / 63, adjustment_step 5, min_cw 7,           *)
(* max_cw 511, target_fairness 0.95.                                       *)
(***************************************************************************)
EXTENDS DynamicCW

\* Interval airtimes: none, equal shares, and one technology dominating.
MC_AIRTIME == {0, 1, 3}

\* coexistence_adaptive run for two seeds.
MC_TWO_RUNS == <<TRUE, TRUE>>
\* One seed of coexistence_adaptive.
MC_ONE_RUN == <<TRUE>>
\* coexistence_rs (no controller) then coexistence_adaptive.
MC_MIXED_RUNS == <<FALSE, TRUE>>
====
