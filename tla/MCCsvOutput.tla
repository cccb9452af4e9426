---------------------------- MODULE MCCsvOutput ----------------------------
(***************************************************************************)
(* Model-checking instance of CsvOutput: the six SCENARIOS of              *)
(* run_all_modes.py and the environments a runner may start in.            *)
(***************************************************************************)
EXTENDS CsvOutput

\* run_all_modes.SCENARIOS, with dynamic_cw where the scenario sets it.
MC_SCENARIOS ==
    << [name |-> "wifi_only", dyn |-> FALSE],
       [name |-> "nru_only", dyn |-> FALSE],
       [name |-> "coexistence_gap", dyn |-> FALSE],
       [name |-> "coexistence_rs", dyn |-> FALSE],
       [name |-> "coexistence_adaptive", dyn |-> TRUE],
       [name |-> "coexistence_optimized", dyn |-> TRUE] >>

\* A scenario's CSV from an earlier invocation: missing, empty, or a header
\* and an old record.
Prior == {"missing", <<>>, <<0, -1>>}

ScenFiles(pr) ==
    [p \in {Scen(i) : i \in {j \in 1 .. 6 : pr[j] # "missing"}} |-> pr[p[2]]]

\* The author's tree: chap5/20_20/basic.csv and results/ exist.
MC_AUTHOR_ENVS ==
    {[files |-> [p \in DOMAIN ScenFiles(pr) \cup {Basic} |->
                   IF p = Basic THEN <<0, -1>> ELSE ScenFiles(pr)[p]],
      dirs  |-> {"chap5", "results"}] : pr \in [1 .. 6 -> Prior]}

\* A fresh checkout: no chap5/20_20, results/ may or may not exist.
MC_FRESH_ENVS ==
    {[files |-> ScenFiles(pr), dirs |-> d] :
        pr \in [1 .. 6 -> Prior], d \in {{}, {"results"}}}
====
