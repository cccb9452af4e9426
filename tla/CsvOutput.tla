----------------------------- MODULE CsvOutput -----------------------------
(***************************************************************************)
(* Where the scenario runners' results end up.  run_simulation             *)
(* (Coexistence.py 1056-1133) appends the controller's adjustments to      *)
(* output_csv with "_adjustments" inserted, decides whether to write a     *)
(* header row by testing whether output_csv exists, and appends the run's  *)
(* record to csv_output_path.  output_csv is a global of Coexistence.py    *)
(* ("chap5/20_20/basic.csv"); the runners' `global output_csv` rebinds a   *)
(* name of their own module, which run_simulation never reads.             *)
(*                                                                         *)
(* A file is a sequence of rows: 0 is the header, r > 0 the record of run  *)
(* r of this invocation, -1 a record left by an earlier invocation.  The   *)
(* files and directories that exist when the runner starts are the         *)
(* environment, chosen from ENVS.                                          *)
(***************************************************************************)
EXTENDS Integers, Sequences, FiniteSets

CONSTANTS
    RUNNER,       \* "all_modes" (run_all_modes.py) or "matrix" (run_coexistenxe_matrix.py)
    SCENARIOS,    \* run_all_modes.SCENARIOS: sequence of [name, dyn]
    WIFI_MAX,     \* --wifi-max
    NRU_MAX,      \* --nru-max
    RUNS,         \* -r / --runs
    DYNAMIC_CW,   \* --dynamic-cw
    ENVS          \* the environments the runner may start in

ASSUME /\ RUNNER \in {"all_modes", "matrix"}
       /\ {WIFI_MAX, NRU_MAX, RUNS} \subseteq Nat /\ DYNAMIC_CW \in BOOLEAN

(* Paths.  Scen(i) is output_dir/<name of scenario i>.csv.                 *)
Basic   == <<"basic", 0>>     \* Coexistence.output_csv, chap5/20_20/basic.csv
Adj     == <<"adj", 0>>       \* chap5/20_20/basic_adjustments.csv
Default == <<"default", 0>>   \* results/output.csv, run_simulation's default
Matrix  == <<"matrix", 0>>    \* --output of run_coexistenxe_matrix
Scen(i) == <<"scen", i>>

(* The scenario loop of each runner; the matrix runner is one scenario.   *)
Scenarios ==
    IF RUNNER = "all_modes" THEN SCENARIOS ELSE <<[name |-> "matrix", dyn |-> FALSE]>>

(* Runs of a scenario: Wi-Fi counts x gNB counts x runs (all_modes 103-117, *)
(* matrix 79-87).                                                          *)
RunsIn(s) ==
    CASE s.name = "matrix"    -> 5 * 5 * RUNS
      [] s.name = "wifi_only" -> WIFI_MAX * 1 * RUNS
      [] s.name = "nru_only"  -> 1 * NRU_MAX * RUNS
      [] OTHER                -> WIFI_MAX * NRU_MAX * RUNS

\* Mutant of CsvPath: csv_output_path not passed, the default is used.
CsvPathDefault(i) == Default

(* The file the runner means a run's record for, and where it goes.      *)
OutFile(i) == IF RUNNER = "all_modes" THEN Scen(i) ELSE Matrix
CsvPath(i) == IF RUNNER = "all_modes" THEN Scen(i) ELSE Default

VARIABLES
    files,     \* the existing files and their rows
    dirs,      \* which of "chap5/20_20" and "results" exist
    sc,        \* index of the current scenario
    k,         \* runs of the current scenario started
    runId,     \* runs started in this invocation
    phase,     \* "start", "scen", "run", "done", "crashed"
    meant,     \* history: run id -> the file its record is meant for
    raised     \* history: ids of the runs whose simulation raised

vars == <<files, dirs, sc, k, runId, phase, meant, raised>>
-----------------------------------------------------------------------------
AppendRows(f, p, rows) ==
    IF p \in DOMAIN f THEN [f EXCEPT ![p] = @ \o rows]
    ELSE [q \in DOMAIN f \cup {p} |-> IF q = p THEN rows ELSE f[q]]

Write(f, p, rows) == [q \in DOMAIN f \cup {p} |-> IF q = p THEN rows ELSE f[q]]

(* A file under chap5/20_20 or results/ can only be opened if that        *)
(* directory exists.                                                       *)
Writable(p) ==
    /\ p \in {Basic, Adj} => "chap5" \in dirs
    /\ p = Default => "results" \in dirs

Init ==
    /\ \E e \in ENVS : files = e.files /\ dirs = e.dirs
    /\ sc = 1 /\ k = 0 /\ runId = 0
    /\ phase = "start"
    /\ meant = <<>>
    /\ raised = {}

\* run_coexistenxe_matrix: clear --output with open('w'), then the loops;
\* test_all_modes: straight to the scenario loop.
Start ==
    /\ phase = "start"
    /\ files' = IF RUNNER = "matrix" THEN Write(files, Matrix, <<>>) ELSE files
    /\ phase' = IF Len(Scenarios) = 0 THEN "done" ELSE "scen"
    /\ UNCHANGED <<dirs, sc, k, runId, meant, raised>>

\* Mutant of ScenarioStart: the header is appended whatever the file holds.
ScenarioStartAlways ==
    /\ phase = "scen"
    /\ files' = IF RUNNER = "all_modes" THEN AppendRows(files, Scen(sc), <<0>>) ELSE files
    /\ k' = 0
    /\ phase' = "run"
    /\ UNCHANGED <<dirs, sc, runId, meant, raised>>

\* test_all_modes, top of the scenario loop: create_csv_with_header writes
\* the header only into a missing or empty file.
ScenarioStart ==
    /\ phase = "scen"
    /\ files' = IF RUNNER = "all_modes"
                     /\ (Scen(sc) \notin DOMAIN files \/ files[Scen(sc)] = <<>>)
                THEN Write(files, Scen(sc), <<0>>) ELSE files
    /\ k' = 0
    /\ phase' = "run"
    /\ UNCHANGED <<dirs, sc, runId, meant, raised>>

\* One run_simulation and what it writes.  With the controller, the
\* simulation itself may raise: a node draws a backoff above the histogram's
\* largest key (KeyError, Coexistence.py 388), which DynamicCW shows can
\* happen; nothing is written then.  Otherwise the adjustment log is
\* appended first; a FileNotFoundError there ends the run before its
\* record is written.  The record's header is written when
\* os.path.isfile(output_csv) is false.  test_all_modes's `except
\* Exception` goes on with the next run; the matrix runner has no except.
Run ==
    /\ phase = "run" /\ k < RunsIn(Scenarios[sc])
    /\ LET dyn == Scenarios[sc].dyn \/ (RUNNER = "all_modes" /\ DYNAMIC_CW) IN
       \E simFails \in IF dyn THEN BOOLEAN ELSE {FALSE} :
         LET adjFails == dyn /\ ~simFails /\ ~Writable(Adj)
             f1       == IF dyn /\ ~simFails /\ ~adjFails
                         THEN AppendRows(files, Adj, <<runId + 1>>) ELSE files
             header   == IF Basic \in DOMAIN files THEN <<>> ELSE <<0>>
             rowFails == ~simFails /\ ~adjFails /\ ~Writable(CsvPath(sc))
             fails    == simFails \/ adjFails \/ rowFails
         IN  /\ files' = IF fails THEN f1
                         ELSE AppendRows(f1, CsvPath(sc), header \o <<runId + 1>>)
             /\ phase' = IF fails /\ RUNNER = "matrix" THEN "crashed" ELSE "run"
             /\ raised' = IF simFails THEN raised \cup {runId + 1} ELSE raised
    /\ k' = k + 1
    /\ runId' = runId + 1
    /\ meant' = Append(meant, OutFile(sc))
    /\ UNCHANGED <<dirs, sc>>

\* End of a scenario's loops: restore gap, go on with the next scenario.
ScenarioEnd ==
    /\ phase = "run" /\ k = RunsIn(Scenarios[sc])
    /\ sc' = IF sc < Len(Scenarios) THEN sc + 1 ELSE sc
    /\ phase' = IF sc < Len(Scenarios) THEN "scen" ELSE "done"
    /\ UNCHANGED <<files, dirs, k, runId, meant, raised>>

Stopped == phase \in {"done", "crashed"} /\ UNCHANGED vars

Next == Start \/ ScenarioStart \/ Run \/ ScenarioEnd \/ Stopped

Spec == Init /\ [][Next]_vars
-----------------------------------------------------------------------------
\* Spec 3 (output record): every file a runner writes its results to holds
\* one header row, as its first row, however many runs append to it.
OneHeaderAtTop ==
    \A p \in {OutFile(i) : i \in 1 .. Len(Scenarios)} \cap DOMAIN files :
        \A i \in DOMAIN files[p] : files[p][i] = 0 <=> i = 1

\* Spec 2 (data flow) and 3: once the runner has finished, the record of
\* every run it started is in the file the runner writes results to,
\* exactly once, and in no other result file, unless the simulation of
\* that run raised; the record of a run that raised is nowhere.
RecordedUnlessRaised ==
    LET Count(p, r) == Cardinality({i \in DOMAIN files[p] : files[p][i] = r})
        results     == DOMAIN files \ {Adj}
    IN  phase = "done" =>
          \A r \in 1 .. runId :
            /\ r \notin raised => meant[r] \in results
            /\ \A p \in results :
                 Count(p, r) = IF p = meant[r] /\ r \notin raised THEN 1 ELSE 0
====
