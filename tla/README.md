# TLA+ model of the Wi-Fi / NR-U coexistence simulator

The code under `src/simulation/5G-Coexistence-SimPy/` is a SimPy discrete-event
simulator. Wi-Fi DCF stations (`Station`) and NR-U LBT Cat-4 gNBs (`Gnb`) share
one unlicensed channel (`Channel`) in `coexistanceSimpy/Coexistence.py`.
`run_simulation` builds the channel and nodes, runs the SimPy environment until
the horizon, and turns the counters into metrics. `run_all_modes.py` and
`run_coexistenxe_matrix.py` loop `run_simulation` over scenarios and node counts.

This project models the contention protocol: every suspension point, interrupt
and resource operation of the node processes. Its TLA+ modules are checked with
TLC.

## 1. Inventory

| Part | State | Operations | Interacts with |
|---|---|---|---|
| SimPy kernel | time, event queue, process liveness | timeout, Interrupt (URGENT), resource request/release, `run(until)` | everything |
| Channel | `tx_lock` (Resource), `tx_queue` (PreemptiveResource), `tx_list(_NR)`, `back_off_list(_NR)`, `backoffs` histogram, counters | `check_collision` (in nodes) | nodes |
| Station | `back_off_time`, `first_interrupt`, `start`, `failed_transmissions_in_row`, frame retries, `process` | `start`, `wait_back_off`, `send_frame`, `sent_failed`, `sent_completed`, `generate_new_back_off_time` | channel, other nodes via interrupts and preemption |
| Gnb | as Station plus `waiting_backoff`, `start_nr`, `desync`, `next_sync_slot_boundry`, module-global `start` (RS) | `start`, `wait_back_off_gap` (gap mode), `wait_back_off` (RS mode), `sync_slot_counter`, `send_transmission`, `sent_failed`, `sent_completed` | channel, nodes |
| DynamicCWController | last airtimes, CW of the shared configs | `_monitor_and_adjust` every second | all nodes' cw_min / cw_max |
| Metrics | floats derived from counters | end of `run_simulation` | CSV |
| Runners | shared `Config` / `Config_NR` objects, histogram | scenario loops | `run_simulation` |

These behaviours are hard to test:
- Same-instant ordering of countdown timeouts, interrupt broadcasts and the
  sync-slot counter.
- Interrupts that reach a process in the wrong phase.
- Stale entries in the back-off lists.
- `tx_queue` requests left behind by processes that have returned.
- The loser path, which checks the tx lists after the winner has cleared them.
- The shared module-global `start` in RS mode.
- The retry counter and the backoff histogram at their limits.

## 2. Modules

`Coexistence.tla` is the whole channel: the kernel, `Channel`, every Station
and every Gnb. The components interact at every step (a lock grant, an
interrupt broadcast, a preemption), so they are one module. Nodes are the
integers `1..N_STATIONS + N_GNBS`, in creation order.

Kernel:
- `now` is the simulation time.
- `wake[n]` is the expiry of the timeout that node `n` waits on.
- `Tick` jumps to the earliest pending timeout once no zero-delay step is
  left. It never reaches `HORIZON`, as `run(until)` never does.
- `intrQ` holds the scheduled Interrupts. They are URGENT events, so while
  `intrQ` is not empty `DeliverInterrupt` is the only step.
- Other steps at the same instant interleave in any order. SimPy runs them in
  a fixed FIFO order, so this is an over-approximation.
- `crash` records an exception that escapes `environment.run`:
  - an uncaught Interrupt;
  - `RuntimeError` from interrupting a terminated process;
  - `KeyError` from the `backoffs` histogram.

Resources:
- `lock` is `tx_lock`: a holder and a FIFO queue.
- `txq` is `tx_queue`: a holder and waiters sorted by frame length, FIFO among
  equals. Each request carries a `live` flag that is cleared when its process
  returns.

Node state:
- `pc[n]` is the yield at which node n's running process is suspended. The
  pc values are listed in the module header.
- `bo`, `firstInt`, `boStart`, `waitingBo`, `rsStart`, `fir` and `retries`
  are the code's attributes.
- `txList` and `txListNR` are `channel.tx_list` and `channel.tx_list_NR`,
  as sequences of node ids. `check_collision` reads only `TxLen`, the sum of
  their lengths. Every clear empties both lists (`ClearTxLists`).
  `calculate_sinr` reads who is on them.
- `airData[n]` and `airCtrl[n]` are `channel.airtime_data(_NR)[name]` and
  `channel.airtime_control(_NR)[name]`. A Station's `sent_completed` credits
  the frame time as data; as the `tx_lock` holder `send_frame` also credits
  the ACK time as control, before waiting it. A gNB credits only as the
  holder: `rs_time` as control and the rest of the MCOT as data. A gNB that
  succeeds on the loser path credits nothing (`Gnb.sent_completed` does not).
- `rsTime[g]` is the `rs_time` of `gen_new_transmission`: 0 in gap mode,
  otherwise `next_sync_slot_boundry - now` when the transmission is made.

History variables:
- `heard[n]` records that another node was on air during n's send.
- `result[n]` records n's outcome.
- `busy` is the time so far during which a frame was on air or a Station
  waited for its ACK (`Occupied`); `Tick` adds the elapsed interval.

Each action is one resumption of one process, from one `yield` to the next,
with every assignment in between:

| Action | Code |
|---|---|
| `WifiLockGranted`, `BackoffExpired` | `Station.wait_back_off` 272-292 |
| `GapLockGranted`, `GapEnd`, `BusyGranted` | `Gnb.wait_back_off_gap` 483-537 |
| `RsLockGranted` | `Gnb.wait_back_off` 560-585 |
| `WaitInterrupted` (via `DeliverInterrupt`) | the three `except simpy.Interrupt` handlers 294-310, 539-558, 586-602 |
| `SendStart`, `Race`, `TxStart` | `send_frame` 312-334, `send_transmission` 615-637 (a request may preempt the `tx_queue` user) |
| `Preempted` (via `DeliverInterrupt`) | the `with` exit and `except` branch 359-360, 665-666 |
| `WifiTxEnd`, `AckEnd`, `AckTimeoutEnd` | `send_frame` 338-357 |
| `NrTxEnd` | `send_transmission` 641-663 |
| `LoserEnd`, `LoserWaitEnd` | 362-371, 668-670 |
| `NextAttempt` | the `start()` loops and `generate_new_back_off_time` |
| `SyncTick` | `sync_slot_counter` |

`MCCoexistence.tla` gives the small contention windows (1 and 3).

`Medium.tla` is the abstract channel: what the contention protocol promises
without backoff, locks or queues. It has three variables: `air` (the nodes
transmitting), `ovl` (the current attempt overlapped another transmission)
and `out` (the outcome last recorded). Its actions:
- `Begin` starts an attempt.
- `Enter` puts a node on air.
- `Elapse` lets time pass with two or more nodes on air, which marks them all
  as overlapped.
- `Leave` takes a node off the air with the outcome its overlap decides:
  success exactly when it overlapped nothing.

`Coexistence` maps onto it with `Abstract == INSTANCE Medium WITH air <- OnAir,
ovl <- heard, out <- result`:
- `SendStart` is `Begin`.
- `TxStart`, a lost `Race`, and a `Preempted` node that was not yet on air are
  `Enter`.
- `Tick` with two or more nodes in "tx" or "loser" is `Elapse`.
- `WifiTxEnd`, `NrTxEnd` and `LoserEnd` are `Leave`.
- Every other step leaves the three mapped values unchanged.

`DynamicCW.tla` is `DynamicCWController` composed with the seed loop of
`run_all_modes.test_all_modes` and the backoff draws of the nodes:
- `cfg` is the shared `wifi_config` / `nru_config`, `nodeCw` the nodes' copies,
  `hist` the largest key of the run's `channel.backoffs`.
- `StartRun` is one iteration of the seed loop (histogram from
  `wifi_config.cw_max`, nodes copy the configs). `Monitor` is one
  `_monitor_and_adjust` interval; the airtime each technology gained in it is
  an input from `AIRTIME`. `Adjusted`, `Increased`, `Decreased` and `Unfair`
  are `_adjust_contention_windows`, the four `_increase/_decrease` methods and
  `_calculate_jains_fairness` (compared as integers). `Draw` is
  `generate_new_back_off_time` with 0..`FIR_MAX` failures in a row. `EndRun`
  is the end of `environment.run` or the `except Exception` of the runner.
- `MCDynamicCW.tla` uses the code's defaults: 15/63, step 5, 7..511, 0.95.

`Metrics.tla` is the aggregation at the end of `run_simulation`. `Init` is
every end-of-run counter state (airtime is only added on success: a frame and
an ACK per Wi-Fi success, `transmission_time - rs_time` and `rs_time` per NR-U
success). `Report` computes p_coll, occupancy, efficiency, the traditional
fairness, Jain's index and the joint metric as exact fractions. Times are in
units of 200 us and the data rates 866.7 : 1200 are 13 : 18, so that TLC's
32-bit integers do not overflow; `get_ack_frame_time` comes from a `Times`
module that is not in the repository, so ACK is 1 unit. `JainRef` is the
specification's definition over the set of nodes, the reference the code's
list-and-loop computation is checked against.

`CsvOutput.tla` is where records go. A file is a sequence of rows (0 a
header, r the record of run r, -1 an older record). `Init` picks the tree the
runner starts in from `ENVS`. `ScenarioStart` is `create_csv_with_header`,
`Run` is one `run_simulation` (the simulation may raise the `KeyError`
that DynamicCW finds when the controller is on; otherwise lines 1056-1133
write the adjustment log and the record) plus the runner's `try`, and
`raised` records the runs whose simulation raised;
`Start` is the matrix runner emptying its `--output` file.
`MCCsvOutput.tla` gives the six `SCENARIOS` and two kinds of tree: the
author's (with `chap5/20_20/basic.csv`) and a fresh checkout (without).

## 3. Runs

| Run | Checks | Result |
|---|---|---|
| `gap` (`Coexistence_gap.cfg`) | 2 stations, 1 gap-mode gNB, horizon 20 | pass, 235 844 states |
| `rs` (`Coexistence_rs.cfg`) | 1 station, 2 RS-mode gNBs, horizon 18 | pass, 740 709 states |
| `nr_retry` (`Coexistence_nr_retry.cfg`) | 2 gNBs, NR-U windows 0..1, horizon 40: `FailuresInRowBounded` | violation |
| `hist` (`Coexistence_hist.cfg`) | histogram keys up to wifi_cw_max < nru_cw_max: `NoFatalError` | violation |
| `dyn_adjust` (`DynamicCW_adjust.cfg`) | an RS run then an adaptive run, 5 intervals each | pass, 898 states |
| `dyn_hist` (`DynamicCW_hist.cfg`) | one adaptive run: `HistogramCoversDraws` | violation |
| `dyn_leak` (`DynamicCW_leak.cfg`) | two adaptive runs: `RunsStartFromConfig` | violation |
| `metrics_fairness` (`Metrics_fairness.cfg`) | 2 stations, 1 gNB, 0..2 successes each | pass, 504 states |
| `metrics_jain` (`Metrics_jain.cfg`) | the same: `JainsIndexBounds` | violation |
| `csv_author` (`CsvOutput_author.cfg`) | run_all_modes, author's tree, any earlier CSVs | pass, 59 498 states |
| `csv_fresh_adaptive` (`CsvOutput_fresh_adaptive.cfg`) | run_all_modes, fresh checkout: `RecordedUnlessRaised` | violation |
| `csv_matrix` (`CsvOutput_matrix.cfg`) | run_coexistenxe_matrix: `RecordedUnlessRaised` | violation |

Properties of the passing runs:
- `NoFatalError`: no exception escapes the simulation. This covers interrupts
  to dead or wrong-phase processes and preemption of a dead request.
- `BackoffNeverSkipped`: a node reaches its send phase only through the expiry
  of its countdown. The residue recomputation never charges more than was
  waited.
- `CollisionAlwaysDetected` (spec P2): a node records a success only if no
  other node was on air during its send. P1 (one success per instant) follows
  from it, because durations are positive.
- `LockOwnedByWaiter`: `tx_lock` is held or awaited only by a process at a
  matching yield. It is never leaked.
- `GapTransmissionAligned` (spec P5, gap only): a gap-mode gNB starts sending
  only at `desync + k * sync_slot`.
- TLC's deadlock check: the simulation never stops before the horizon.
- `ImplementsMedium` (gap): `Abstract!Spec` holds, so the channel refines
  `Medium`. This is stronger than `CollisionAlwaysDetected`, which forbids
  only a success after an overlap. The refinement also forbids a failure
  without an overlap (a collision counted from a stale tx list). It also says
  an outcome is recorded only when a frame leaves the air.
- `ResidueProgress` (gap, rs): an interrupted countdown resumes with a
  residue no larger than the one it started with, and strictly smaller once
  a whole slot past DIFS / PP was waited. The time waited is read from the
  node's own timeout, not from the `start` attributes the handlers use. So
  re-interruption cannot starve a node. Whether the random draws ever give it
  a long enough idle period is the probabilistic part and is not checked.
- `AirtimeConserved` (gap, rs; spec P4): the data and control airtime all
  successes have credited is at most `busy` plus the ACK time still to be
  waited by the Stations credited for it. So the occupancy and efficiency
  `run_simulation` reports never exceed the simulated time. The ACK is
  credited before it is waited, and an ACK wait can be cut short by a
  preempting gNB, so the bound is not obvious from the code.
- `TxListsTrackSenders` (gap, rs): no node is on the tx lists twice, so
  `check_collision` counts distinct senders. A node whose send has returned
  stays on them only while the `tx_lock` holder is still transmitting or
  waiting for its ACK. That holder clears both lists when it ends. Such a
  node is a loser: a gNB at once, a Station after its ACK wait. So a stale
  entry never outlives the transmission it overlapped. With two gNBs (`rs`)
  a gNB can be that loser.
- `RunReturns` (gap, under `LiveSpec`): `environment.run(until)` returns. No
  cycle of zero-delay steps stops the clock (section 5).
- `ControllerBacksOffDominant` (spec P7): after an interval in which one
  technology got more than 10% more airtime and fairness was below target,
  its cw_min is larger (or already 511) and the other's is not larger.
- `WindowsInRange`: over any number of adjustments and runs sharing the
  configs, 7 <= cw_min <= cw_max <= 511.
- `FairnessMatchesSpec`: when some node got data airtime, `jains_fairness`
  equals the specification's formula, lies in [1/n, 1] and is 1 exactly for
  equal throughputs; the traditional fairness lies in [1/2, 1].
- `OneHeaderAtTop`: each scenario CSV has one header, at the top.
- `RecordedUnlessRaised`: once the runner is done, every run's record is in
  the file meant for it exactly once and in no other result file, except a
  run whose simulation raised, whose record is nowhere. In `csv_author` the
  adaptive and optimized runs may raise (the `KeyError` of `dyn_hist`), and
  `test_all_modes` loses exactly those records; a pass means nothing else is
  lost or misfiled.
- `SharedStartCurrent` (rs): every gNB counting down started at the instant
  the module-global `start` holds. So the RS interrupt handler, which reads
  the shared `start` and not the gNB's own, never charges a stale elapsed
  time. It holds because countdowns start together at a `tx_lock` release,
  and a gNB that lost the `tx_queue` race is back no later than the winner:
  the longest frame wins.

`DynamicCW` and `CsvOutput` state no type invariant: no
plausible bug in the code they model could break one.

Each property has a mutant, a plausible bug in the mapped code that TLC
catches:
- `run(until)` ignored (`TickPastUntil`)
- no `is_alive` test (`TxStartAll`)
- no `first_interrupt` test (`WaitInterruptedAlways`)
- `len == 0` counted as success (`AloneOrEmpty`)
- `len > 1` not counted as a collision (`AnyOnList`, against
  `AirtimeConserved`)
- the whole MCOT credited as data besides the RS (`NrCreditFull`)
- `tx_list_NR.clear()` forgotten (`ClearWifiListOnly`)
- `with` not releasing on Preempted (`PreemptedKeepLock`)
- busy wait re-requesting the lock in place (`BusyGrantedSpin`)
- interrupt handlers charging only DIFS / PP, not the slots (`ConsumedFixedOnly`)
- collision branch of `send_frame` not clearing the tx lists (`WifiTxEndNoClear`)
- gap computed from the absolute boundary (`GapLockGrantedAbs`)
- the dominated technology backs off (`AdjustedSwapped`)
- cw_min - 5 not clamped at min_cw (`DecreasedNoClamp`)
- p_coll without the zero-attempts test (`PCollNoGuard`)
- gNB throughput at the Wi-Fi rate (`AllThroughputsOneRate`)
- header appended unconditionally (`ScenarioStartAlways`), records sent to
  the default path (`CsvPathDefault`)
- the store into the global `start` lost (`RsLockGrantedNoStart`)

Findings:
- `nr_retry`: `Gnb.sent_failed` tests `number_of_retransmissions > 7` on a
  `Transmission_NR` that `send_transmission` recreates before every attempt.
  The drop never happens, and TLC reaches `failed_transmissions_in_row = 8`
  with `retries = 1`. Spec 4.4 says NR-U uses the Wi-Fi retry-limit policy.
- `hist`: `run_coexistenxe_matrix.py` sizes `channel.backoffs` by
  `wifi_cw_max`. A gNB that has collided once draws up to `nru_cw_max`, and
  the simulation dies with `KeyError`.

- `dyn_hist`: the controller raises `cw_max` up to `min(4 cw_min, 511)` in a
  run whose histogram has keys 0..63; a station that collided twice draws
  64..80 and `channel.backoffs[back_off]` raises `KeyError`, which
  `run_all_modes` swallows, losing the run.
- `dyn_leak`: `wifi_config` and `nru_config` are built once (run_all_modes.py
  77-78) and the controller writes into them, so the second seed starts from
  the first seed's final windows (against P6). The CSV row also records the
  adjusted, not the configured, windows.
- `metrics_jain`: with no successful node `jains_fairness` stays 0, below the
  1/n of P8.
- `csv_fresh_adaptive`: with the controller, `run_simulation` first appends
  to `chap5/20_20/basic_adjustments.csv` (derived from Coexistence's own
  `output_csv`, which the runners' `global output_csv` never changes). That
  directory is not in the repository; the `FileNotFoundError` comes before
  the record is written, and every adaptive and optimized run is dropped.
  In the same tree the header test (`os.path.isfile(output_csv)`) is false,
  so each record is preceded by a header row: `OneHeaderAtTop` holds only in
  the author's tree.
- `csv_matrix`: `run_coexistenxe_matrix` empties `--output` and visualizes
  it, but never passes `csv_output_path`; the records go to
  `results/output.csv`.

## 4. Bounds

Times are scaled to small integers, in the code's order:
- slot = observation slot = 1;
- DIFS = PP = 2;
- sync slot = 3;
- Wi-Fi frame = 4 and MCOT = 7, so an NR-U request always preempts a Wi-Fi
  one;
- ACK 1 and ACK timeout 2. A Wi-Fi frame plus its ACK timeout (6) is shorter
  than an MCOT, as 5400 us plus an ACK timeout of tens of us is shorter than
  6000 us. So a Wi-Fi loser returns, and contends again, while the gNB that
  beat it is still on air.

CW_min = 1 and CW_max = 3, so backoff doubles once and caps. r_limit = 1, so
a drop happens after two collisions.

The horizon of 20 (18 for `rs`, whose two gNBs make more interleavings)
gives two to three full contention rounds, with the interesting cases:
- interrupted countdowns;
- preemption;
- losers;
- collisions followed by BEB;
- sync-slot gaps;
- in `rs`, two gNBs writing the shared `start`, and a gNB losing the
  `tx_queue` race to the other.

A horizon of 30 (1.92 M states) also passes every property of `gap`.
`nr_retry` needs eight collisions, so it uses MCOT = 1, sync slot 1 and
NR-U contention windows 0..1.

DynamicCW uses the code's own numbers. Airtimes {0, 1, 3} give the three
cases of `_adjust_contention_windows` (balanced, Wi-Fi dominant, NR-U
dominant) and the both-zero case; 5 intervals let cw_min fall from 15 to the
7 clamp and rise above 63/4. Metrics enumerates every counter state with up
to two successes per node and both rs_time extremes. CsvOutput runs the six
real scenarios with `--wifi-max 2 --nru-max 2 -r 1` (20 runs) from each of
3^6 earlier states of the scenario files.

## 5. Fairness and liveness

`Coexistence` defines `LiveSpec == Spec /\ WF_vars(Next)`, which run `gap`
checks. Weak fairness of the whole next-state relation is what SimPy's
`environment.run(until)` does: it pops the next event for as long as one is
scheduled before `until`. It says nothing about which process goes next;
that order is still the model's free choice, as in SimPy it is fixed by the
event queue.

`RunReturns` is the property checked under it: every behaviour reaches a
state where `Finished` is the only step left, meaning the clock has reached
the horizon or an exception has ended the run. Lock grants, releases,
interrupts and resumptions all take zero simulated time, so a cycle of them
at one instant would hang `environment.run`. The mutant `BusyGrantedSpin`
introduces such a cycle: a gNB in the busy wait hands the lock back and asks
for it again without leaving the wait. TLC finds the resulting lasso.

Starvation of one node (hazard at `Coexistence.py:265`) is not stated as a
liveness property. Whether a node ever transmits depends on the random
backoff draws. The code gives those draws no fairness, so no fairness
assumption would model them faithfully. The deterministic half of the hazard
is that re-interruption might eat up progress. The safety property
`ResidueProgress` covers it.

## 6. Not modelled

These are not modelled:
- Inside `Coexistence`: the byte, latency and packet counters and the
  timestamps of `Frame` / `Transmission_NR`, which no decision reads.
  `Metrics` takes the end-of-run counters as its input.
- Latency, SINR and the access-delay estimate of `run_simulation`: floats
  that nothing else reads. `Channel.calculate_sinr` counts as interference
  every other node on `tx_list` / `tx_list_NR` at the end of the run. Spec
  4.6 says "other nodes that are currently transmitting". By
  `TxListsTrackSenders`, a listed node that is no longer sending is a loser
  whose winner is still on air. Counting such a node is a divergence from
  the spec, seen from the model and not checked by its own run.
- `adjustment_history` beyond the file it is written to, logging, printing
  and the plots of `run_coexistenxe_matrix`.
- CLI parsing, and the node counts of each run, which no property reads
  beyond the number of runs.

In `run_all_modes.py` the `global gap` assignment rebinds the runner's own
name, not `Coexistence.gap`. The mode flag of each scenario therefore never
reaches the simulator: `nru_only` and `coexistence_rs` run in gap mode, like
every other scenario. This is a defect found by reading the code, not by a
run. It is a fact about Python name binding: no interleaving or state of the
protocol is involved, so a model would only restate it.

`create_and_queue_packet` is never called, so `packet_queue` stays empty.
`sent_completed` then never adds a latency sample, and `wifi_latency` and
`nru_latency` are always 0, although spec 4.3 says every success adds the
head packet's latency. This is also an observation from reading, not a run.
