\* A coexistence_rs run (no controller), then a coexistence_adaptive run of five measurement intervals.
CONSTANTS
    N_STATIONS = 1
    N_GNBS = 1
    WIFI_CW_MIN = 15
    WIFI_CW_MAX = 63
    NR_CW_MIN = 15
    NR_CW_MAX = 63
    ADJ_STEP = 5
    MIN_CW = 7
    MAX_CW = 511
    TARGET = 95
    AIRTIME <- MC_AIRTIME
    INTERVALS = 5
    SCENARIO_DYN <- MC_MIXED_RUNS
    FIR_MAX = 2
SPECIFICATION Spec
INVARIANT WindowsInRange
PROPERTY ControllerBacksOffDominant
