\* One seed of coexistence_adaptive: draws against the histogram of wifi cw_max.
CONSTANTS
    N_STATIONS = 1
    N_GNBS = 1
    WIFI_CW_MIN = 15
    WIFI_CW_MAX = 63
    NR_CW_MIN = 15
    NR_CW_MAX = 63
    ADJ_STEP = 5
    MIN_CW = 7
    MAX_CW = 511
    TARGET = 95
    AIRTIME <- MC_AIRTIME
    INTERVALS = 2
    SCENARIO_DYN <- MC_ONE_RUN
    FIR_MAX = 2
SPECIFICATION Spec
INVARIANT HistogramCoversDraws
