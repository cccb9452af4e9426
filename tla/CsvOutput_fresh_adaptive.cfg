\* run_all_modes in a fresh checkout, without chap5/20_20.
CONSTANTS
    RUNNER = "all_modes"
    SCENARIOS <- MC_SCENARIOS
    WIFI_MAX = 2
    NRU_MAX = 2
    RUNS = 1
    DYNAMIC_CW = FALSE
    ENVS <- MC_FRESH_ENVS
SPECIFICATION Spec
INVARIANT RecordedUnlessRaised
