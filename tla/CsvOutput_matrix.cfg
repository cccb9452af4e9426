\* run_coexistenxe_matrix with -r 1 in a tree with chap5/20_20/basic.csv and results/.
CONSTANTS
    RUNNER = "matrix"
    SCENARIOS <- MC_SCENARIOS
    WIFI_MAX = 2
    NRU_MAX = 2
    RUNS = 1
    DYNAMIC_CW = FALSE
    ENVS <- MC_AUTHOR_ENVS
SPECIFICATION Spec
INVARIANT RecordedUnlessRaised
