\* run_coexistenxe_matrix.py with --nru_cw_max larger than --wifi_cw_max:
\* channel.backoffs only has keys 0 .. wifi_cw_max.
CONSTANTS
    N_STATIONS = 2
    N_GNBS = 1
    GAP = TRUE
    T_SLOT = 1
    DIFS = 2
    ACK_TIME = 1
    ACK_TIMEOUT = 2
    FRAME_TIME = 4
    R_LIMIT = 1
    WIFI_CW_MIN <- MC_CW_MIN
    WIFI_CW_MAX <- MC_CW_MIN
    DETER_PERIOD = 1
    OBS_SLOT = 1
    M_SLOTS = 1
    SYNC_SLOT = 3
    MIN_DESYNC = 0
    MAX_DESYNC = 2
    NR_CW_MIN <- MC_CW_MIN
    NR_CW_MAX <- MC_CW_MAX
    MCOT_TIME = 7
    HIST_MAX <- MC_CW_MIN
    HORIZON = 20
SPECIFICATION Spec
INVARIANT NoFatalError
