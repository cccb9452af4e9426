\* Two NR-U gNBs in gap mode, no Wi-Fi station, long enough for eight
\* consecutive collisions; NR-U windows 0..1 so that the gNBs collide often.
CONSTANTS
    N_STATIONS = 0
    N_GNBS = 2
    GAP = TRUE
    T_SLOT = 1
    DIFS = 2
    ACK_TIME = 1
    ACK_TIMEOUT = 2
    FRAME_TIME = 4
    R_LIMIT = 1
    WIFI_CW_MIN <- MC_CW_MIN
    WIFI_CW_MAX <- MC_CW_MAX
    DETER_PERIOD = 0
    OBS_SLOT = 1
    M_SLOTS = 1
    SYNC_SLOT = 1
    MIN_DESYNC = 0
    MAX_DESYNC = 0
    NR_CW_MIN = 0
    NR_CW_MAX = 1
    MCOT_TIME = 1
    HIST_MAX <- MC_CW_MAX
    HORIZON = 40
SPECIFICATION Spec
INVARIANT FailuresInRowBounded
