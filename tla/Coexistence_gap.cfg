\* Two Wi-Fi stations and one NR-U gNB in gap mode.
CONSTANTS
    N_STATIONS = 2
    N_GNBS = 1
    GAP = TRUE
    T_SLOT = 1
    DIFS = 2
    ACK_TIME = 1
    ACK_TIMEOUT = 2
    FRAME_TIME = 4
    R_LIMIT = 1
    WIFI_CW_MIN <- MC_CW_MIN
    WIFI_CW_MAX <- MC_CW_MAX
    DETER_PERIOD = 1
    OBS_SLOT = 1
    M_SLOTS = 1
    SYNC_SLOT = 3
    MIN_DESYNC = 0
    MAX_DESYNC = 2
    NR_CW_MIN <- MC_CW_MIN
    NR_CW_MAX <- MC_CW_MAX
    MCOT_TIME = 7
    HIST_MAX <- MC_CW_MAX
    HORIZON = 20
SPECIFICATION LiveSpec
INVARIANT TypeOK
INVARIANT NoFatalError
PROPERTY BackoffNeverSkipped
INVARIANT CollisionAlwaysDetected
PROPERTY GapTransmissionAligned
INVARIANT LockOwnedByWaiter
PROPERTY RunReturns
PROPERTY ImplementsMedium
PROPERTY ResidueProgress
INVARIANT AirtimeConserved
INVARIANT TxListsTrackSenders
