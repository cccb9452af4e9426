\* One Wi-Fi station and two NR-U gNBs in RS (reservation signal) mode: the
\* gNBs share the module-global `start` and one can lose the tx_queue race
\* to the other.
CONSTANTS
    N_STATIONS = 1
    N_GNBS = 2
    GAP = FALSE
    T_SLOT = 1
    DIFS = 2
    ACK_TIME = 1
    ACK_TIMEOUT = 2
    FRAME_TIME = 4
    R_LIMIT = 1
    WIFI_CW_MIN <- MC_CW_MIN
    WIFI_CW_MAX <- MC_CW_MAX
    DETER_PERIOD = 1
    OBS_SLOT = 1
    M_SLOTS = 1
    SYNC_SLOT = 3
    MIN_DESYNC = 0
    MAX_DESYNC = 2
    NR_CW_MIN <- MC_CW_MIN
    NR_CW_MAX <- MC_CW_MAX
    MCOT_TIME = 7
    HIST_MAX <- MC_CW_MAX
    HORIZON = 18
SPECIFICATION Spec
INVARIANT TypeOK
INVARIANT NoFatalError
PROPERTY BackoffNeverSkipped
INVARIANT CollisionAlwaysDetected
INVARIANT LockOwnedByWaiter
PROPERTY ResidueProgress
INVARIANT AirtimeConserved
INVARIANT TxListsTrackSenders
INVARIANT SharedStartCurrent
