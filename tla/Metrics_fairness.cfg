\* Two stations and one gNB, up to two successes each, RS mode rs_time totals.
CONSTANTS
    N_STATIONS = 2
    N_GNBS = 1
    SUCC = {0, 1, 2}
    FAILS = {0, 3}
    WIFI_FRAME = 27
    ACK = 1
    NR_TX = 30
    NR_RS = {0, 3, 5}
    RS_MAX = 5
    TIME = 5000
    WIFI_RATE = 13
    NRU_RATE = 18
SPECIFICATION Spec
INVARIANT TypeOK
INVARIANT FairnessMatchesSpec
