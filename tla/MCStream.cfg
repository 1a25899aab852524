SPECIFICATION StreamSpec
CONSTANTS
    Configs <- MCConfigs
    SockCap = 2
    MaxFaults = 1
    MaxWrite = 3
    BufCap = 2
    UserCap = 2
    VecLens <- MCVecLens
    Delim = {2}
    NotUtf8 = {3}
    RelayCap = 2
INVARIANTS Conserved EofIsFinal ConnectHonest
PROPERTY AllDelivered
CHECK_DEADLOCK FALSE
