SPECIFICATION Spec
CONSTANTS
    h1 = h1
    h2 = h2
    Host = {h1, h2}
    StateKey = {k}
    Data = {v, w}
    Absent = Absent
    None = None
    MaxBleach = 1
    Console = {h1}
    mBleachTTL <- MCBleachTTL
    mUpdateInterval <- MCUpdateInterval
    Neighbour <- MCNeighbour
    SyncPeers = {}
SYMMETRY DataSymmetry
PROPERTY OwnDataChangedOnlyByCommand
