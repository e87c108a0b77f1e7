SPECIFICATION Spec
CONSTANTS
    h1 = h1
    h2 = h2
    h3 = h3
    Host = {h1, h2, h3}
    StateKey = {k}
    Data = {v}
    Absent = Absent
    Author = h1
    Neighbour <- MCNeighbour
    mBleachTTL = 1
    mUpdateInterval = 4
    Second = 1
    MaxDelay = 0
INVARIANT TypeOK
PROPERTY Expires
