SPECIFICATION FairSpec
CONSTANTS
    h1 = h1
    h2 = h2
    Host = {h1, h2}
    StateKey = {k}
    Data = {v}
    Absent = Absent
    None = None
    MaxBleach = 1
    Console = {h2}
    mBleachTTL <- MCBleachTTL
    mUpdateInterval <- MCUpdateInterval
    Neighbour <- MCOneWay
    SyncPeers <- MCSyncPeers
INVARIANTS
    TypeOK
    TtlWithinInsertTtl
    Provenance
    InsertConfirmed
PROPERTIES
    OwnTtlRaisedOnlyByCommand
    ImplementsMap
    KeysSpread
