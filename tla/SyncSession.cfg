SPECIFICATION Spec
CONSTANTS
    Width <- MCWidth
    SocketBuf = 2
    Version = {1, 2}
INVARIANTS
    TypeOK
    SyncedMeansServerMerged
    ServedMeansReplyReceived
    OnlyAcceptableMerged
PROPERTY SessionEnds
