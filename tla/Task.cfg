SPECIFICATION Spec
CONSTANTS
    Main = peer
    Spawned = {accept, bleach}
    Co = {peer, accept, bleach, c1, c2, c3}
    MaxStack = 9
    None = None
INVARIANTS
    TypeOK
    OneRuns
    AwaitsOneTask
