SPECIFICATION Spec
CONSTANTS
    h1 = h1
    h2 = h2
    Host = {h1, h2}
    Candidates <- MCCandidates
    Console = {h1}
    CallsBack <- AcceptCallsBack
    MayStick <- MCStick
    MayFallSilent <- MCSilent
    Faults = {"killed", "accept", "discover"}
    Backlog = 1
    None = None
    Gone = Gone
    Silent = Silent
INVARIANTS
    TypeOK
PROPERTIES
    ClientsServed
    RoundsEnd
    RestartPossible
