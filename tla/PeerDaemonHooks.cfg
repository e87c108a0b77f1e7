SPECIFICATION Spec
CONSTANTS
    h1 = h1
    h2 = h2
    Host = {h1, h2}
    Candidates <- MCCandidates
    Console = {h1}
    CallsBack = {}
    MayStick = {}
    MayFallSilent = {}
    Faults = {"killed", "accept", "discover"}
    Backlog = 2
    None = None
    Gone = Gone
    Silent = Silent
PROPERTIES
    HooksEndUpCurrent
