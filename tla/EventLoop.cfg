SPECIFICATION Spec
CONSTANTS
    FD = {f1, f2}
    Co = {c1, c2}
    DEFAULT_MAX_EVENTS = 2
    Used = {"connecting", "accepted", "reader", "writer", "pidfd"}
    None = None
SYMMETRY Symmetry
INVARIANTS
    TypeOK
    NoLostWakeup
    QueuesMatchCoroutines
