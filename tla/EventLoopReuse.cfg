SPECIFICATION Spec
CONSTANTS
    FD = {f1, f2}
    Co = {c1}
    DEFAULT_MAX_EVENTS = 2
    Used = {"connecting", "pidfd"}
    None = None
CHECK_DEADLOCK FALSE
INVARIANTS
    LeftoverNeedsReuse
PROPERTIES
    ResumedOnlyWhenReady
    ReadyIsResumed
