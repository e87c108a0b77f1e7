SPECIFICATION Spec
CONSTANTS
    Runner = {accept, peer}
    Discoverer = {peer}
    PipeSize = 1
    DataLen = 2
    MaxPrint = 2
    MaxCommands = 3
    MayStay = {1, 2}
    None = None
INVARIANTS
    TypeOK
    OnlyLaterChildrenInherit
    DoneIsReapedAndClosed
PROPERTIES
    CommandsEnd
    PortIsFreed
CHECK_DEADLOCK FALSE
