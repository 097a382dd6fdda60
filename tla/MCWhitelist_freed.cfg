\* The file may be gone when it is to be loaded.
CONSTANTS
    Checker = Checker
    Stranger = Stranger
    NoThread = NoThread
    NoEvent = NoEvent
    Other = Other
    Producers <- TwoThreads
    Events <- AllEvents
    MaxEvents = 2
    MaxChanges = 2
    MaxOther = 0
    Faults = {"loading"}
SPECIFICATION WLSpec
INVARIANTS ListInUseNotFreed
CHECK_DEADLOCK FALSE
