\* The file changes three times, and another thread triggers an event.
CONSTANTS
    Checker = Checker
    Stranger = Stranger
    NoThread = NoThread
    NoEvent = NoEvent
    Other = Other
    Producers <- TwoThreads
    Events <- AllEvents
    MaxEvents = 4
    MaxChanges = 3
    MaxOther = 1
    Faults = {"asleep"}
SPECIFICATION WLSpec
INVARIANTS
    NodesAlive
    ListInUseNotFreed
PROPERTIES
    ImplementsEventQueue
    EventsHandled
    LatestInForce
    OldListsFreed
CHECK_DEADLOCK FALSE
