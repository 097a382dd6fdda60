\* Two clients, one of which may pipeline and probe, and one descriptor.
CONSTANTS
    c1 = c1
    c2 = c2
    Junk = Junk
    NoConn = NoConn
    Clients <- TwoClients
    Plain <- FirstPlain
    HeadLen = 2
    HighFactor = 2
    MaxRequests = 4
    Bodies = {0, 2}
    FdLimit = 1
SPECIFICATION WorldSpec
INVARIANTS
    FrameIntact
    AnswersInOrder
PROPERTIES
    ImplementsConnLife
    RequestAnswered
    ClosedIsFreed
    CallersHeard
