\* Both rings; a ring of three bytes is filled and wraps twice.
CONSTANTS
    log = log
    logwf = logwf
    Rings <- TwoRings
    Size = 3
    MaxLine = 2
    MaxBytes = 7
SPECIFICATION RingSpec
INVARIANTS UnreadIntact
PROPERTIES LogDrained
CHECK_DEADLOCK FALSE
