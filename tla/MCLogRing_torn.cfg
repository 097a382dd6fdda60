\* One ring that wraps.
CONSTANTS
    log = log
    logwf = logwf
    Rings <- OneRing
    Size = 4
    MaxLine = 3
    MaxBytes = 6
SPECIFICATION RingSpec
INVARIANTS FileHasLines
CHECK_DEADLOCK FALSE
