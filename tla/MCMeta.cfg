\* Thirteen configurations, four changes of the file.
CONSTANTS
    sv1 = sv1
    sv2 = sv2
    u1 = u1
    u2 = u2
    here = here
    there = there
    Services <- TwoServices
    Users <- TwoUsers
    Confs <- AllConfs
    ModKey = 3
    MaxPartitions = 2
    MaxChanges = 4
SPECIFICATION MetaSpec
INVARIANTS
    RoutedAsConfigured
    NoPoolForgotten
    AuthFindsUser
PROPERTIES LastFileTakesEffect
CHECK_DEADLOCK FALSE
