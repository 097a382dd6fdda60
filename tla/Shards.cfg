\* Requests with up to six keys in three shards, any of them without servers.
CONSTANTS
    ShardKeys = {0, 1, 2}
    MaxKeys = 6
SPECIFICATION ShardsSpec
INVARIANTS
    ShardsTypeOK
    SortsEveryKey
    NotFreedInLoop
    OneGroupPerShard
    CountMatchesGroups
PROPERTIES AcquireReturns
CHECK_DEADLOCK FALSE
