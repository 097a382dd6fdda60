------------------------------- MODULE Shards -------------------------------
(***************************************************************************)
(* router_acquire_shards: a request's keys, sorted by shard, are cut into  *)
(* one group per shard, and each group is given to req_on_getshards as     *)
(* soon as it is complete.  A callback for a pool without servers takes    *)
(* its shard off shard_count before it returns, and when that makes the    *)
(* count 0 it ends and frees the request, so the loop that is still        *)
(* running must not reach 0 early.  shard_count therefore starts as the    *)
(* number of keys and is corrected for every key that shares its           *)
(* predecessor's shard.                                                    *)
(*                                                                         *)
(* Nothing else runs meanwhile.  The steps are those of QuickSort, and     *)
(* when the array is sorted the iterations of the loop.                    *)
(***************************************************************************)
EXTENDS QuickSort

ASSUME ShardsAssumption ==
    /\ ShardKeys \subseteq Nat
    /\ MaxKeys \in Nat \ {0}

VARIABLES
    refused,     \* the shards whose pool has no servers
    i,           \* the loop variable, from 1
    start,       \* first key of the group being collected
    last,        \* last_partition
    shardCount,  \* r->shard_count
    groups,      \* the callbacks made: shard, first key, number of keys
    done,        \* req_done was called, r is freed
    returned     \* the function is past its last callback

loopVars == << refused, i, start, last, shardCount, groups, done, returned >>

shardVars == << sortVars, loopVars >>

\* backend_req[j]->shard_key
ShardKey(j) == key[arr[j]]

ShardsTypeOK ==
    /\ SortTypeOK
    /\ refused \subseteq ShardKeys
    /\ i \in 1 .. Len(arr) + 1
    /\ start \in 1 .. Len(arr)
    /\ last \in ShardKeys \cup {-1}
    /\ shardCount \in 0 .. Len(arr)
    /\ groups \in Seq([shard : ShardKeys, from : 1 .. Len(arr),
                       num : 1 .. Len(arr)])
    /\ done \in BOOLEAN
    /\ returned \in BOOLEAN

\* Mutant of ShardsInit: the count is one short.
ShardsInit_OneLess ==
    /\ SortInit
    /\ refused \in SUBSET ShardKeys
    /\ i = 1 /\ start = 1 /\ last = -1
    /\ shardCount = Len(arr) - 1
    /\ groups = << >>
    /\ done = FALSE /\ returned = FALSE

\* The state at the call of _quicksort; the loop's variables are set after it.
ShardsInit ==
    /\ SortInit
    /\ refused \in SUBSET ShardKeys
    /\ i = 1 /\ start = 1 /\ last = -1
    /\ shardCount = Len(arr)
    /\ groups = << >>
    /\ done = FALSE /\ returned = FALSE

\* cb(backend_req + start, num, r, pool of shard), entered with the count: a
\* refusal comes back through req_on_shard_done.
Callback(shard, num, count) ==
    /\ groups' = Append(groups, [shard |-> shard, from |-> start, num |-> num])
    /\ IF shard \in refused
       THEN /\ shardCount' = count - 1
            /\ done' = (count - 1 = 0)
       ELSE /\ shardCount' = count
            /\ UNCHANGED done

\* Mutant of Iterate: the first key of the new group is not remembered.
Iterate_KeepStart ==
    /\ stack = << >> /\ i <= Len(arr)
    /\ LET count == IF ShardKey(i) = last THEN shardCount - 1 ELSE shardCount
       IN  IF ShardKey(i) # last /\ last # -1
           THEN Callback(last, i - start, count)
           ELSE /\ shardCount' = count
                /\ UNCHANGED << groups, done >>
    /\ last' = ShardKey(i)
    /\ i' = i + 1
    /\ UNCHANGED << sortVars, refused, start, returned >>

\* Mutant of Iterate: keys of one shard are counted one by one.
Iterate_NoCorrection ==
    /\ stack = << >> /\ i <= Len(arr)
    /\ IF ShardKey(i) # last /\ last # -1
       THEN /\ Callback(last, i - start, shardCount)
            /\ start' = i
       ELSE UNCHANGED << shardCount, groups, done, start >>
    /\ last' = ShardKey(i)
    /\ i' = i + 1
    /\ UNCHANGED << sortVars, refused, returned >>

\* One iteration of the loop.
Iterate ==
    /\ stack = << >> /\ i <= Len(arr)
    /\ LET count == IF ShardKey(i) = last THEN shardCount - 1 ELSE shardCount
       IN  IF ShardKey(i) # last /\ last # -1
           THEN /\ Callback(last, i - start, count)
                /\ start' = i
           ELSE /\ shardCount' = count
                /\ UNCHANGED << groups, done, start >>
    /\ last' = ShardKey(i)
    /\ i' = i + 1
    /\ UNCHANGED << sortVars, refused, returned >>

\* The callback after the loop, for the last group.
Finish ==
    /\ stack = << >> /\ i = Len(arr) + 1 /\ ~returned
    /\ Callback(last, Len(arr) + 1 - start, shardCount)
    /\ returned' = TRUE
    /\ UNCHANGED << sortVars, refused, i, start, last >>

ShardsNext ==
    \/ SortNext /\ UNCHANGED loopVars
    \/ Iterate
    \/ Finish

ShardsSpec ==
    ShardsInit /\ [][ShardsNext]_shardVars /\ WF_shardVars(ShardsNext)

-----------------------------------------------------------------------------
(* Properties *)

\* The request is not ended, and freed, by a callback while the loop still
\* has keys to look at and shard_count to correct, whichever shards refuse.
NotFreedInLoop == done => returned

\* Every shard among the keys gets one callback, with exactly its keys: the
\* groups follow one another, a group has keys of its shard only, and no two
\* groups have the same shard.
OneGroupPerShard ==
    /\ \A g \in DOMAIN groups :
        /\ groups[g].from = IF g = 1 THEN 1
                            ELSE groups[g - 1].from + groups[g - 1].num
        /\ \A k \in groups[g].from .. groups[g].from + groups[g].num - 1 :
             ShardKey(k) = groups[g].shard
    /\ \A g, h \in DOMAIN groups :
        groups[g].shard = groups[h].shard => g = h
    /\ returned => groups[Len(groups)].from + groups[Len(groups)].num
                     = Len(arr) + 1

\* When the function returns, shard_count is the number of shards whose
\* answer is to come, and the request is done if there is none: it neither
\* waits for an answer that will not come nor ends before one that will.
CountMatchesGroups ==
    returned =>
        /\ shardCount = Cardinality({g \in DOMAIN groups :
                                       groups[g].shard \notin refused})
        /\ done <=> shardCount = 0

\* The function returns: the sort ends, for equal keys too, on which both of
\* its inner loops go on, and so does the loop.
AcquireReturns == <>returned
=============================================================================
