------------------------------- MODULE Router -------------------------------
(***************************************************************************)
(* The two sides of router.cpp.  Each side has a map from partition keys   *)
(* to partitions and, for every partition, a pool for reading and one for  *)
(* writing.  Requests use the side router_flag; router_build fills the     *)
(* other one, swaps them, and destroys the pools of the old side.  A pool  *)
(* calls back when it is gone, and the last one ends the switch.           *)
(*                                                                         *)
(* A pool is what Pool models; here it is the services it was built from   *)
(* and whether pool_destroy was called.  Pools have one server at most     *)
(* (_pool_server_destroyed frees an element of the array of servers).      *)
(* The router is one record: router_next_flag is always the other side.    *)
(***************************************************************************)
EXTENDS Integers, Sequences, FiniteSets

CONSTANTS ModKey,          \* PARTITION_MOD_KEY
          MaxPartitions,   \* bound on the partitions of a configuration
          Services

ASSUME RouterAssumption ==
    /\ ModKey \in Nat \ {0}
    /\ MaxPartitions \in Nat \ {0}

Keys == 0 .. ModKey - 1
Sides == {0, 1}
Kinds == {"r", "w"}
Parts == 0 .. MaxPartitions - 1

NullPool == [built |-> FALSE, services |-> {}, destroying |-> FALSE]

PoolType == [built : BOOLEAN, services : SUBSET Services, destroying : BOOLEAN]

RouterType == [flag : Sides,
               switching : BOOLEAN,
               map : [Sides -> [Keys -> Parts]],
               pools : [Sides -> [Kinds -> [Parts -> PoolType]]],
               num : [Sides -> [Kinds -> 0 .. MaxPartitions]]]

\* router_init
RouterInit == [flag |-> 1,
               switching |-> FALSE,
               map |-> [d \in Sides |-> [k \in Keys |-> 0]],
               pools |-> [d \in Sides |-> [m \in Kinds |-> [i \in Parts |-> NullPool]]],
               num |-> [d \in Sides |-> [m \in Kinds |-> 0]]]

NextFlag(rt) == 1 - rt.flag

-----------------------------------------------------------------------------
(* A database (meta_db_info_t) is its shard mode, the numbers of every     *)
(* partition as a sequence of intervals, and the services of every         *)
(* partition for each kind of pool.                                        *)

PartitionIds(db) == DOMAIN db.partition

\* The places at which key k occurs in the partitions.
Places(db, k) ==
    UNION {{i} \X {j \in DOMAIN db.partition[i] :
                     db.partition[i][j].lo <= k /\ k <= db.partition[i][j].hi} :
           i \in PartitionIds(db)}

\* _shard_init_part, partition_check: no key is in two places, and every key
\* is in one.
Allocated(db) == \A k \in Keys : Cardinality(Places(db, k)) = 1

\* _shard_init_part, router_map; the map was reset to 0.
PartitionMap(db) ==
    [k \in Keys |-> IF Places(db, k) = {} THEN 0
                    ELSE (CHOOSE place \in Places(db, k) : TRUE)[1]]

\* _shard_build_pool: the pools of both kinds on the next side.
ShardBuildPool(rt, db) ==
    LET Built(m) == [i \in Parts |->
            IF i \in PartitionIds(db)
            THEN [built |-> TRUE, services |-> db.service[m][i], destroying |-> FALSE]
            ELSE rt.pools[NextFlag(rt)][m][i]]
    IN  [rt EXCEPT
           !.pools[NextFlag(rt)] = [m \in Kinds |-> Built(m)],
           !.num[NextFlag(rt)] =
               [m \in Kinds |-> @[m] + Cardinality(PartitionIds(db))]]

\* router_destroy: pool_destroy for the first num pools of the old side.
RouterDestroy(rt) ==
    LET old == NextFlag(rt)
    IN  IF \A m \in Kinds : rt.num[old][m] = 0
        THEN [rt EXCEPT !.switching = FALSE]
        ELSE [rt EXCEPT !.pools[old] =
                 [m \in Kinds |-> [i \in Parts |->
                     [@[m][i] EXCEPT !.destroying = i < rt.num[old][m]]]]]

\* router_build returns 0.
BuildSucceeds(db) == db.mode = 0 /\ Allocated(db)

\* router_build.  An unsupported mode leaves router_switching set.  What a
\* rejected configuration leaves in the map of the next side is not modelled:
\* the next build resets that map.
RouterBuild(rt, db) ==
    CASE db.mode # 0 -> [rt EXCEPT !.switching = TRUE]
      [] db.mode = 0 /\ ~Allocated(db) -> [rt EXCEPT !.switching = FALSE]
      [] BuildSucceeds(db) ->
           LET init  == [rt EXCEPT !.switching = TRUE,
                                   !.map[NextFlag(rt)] = PartitionMap(db)]
               built == ShardBuildPool(init, db)
           IN  RouterDestroy([built EXCEPT !.flag = NextFlag(rt)])

\* Mutant of OnDestroy: the entry of the active side is cleared.
OnDestroy_Active(rt, m, i) ==
    [rt EXCEPT !.pools[rt.flag][m][i] = NullPool,
               !.num[NextFlag(rt)][m] = @ - 1]

\* _router_on_destroy, for pool i of a kind on the old side.  The pool's
\* index in the table comes from m_poolIdx, the counter from
\* router_next_flag.
OnDestroy(rt, m, i) ==
    LET old  == NextFlag(rt)
        less == [rt EXCEPT !.pools[old][m][i] = NullPool, !.num[old][m] = @ - 1]
    IN  [less EXCEPT !.switching = @ /\ \E n \in Kinds : less.num[old][n] # 0]

\* The pool calls back when its last server is gone; one that never had a
\* server does not (pool_destroy, _pool_server_destroyed).
CallsBack(rt, m, i) ==
    LET p == rt.pools[NextFlag(rt)][m][i]
    IN  p.destroying /\ p.services # {}
=============================================================================
