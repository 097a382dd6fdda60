----------------------------- MODULE MetaProofs ------------------------------
(***************************************************************************)
(* Proofs about the configuration and the router.  Each side of the router *)
(* is right by itself, its counters are exact, and the side that is not in *)
(* use is empty when no switch is under way; what is in use changes only   *)
(* when a configuration is accepted.                                       *)
(***************************************************************************)
EXTENDS Meta, FiniteSetTheorems, SequenceTheorems, WellFoundedInduction, TLAPS

-----------------------------------------------------------------------------
(* What the loader reads *)

LEMMA Least ==
    ASSUME NEW T \in SUBSET Nat, T # {}
    PROVE  \E n \in T : \A m \in T : n <= m
  <1>1. IsWellFoundedOn(OpToRel(<, Nat), Nat)
    BY NatLessThanWellFounded
  <1>2. PICK n \in T : \A m \in T : <<m, n>> \notin OpToRel(<, Nat)
    BY <1>1, WFMin
  <1>3. \A m \in T : ~(m < n)
    BY <1>2 DEF OpToRel
  <1> QED
    BY <1>3

LEMMA Greatest ==
    ASSUME NEW n \in Nat, NEW T \in SUBSET (0 .. n), T # {}
    PROVE  \E k \in T : \A m \in T : m <= k
  <1> DEFINE U == {n - k : k \in T}
  <1>1. U \in SUBSET Nat /\ U # {}
    <2>1. \A k \in T : k \in 0 .. n
      OBVIOUS
    <2>2. \A k \in 0 .. n : n - k \in Nat
      OBVIOUS
    <2> QED
      BY <2>1, <2>2
  <1>2. PICK u \in U : \A v \in U : u <= v
    BY <1>1, Least
  <1>3. PICK k \in T : u = n - k
    BY <1>2
  <1>4. \A m \in T : n - k <= n - m
    BY <1>2, <1>3
  <1> QED
    BY <1>4

\* The words that are read are the first ones of the partition, as they are,
\* and none of them is bad.
LEMMA LoadPartitionIs ==
    ASSUME NEW w \in Seq(Word)
    PROVE  /\ LoadPartition(w) \in Seq(Word)
           /\ DOMAIN LoadPartition(w) \subseteq DOMAIN w
           /\ \A j \in DOMAIN LoadPartition(w) :
                LoadPartition(w)[j] = w[j] /\ \A h \in 1 .. j : ~BadWord(w[h])
  <1> DEFINE good == {n \in 0 .. Len(w) : \A j \in 1 .. n : ~BadWord(w[j])}
             last == CHOOSE n \in good : \A m \in good : m <= n
  <1>1. Len(w) \in Nat
    OBVIOUS
  <1>2. 0 \in good
    BY <1>1
  <1>3. good \in SUBSET (0 .. Len(w))
    OBVIOUS
  <1> HIDE DEF good
  <1>4. \E n \in good : \A m \in good : m <= n
    BY <1>1, <1>2, <1>3, Greatest
  <1>5. last \in 0 .. Len(w)
    BY <1>3, <1>4
  <1>6. \A h \in 1 .. last : ~BadWord(w[h])
    <2> HIDE DEF last
    <2>1. last \in good
      BY <1>4 DEF last
    <2> QED
      BY <2>1 DEF good
  <1>7. LoadPartition(w) = SubSeq(w, 1, last)
    BY DEF LoadPartition, good
  <1>8. /\ LoadPartition(w) \in Seq(Word)
        /\ Len(LoadPartition(w)) = last
        /\ \A j \in 1 .. last : LoadPartition(w)[j] = w[j]
    <2> HIDE DEF last
    <2>1. last \in Int /\ \A j \in 1 .. last : w[j] \in Word
      BY <1>1, <1>5
    <2>2. /\ SubSeq(w, 1, last) \in Seq(Word)
          /\ Len(SubSeq(w, 1, last)) = IF 1 <= last THEN last - 1 + 1 ELSE 0
          /\ \A j \in 1 .. last - 1 + 1 : SubSeq(w, 1, last)[j] = w[1 + j - 1]
      BY <2>1, SubSeqProperties
    <2>3. last - 1 + 1 = last /\ \A j \in 1 .. last : 1 + j - 1 = j
      BY <1>1, <1>5
    <2> QED
      BY <1>1, <1>5, <1>7, <2>2, <2>3
  <1> HIDE DEF last
  <1>9. DOMAIN LoadPartition(w) = 1 .. last /\ DOMAIN w = 1 .. Len(w)
    BY <1>8
  <1>10. \A j \in 1 .. last : \A h \in 1 .. j : h \in 1 .. last
    BY <1>1, <1>5
  <1> QED
    BY <1>1, <1>5, <1>6, <1>8, <1>9, <1>10

\* The table finds the users of the database by name.
LEMMA AuthLoadFinds ==
    ASSUME NEW old, NEW users \in Seq(Users)
    PROVE  /\ DOMAIN AuthLoad(old, users) = {users[i] : i \in DOMAIN users}
           /\ \A u \in DOMAIN AuthLoad(old, users) :
                /\ AuthLoad(old, users)[u] \in DOMAIN users
                /\ users[AuthLoad(old, users)[u]] = u
  <1>1. DOMAIN AuthLoad(old, users) = {users[i] : i \in DOMAIN users}
    BY DEF AuthLoad
  <1>2. ASSUME NEW u \in {users[i] : i \in DOMAIN users}
        PROVE  \E i \in DOMAIN users :
                  users[i] = u /\ \A j \in 1 .. i - 1 : users[j] # u
    <2> DEFINE T == {i \in DOMAIN users : users[i] = u}
    <2>1. T \in SUBSET Nat /\ T # {}
      OBVIOUS
    <2>2. PICK i \in T : \A j \in T : i <= j
      BY <2>1, Least
    <2>3. DOMAIN users = 1 .. Len(users) /\ Len(users) \in Nat
      OBVIOUS
    <2> QED
      BY <2>2, <2>3
  <1> QED
    BY <1>1, <1>2 DEF AuthLoad

-----------------------------------------------------------------------------
(* The router *)

\* router_pool_num counts the pools of a side.
NumExact(rt) ==
    \A d \in Sides, m \in Kinds :
        rt.num[d][m] = Cardinality({i \in Parts : rt.pools[d][m][i].built})

\* A place in the table without a pool has no services.
NullOrBuilt(rt) ==
    \A d \in Sides, m \in Kinds, i \in Parts :
        ~rt.pools[d][m][i].built => rt.pools[d][m][i].services = {}

NextSideEmpty(rt) ==
    \A m \in Kinds, i \in Parts : ~rt.pools[NextFlag(rt)][m][i].built

RouterOK(rt) ==
    /\ rt \in RouterType
    /\ NumExact(rt)
    /\ NullOrBuilt(rt)
    /\ ~rt.switching => NextSideEmpty(rt)

\* What requests see of the router: the side in use.
SameInUse(rt, new) ==
    /\ new.flag = rt.flag
    /\ new.map = rt.map
    /\ new.pools[rt.flag] = rt.pools[rt.flag]

\* A database whose partitions have a place in the table.
DbOK(d) ==
    /\ PartitionIds(d) \subseteq Parts
    /\ \A m \in Kinds, i \in PartitionIds(d) : d.service[m][i] \subseteq Services

\* The side in use is what the database says.
Serves(rt, d) ==
    \A k \in Keys :
        LET i == rt.map[rt.flag][k]
        IN  /\ i \in PartitionIds(d)
            /\ \E j \in DOMAIN d.partition[i] :
                 d.partition[i][j].lo <= k /\ k <= d.partition[i][j].hi
            /\ \A m \in Kinds :
                 /\ rt.pools[rt.flag][m][i].built
                 /\ ~rt.pools[rt.flag][m][i].destroying
                 /\ rt.pools[rt.flag][m][i].services = d.service[m][i]

LEMMA PartsFinite ==
    /\ IsFiniteSet(Parts)
    /\ \A P : P \subseteq Parts => /\ IsFiniteSet(P)
                                   /\ Cardinality(P) \in 0 .. MaxPartitions
                                   /\ Cardinality(P) = 0 <=> P = {}
  <1>1. MaxPartitions \in Nat \ {0}
    BY RouterAssumption
  <1>2. IsFiniteSet(Parts) /\ Cardinality(Parts) = MaxPartitions
    <2>1. 0 \in Int /\ MaxPartitions - 1 \in Int
      BY <1>1
    <2>2. /\ IsFiniteSet(0 .. MaxPartitions - 1)
          /\ Cardinality(0 .. MaxPartitions - 1) =
               IF 0 > MaxPartitions - 1 THEN 0 ELSE MaxPartitions - 1 - 0 + 1
      BY <2>1, FS_Interval
    <2> QED
      BY <1>1, <2>2 DEF Parts
  <1>3. ASSUME NEW P, P \subseteq Parts
        PROVE  /\ IsFiniteSet(P)
               /\ Cardinality(P) \in 0 .. MaxPartitions
               /\ Cardinality(P) = 0 <=> P = {}
    <2>1. IsFiniteSet(P) /\ Cardinality(P) <= Cardinality(Parts)
      BY <1>2, <1>3, FS_Subset
    <2>2. Cardinality(P) \in Nat
      BY <2>1, FS_CardinalityType
    <2>3. Cardinality(P) = 0 <=> P = {}
      BY <2>1, FS_EmptySet
    <2> QED
      BY <1>1, <1>2, <2>1, <2>2, <2>3
  <1> QED
    BY <1>2, <1>3

LEMMA SidesAre == ASSUME NEW rt \in RouterType
                  PROVE  /\ rt.flag \in Sides /\ NextFlag(rt) \in Sides
                         /\ NextFlag(rt) # rt.flag
                         /\ \A d \in Sides : d = rt.flag \/ d = NextFlag(rt)
  BY DEF RouterType, Sides, NextFlag

LEMMA PoolsReplaced ==
    ASSUME NEW rt \in RouterType, NEW pools, NEW num
    PROVE  LET new == [rt EXCEPT !.pools = pools, !.num = num]
           IN  /\ new.num = num
               /\ new = [flag |-> rt.flag, switching |-> rt.switching, map |-> rt.map,
                         pools |-> pools, num |-> num]
  <1> DEFINE new == [rt EXCEPT !.pools = pools, !.num = num]
             all == [flag |-> rt.flag, switching |-> rt.switching, map |-> rt.map,
                     pools |-> pools, num |-> num]
  <1>1. /\ DOMAIN rt = {"flag", "switching", "map", "pools", "num"}
        /\ rt = [x \in DOMAIN rt |-> rt[x]]
    BY DEF RouterType
  <1>2. new = [x \in DOMAIN rt |->
                 IF x = "num" THEN num ELSE IF x = "pools" THEN pools ELSE rt[x]]
    BY <1>1
  <1>3. all = [x \in {"flag", "switching", "map", "pools", "num"} |->
                 IF x = "num" THEN num ELSE IF x = "pools" THEN pools ELSE rt[x]]
    OBVIOUS
  <1> QED
    BY <1>1, <1>2, <1>3

LEMMA MapReplaced ==
    ASSUME NEW rt \in RouterType, NEW switching, NEW map
    PROVE  [rt EXCEPT !.switching = switching, !.map = map] =
             [flag |-> rt.flag, switching |-> switching, map |-> map,
              pools |-> rt.pools, num |-> rt.num]
  <1> DEFINE new == [rt EXCEPT !.switching = switching, !.map = map]
             all == [flag |-> rt.flag, switching |-> switching, map |-> map,
                     pools |-> rt.pools, num |-> rt.num]
  <1>1. /\ DOMAIN rt = {"flag", "switching", "map", "pools", "num"}
        /\ rt = [x \in DOMAIN rt |-> rt[x]]
    BY DEF RouterType
  <1>2. new = [x \in DOMAIN rt |->
                 IF x = "switching" THEN switching ELSE IF x = "map" THEN map ELSE rt[x]]
    BY <1>1
  <1>3. all = [x \in {"flag", "switching", "map", "pools", "num"} |->
                 IF x = "switching" THEN switching ELSE IF x = "map" THEN map ELSE rt[x]]
    OBVIOUS
  <1> QED
    BY <1>1, <1>2, <1>3

LEMMA FlagReplaced ==
    ASSUME NEW f, NEW g, NEW switching, NEW map, NEW pools, NEW num
    PROVE  [[flag |-> f, switching |-> switching, map |-> map, pools |-> pools,
             num |-> num] EXCEPT !.flag = g] =
             [flag |-> g, switching |-> switching, map |-> map, pools |-> pools,
              num |-> num]
  OBVIOUS

\* router_destroy tells the pools of the old side to go.
LEMMA RouterDestroyOK ==
    ASSUME NEW rt \in RouterType, NumExact(rt), NullOrBuilt(rt), rt.switching
    PROVE  RouterOK(RouterDestroy(rt)) /\ SameInUse(rt, RouterDestroy(rt))
  <1> DEFINE old == NextFlag(rt)
             new == RouterDestroy(rt)
  <1>1. /\ rt.flag \in Sides /\ old \in Sides /\ old # rt.flag
        /\ \A d \in Sides : d = rt.flag \/ d = old
    BY SidesAre
  <1>2. CASE \A m \in Kinds : rt.num[old][m] = 0
    <2>1. new = [rt EXCEPT !.switching = FALSE]
      BY <1>2 DEF RouterDestroy
    <2>2. /\ new \in RouterType
          /\ new.flag = rt.flag /\ new.map = rt.map
          /\ new.pools = rt.pools /\ new.num = rt.num
      <3> HIDE DEF new
      <3> QED
        BY <2>1 DEF RouterType
    <2>5. SameInUse(rt, new) /\ NumExact(new) /\ NullOrBuilt(new)
      BY <2>2 DEF SameInUse, NumExact, NullOrBuilt
    <2>3. NextSideEmpty(rt)
      <3> SUFFICES ASSUME NEW m \in Kinds PROVE {i \in Parts : rt.pools[old][m][i].built} = {}
        BY DEF NextSideEmpty
      <3>1. Cardinality({i \in Parts : rt.pools[old][m][i].built}) = 0
        BY <1>1, <1>2 DEF NumExact
      <3> QED
        BY <3>1, PartsFinite
    <2>4. NextSideEmpty(new)
      BY <2>2, <2>3 DEF NextSideEmpty, NextFlag
    <2> QED
      BY <2>2, <2>4, <2>5 DEF RouterOK
  <1>3. CASE ~ \A m \in Kinds : rt.num[old][m] = 0
    <2> DEFINE told == [m \in Kinds |-> [i \in Parts |->
                  [rt.pools[old][m][i] EXCEPT !.destroying = i < rt.num[old][m]]]]
    <2>1. new = [rt EXCEPT !.pools[old] = told]
      BY <1>3 DEF RouterDestroy
    <2>2. \A m \in Kinds, i \in Parts :
            /\ told[m][i] \in PoolType
            /\ told[m][i].built = rt.pools[old][m][i].built
            /\ told[m][i].services = rt.pools[old][m][i].services
      <3>1. \A m \in Kinds, i \in Parts :
              rt.pools[old][m][i] \in PoolType
        BY <1>1 DEF RouterType
      <3>2. \A m \in Kinds, i \in Parts : (i < rt.num[old][m]) \in BOOLEAN
        OBVIOUS
      <3> QED
        BY <3>1, <3>2 DEF PoolType
    <2>3. told \in [Kinds -> [Parts -> PoolType]]
      BY <2>2
    <2> HIDE DEF told
    <2>4. /\ new.flag = rt.flag /\ new.map = rt.map /\ new.num = rt.num
          /\ new.switching
          /\ new.pools = [rt.pools EXCEPT ![old] = told]
      BY <2>1 DEF RouterType
    <2>5. new \in RouterType
      <3>1. [rt.pools EXCEPT ![old] = told] \in [Sides -> [Kinds -> [Parts -> PoolType]]]
        BY <1>1, <2>3 DEF RouterType
      <3>2. new = [rt EXCEPT !.pools = [rt.pools EXCEPT ![old] = told]]
        BY <2>1
      <3> HIDE DEF new
      <3> QED
        BY <3>1, <3>2 DEF RouterType
    <2>6. new.pools[old] = told /\ new.pools[rt.flag] = rt.pools[rt.flag]
      BY <1>1, <2>4 DEF RouterType
    <2>7. \A d \in Sides, m \in Kinds, i \in Parts :
            /\ new.pools[d][m][i].built = rt.pools[d][m][i].built
            /\ new.pools[d][m][i].services = rt.pools[d][m][i].services
      BY <1>1, <2>2, <2>6
    <2>8. NumExact(new) /\ NullOrBuilt(new)
      BY <2>4, <2>7 DEF NumExact, NullOrBuilt
    <2> QED
      BY <2>4, <2>5, <2>6, <2>8 DEF RouterOK, SameInUse
  <1> QED
    BY <1>2, <1>3

\* _router_on_destroy: the entry is cleared, the counter goes down, and the
\* switch ends when both counters are zero.
LEMMA OnDestroyOK ==
    ASSUME NEW rt, RouterOK(rt), NEW m \in Kinds, NEW i \in Parts, CallsBack(rt, m, i)
    PROVE  RouterOK(OnDestroy(rt, m, i)) /\ SameInUse(rt, OnDestroy(rt, m, i))
  <1> DEFINE old == NextFlag(rt)
             new == OnDestroy(rt, m, i)
             pools == [rt.pools EXCEPT ![old][m][i] = NullPool]
             num == [rt.num EXCEPT ![old][m] = @ - 1]
             Of(p, d, n) == {k \in Parts : p[d][n][k].built}
  <1>1. rt \in RouterType /\ NumExact(rt) /\ NullOrBuilt(rt)
    BY DEF RouterOK
  <1>2. /\ rt.flag \in Sides /\ old \in Sides /\ old # rt.flag
        /\ \A d \in Sides : d = rt.flag \/ d = old
    BY <1>1, SidesAre
  <1>3. NullPool \in PoolType /\ ~NullPool.built /\ NullPool.services = {}
    BY DEF NullPool, PoolType
  <1>4. /\ rt.pools \in [Sides -> [Kinds -> [Parts -> PoolType]]]
        /\ rt.num \in [Sides -> [Kinds -> 0 .. MaxPartitions]]
        /\ rt.switching \in BOOLEAN /\ rt.map \in [Sides -> [Keys -> Parts]]
    BY <1>1 DEF RouterType
  <1>5. rt.pools[old][m][i].built
    BY <1>1, <1>2 DEF CallsBack, NullOrBuilt
  <1>6. /\ new.flag = rt.flag /\ new.map = rt.map
        /\ new.pools = pools /\ new.num = num
        /\ new.switching = (rt.switching /\ \E n \in Kinds : num[old][n] # 0)
        /\ new = [flag |-> rt.flag, switching |-> new.switching, map |-> rt.map,
                  pools |-> pools, num |-> num]
    <2> DEFINE less == [rt EXCEPT !.pools = pools, !.num = num]
    <2>1. /\ less = [rt EXCEPT !.pools[old][m][i] = NullPool, !.num[old][m] = @ - 1]
          /\ less.num = num
          /\ less = [flag |-> rt.flag, switching |-> rt.switching, map |-> rt.map,
                     pools |-> pools, num |-> num]
      <3> HIDE DEF old
      <3>1. less = [rt EXCEPT !.pools[old][m][i] = NullPool, !.num[old][m] = @ - 1]
        OBVIOUS
      <3> HIDE DEF pools, num
      <3>2. /\ less.num = num
            /\ less = [flag |-> rt.flag, switching |-> rt.switching, map |-> rt.map,
                       pools |-> pools, num |-> num]
        BY <1>1, PoolsReplaced
      <3> QED
        BY <3>1, <3>2
    <2>2. new = [less EXCEPT !.switching = @ /\ \E n \in Kinds : less.num[old][n] # 0]
      BY <2>1 DEF OnDestroy
    <2> HIDE DEF less, new, pools, num
    <2> QED
      BY <2>1, <2>2
  <1>7. /\ pools \in [Sides -> [Kinds -> [Parts -> PoolType]]]
        /\ pools[old][m][i] = NullPool
        /\ pools[rt.flag] = rt.pools[rt.flag]
        /\ \A d \in Sides, n \in Kinds, k \in Parts :
             ~(d = old /\ n = m /\ k = i) => pools[d][n][k] = rt.pools[d][n][k]
    BY <1>2, <1>3, <1>4
  <1>8. \A d \in Sides, n \in Kinds :
          Of(pools, d, n) = IF d = old /\ n = m THEN Of(rt.pools, d, n) \ {i}
                            ELSE Of(rt.pools, d, n)
    BY <1>3, <1>7
  <1>9. i \in Of(rt.pools, old, m)
    BY <1>5
  <1> HIDE DEF pools
  <1>10. \A d \in Sides, n \in Kinds :
           rt.num[d][n] = Cardinality(Of(rt.pools, d, n))
    BY <1>1 DEF NumExact
  <1>11. /\ IsFiniteSet(Of(rt.pools, old, m))
         /\ Cardinality(Of(rt.pools, old, m) \ {i}) =
              Cardinality(Of(rt.pools, old, m)) - 1
         /\ Cardinality(Of(rt.pools, old, m)) \in 0 .. MaxPartitions
         /\ Cardinality(Of(rt.pools, old, m) \ {i}) \in 0 .. MaxPartitions
    <2>1. /\ Of(rt.pools, old, m) \subseteq Parts
          /\ Of(rt.pools, old, m) \ {i} \subseteq Parts
      OBVIOUS
    <2> HIDE DEF Of
    <2>2. /\ IsFiniteSet(Of(rt.pools, old, m))
          /\ Cardinality(Of(rt.pools, old, m)) \in 0 .. MaxPartitions
          /\ Cardinality(Of(rt.pools, old, m) \ {i}) \in 0 .. MaxPartitions
      BY <2>1, PartsFinite
    <2> QED
      BY <1>9, <2>2, FS_RemoveElement
  <1>12. \A d \in Sides, n \in Kinds :
           num[d][n] = IF d = old /\ n = m THEN rt.num[d][n] - 1 ELSE rt.num[d][n]
    BY <1>2, <1>4
  <1>13. num[old][m] \in 0 .. MaxPartitions
    <2> HIDE DEF Of, num
    <2>1. num[old][m] = rt.num[old][m] - 1
      BY <1>2, <1>12
    <2>2. rt.num[old][m] = Cardinality(Of(rt.pools, old, m))
      BY <1>2, <1>10
    <2>3. num[old][m] = Cardinality(Of(rt.pools, old, m) \ {i})
      BY ONLY <1>11, <2>1, <2>2
    <2> QED
      BY <1>11, <2>3
  <1>14. num \in [Sides -> [Kinds -> 0 .. MaxPartitions]]
    BY <1>2, <1>4, <1>12, <1>13
  <1>15. new \in RouterType
    BY <1>2, <1>4, <1>6, <1>7, <1>14 DEF RouterType
  <1>16. NumExact(new)
    <2> SUFFICES ASSUME NEW d \in Sides, NEW n \in Kinds
                 PROVE  num[d][n] = Cardinality(Of(pools, d, n))
      BY <1>6 DEF NumExact
    <2> HIDE DEF Of, num
    <2> QED
      BY <1>8, <1>10, <1>11, <1>12
  <1>17. NullOrBuilt(new)
    <2>1. \A d \in Sides, n \in Kinds, k \in Parts :
            ~pools[d][n][k].built => pools[d][n][k].services = {}
      <3> SUFFICES ASSUME NEW d \in Sides, NEW n \in Kinds, NEW k \in Parts,
                          ~pools[d][n][k].built
                   PROVE  pools[d][n][k].services = {}
        OBVIOUS
      <3>1. CASE d = old /\ n = m /\ k = i
        BY <1>3, <1>7, <3>1
      <3>2. CASE ~(d = old /\ n = m /\ k = i)
        <4>1. pools[d][n][k] = rt.pools[d][n][k]
          BY <1>7, <3>2
        <4>2. ~rt.pools[d][n][k].built => rt.pools[d][n][k].services = {}
          BY <1>1 DEF NullOrBuilt
        <4> QED
          BY <4>1, <4>2
      <3> QED
        BY <3>1, <3>2
    <2> QED
      BY <1>6, <2>1 DEF NullOrBuilt
  <1>18. SameInUse(rt, new)
    BY <1>6, <1>7 DEF SameInUse
  <1>19. ~new.switching => NextSideEmpty(new)
    <2> SUFFICES ASSUME ~new.switching, NEW n \in Kinds
                 PROVE  Of(pools, old, n) = {}
      BY <1>6 DEF NextSideEmpty, NextFlag
    <2>1. CASE ~rt.switching
      <3>1. \A k \in Parts : ~rt.pools[old][n][k].built
        BY <2>1 DEF RouterOK, NextSideEmpty
      <3> QED
        BY <1>2, <1>8, <3>1
    <2>2. CASE rt.switching
      <3>1. num[old][n] = 0
        BY <1>6, <2>2
      <3>2. Cardinality(Of(pools, old, n)) = 0
        BY <1>2, <1>6, <1>16, <3>1 DEF NumExact
      <3> QED
        BY <3>2, PartsFinite
    <2> QED
      BY <1>4, <2>1, <2>2
  <1> QED
    BY <1>15, <1>16, <1>17, <1>18, <1>19 DEF RouterOK

\* The map of a database in which every key is allocated once leads each key
\* to a partition that names it (_shard_init_part).
LEMMA PartitionMapLeads ==
    ASSUME NEW d, DbOK(d), Allocated(d), NEW k \in Keys
    PROVE  LET i == PartitionMap(d)[k]
           IN  /\ i \in PartitionIds(d)
               /\ \E j \in DOMAIN d.partition[i] :
                    d.partition[i][j].lo <= k /\ k <= d.partition[i][j].hi
  <1> DEFINE At(i) == {j \in DOMAIN d.partition[i] :
                         d.partition[i][j].lo <= k /\ k <= d.partition[i][j].hi}
             place == CHOOSE p \in Places(d, k) : TRUE
  <1>1. Places(d, k) = UNION {{i} \X At(i) : i \in PartitionIds(d)}
    BY DEF Places
  <1>2. Places(d, k) # {}
    <2>1. Cardinality(Places(d, k)) = 1
      BY DEF Allocated
    <2>2. Cardinality({}) = 0
      BY FS_EmptySet
    <2> QED
      BY <2>1, <2>2
  <1>3. place \in Places(d, k)
    BY <1>2
  <1>4. PartitionMap(d)[k] = place[1]
    BY <1>2 DEF PartitionMap
  <1> HIDE DEF place, At
  <1>5. PICK i \in PartitionIds(d) : place \in {i} \X At(i)
    BY <1>1, <1>3
  <1>6. place[1] = i /\ place[2] \in At(i)
    BY <1>5
  <1> QED
    BY <1>4, <1>5, <1>6 DEF At

\* router_build: the side that was empty gets the map and the pools of the
\* database, and comes into use.
LEMMA RouterBuildOK ==
    ASSUME NEW rt, RouterOK(rt), NextSideEmpty(rt), NEW d, DbOK(d), BuildSucceeds(d)
    PROVE  RouterOK(RouterBuild(rt, d)) /\ Serves(RouterBuild(rt, d), d)
  <1> DEFINE next == NextFlag(rt)
             ids == PartitionIds(d)
             side == [m \in Kinds |-> [i \in Parts |->
                        IF i \in ids
                        THEN [built |-> TRUE, services |-> d.service[m][i],
                              destroying |-> FALSE]
                        ELSE rt.pools[next][m][i]]]
             map == [rt.map EXCEPT ![next] = PartitionMap(d)]
             pools == [rt.pools EXCEPT ![next] = side]
             num == [rt.num EXCEPT ![next] = [m \in Kinds |-> @[m] + Cardinality(ids)]]
             init == [rt EXCEPT !.switching = TRUE, !.map[next] = PartitionMap(d)]
             mid == [ShardBuildPool(init, d) EXCEPT !.flag = next]
             full == [flag |-> next, switching |-> TRUE, map |-> map, pools |-> pools,
                      num |-> num]
  <1>1. rt \in RouterType /\ NumExact(rt) /\ NullOrBuilt(rt)
    BY DEF RouterOK
  <1>2. /\ rt.flag \in Sides /\ next \in Sides /\ next # rt.flag
        /\ \A s \in Sides : s = rt.flag \/ s = next
    BY <1>1, SidesAre
  <1>3. /\ rt.pools \in [Sides -> [Kinds -> [Parts -> PoolType]]]
        /\ rt.num \in [Sides -> [Kinds -> 0 .. MaxPartitions]]
        /\ rt.map \in [Sides -> [Keys -> Parts]]
        /\ rt = [flag |-> rt.flag, switching |-> rt.switching, map |-> rt.map,
                 pools |-> rt.pools, num |-> rt.num]
    BY <1>1 DEF RouterType
  <1>4. d.mode = 0 /\ Allocated(d) /\ ids \subseteq Parts
    BY DEF BuildSucceeds, DbOK
  <1>8. PartitionMap(d) \in [Keys -> Parts]
    BY <1>4, PartitionMapLeads DEF PartitionMap
  <1>9. map \in [Sides -> [Keys -> Parts]] /\ map[next] = PartitionMap(d)
    BY <1>2, <1>3, <1>8
  <1>5. /\ init = [flag |-> rt.flag, switching |-> TRUE, map |-> map,
                   pools |-> rt.pools, num |-> rt.num]
        /\ init \in RouterType /\ NextFlag(init) = next
    <2>1. init = [flag |-> rt.flag, switching |-> TRUE, map |-> map,
                   pools |-> rt.pools, num |-> rt.num]
      <3>1. init = [rt EXCEPT !.switching = TRUE, !.map = map]
        OBVIOUS
      <3> HIDE DEF map, init
      <3> QED
        BY <1>1, <3>1, MapReplaced
    <2>2. init \in RouterType
      BY <1>2, <1>3, <1>9, <2>1 DEF RouterType
    <2>3. init.flag = rt.flag
      BY <2>1
    <2> QED
      BY <2>1, <2>2, <2>3 DEF NextFlag
  <1>6. mid = full
    <2>1. ShardBuildPool(init, d) = [init EXCEPT !.pools[next] = side, !.num[next] =
                                        [m \in Kinds |-> @[m] + Cardinality(ids)]]
      <3> HIDE DEF next, init
      <3>1. init.pools = rt.pools
        BY <1>5
      <3> QED
        BY <1>5, <3>1 DEF ShardBuildPool
    <2>2. /\ init.pools = rt.pools /\ init.num = rt.num
          /\ init.flag = rt.flag /\ init.switching /\ init.map = map
      <3> HIDE DEF init, map
      <3> QED
        BY <1>5
    <2>3. ShardBuildPool(init, d) = [init EXCEPT !.pools = pools, !.num = num]
      <3> HIDE DEF next, init, side, ids, map
      <3> QED
        BY <2>1, <2>2
    <2> HIDE DEF init, map, pools, num
    <2>4. ShardBuildPool(init, d) =
            [flag |-> rt.flag, switching |-> TRUE, map |-> map, pools |-> pools,
             num |-> num]
      <3>1. [init EXCEPT !.pools = pools, !.num = num] =
              [flag |-> init.flag, switching |-> init.switching, map |-> init.map,
               pools |-> pools, num |-> num]
        BY <1>5, PoolsReplaced, ZenonT(40)
      <3>2. init.switching = TRUE
        BY <1>5
      <3> QED
        BY <2>2, <2>3, <3>1, <3>2
    <2> HIDE DEF next
    <2>5. mid = [[flag |-> rt.flag, switching |-> TRUE, map |-> map, pools |-> pools,
                  num |-> num] EXCEPT !.flag = next]
      BY <2>4
    <2> HIDE DEF mid
    <2> QED
      BY <2>5, FlagReplaced
  <1>7. RouterBuild(rt, d) = RouterDestroy(mid)
    BY <1>4 DEF RouterBuild, BuildSucceeds
  <1>10. /\ side \in [Kinds -> [Parts -> PoolType]]
         /\ \A m \in Kinds, i \in Parts : side[m][i].built <=> i \in ids
         /\ \A m \in Kinds, i \in Parts : i \notin ids => side[m][i].services = {}
         /\ \A m \in Kinds, i \in ids : /\ side[m][i].built
                                        /\ ~side[m][i].destroying
                                        /\ side[m][i].services = d.service[m][i]
    <2>1. \A m \in Kinds, i \in Parts :
            rt.pools[next][m][i] \in PoolType /\ ~rt.pools[next][m][i].built
      BY <1>2, <1>3 DEF NextSideEmpty
    <2>2. \A m \in Kinds, i \in Parts : rt.pools[next][m][i].services = {}
      BY <1>1, <1>2, <2>1 DEF NullOrBuilt
    <2>3. \A m \in Kinds, i \in ids : d.service[m][i] \in SUBSET Services
      BY DEF DbOK
    <2>4. \A m \in Kinds, i \in Parts :
            side[m][i] = IF i \in ids
                         THEN [built |-> TRUE, services |-> d.service[m][i],
                               destroying |-> FALSE]
                         ELSE rt.pools[next][m][i]
      OBVIOUS
    <2>5. \A m \in Kinds, i \in Parts : side[m][i] \in PoolType
      BY <2>1, <2>3, <2>4 DEF PoolType
    <2>6. side = [m \in Kinds |-> [i \in Parts |-> side[m][i]]]
      OBVIOUS
    <2> HIDE DEF side
    <2>7. side \in [Kinds -> [Parts -> PoolType]]
      BY <2>5, <2>6
    <2> QED
      <3>1. \A m \in Kinds, i \in ids : /\ side[m][i].built
                                         /\ ~side[m][i].destroying
                                         /\ side[m][i].services = d.service[m][i]
        <4> SUFFICES ASSUME NEW m \in Kinds, NEW i \in ids
                     PROVE  /\ side[m][i].built
                            /\ ~side[m][i].destroying
                            /\ side[m][i].services = d.service[m][i]
          OBVIOUS
        <4>1. side[m][i] = [built |-> TRUE, services |-> d.service[m][i],
                            destroying |-> FALSE]
          BY <1>4, <2>4
        <4> QED
          BY <4>1
      <3>2. \A m \in Kinds, i \in Parts :
              i \notin ids => ~side[m][i].built /\ side[m][i].services = {}
        BY <2>1, <2>2, <2>4
      <3> QED
        BY <2>7, <3>1, <3>2
  <1> HIDE DEF side
  <1>11. /\ pools \in [Sides -> [Kinds -> [Parts -> PoolType]]]
         /\ pools[next] = side /\ pools[rt.flag] = rt.pools[rt.flag]
    BY <1>2, <1>3, <1>10
  <1>12. \A m \in Kinds : rt.num[next][m] = 0
    <2> SUFFICES ASSUME NEW m \in Kinds PROVE rt.num[next][m] = 0
      OBVIOUS
    <2>1. {i \in Parts : rt.pools[next][m][i].built} = {}
      BY DEF NextSideEmpty
    <2>2. rt.num[next][m] = Cardinality({i \in Parts : rt.pools[next][m][i].built})
      BY <1>1, <1>2 DEF NumExact
    <2> QED
      BY <2>1, <2>2, PartsFinite
  <1>13. /\ Cardinality(ids) \in 0 .. MaxPartitions
         /\ \A m \in Kinds : num[next][m] = Cardinality(ids)
         /\ num[rt.flag] = rt.num[rt.flag]
    <2>1. Cardinality(ids) \in 0 .. MaxPartitions
      BY <1>4, PartsFinite
    <2>2. \A m \in Kinds : num[next][m] = rt.num[next][m] + Cardinality(ids)
      BY <1>2, <1>3
    <2>3. num[rt.flag] = rt.num[rt.flag]
      BY <1>2, <1>3
    <2>4. \A m \in Kinds : 0 + Cardinality(ids) = Cardinality(ids)
      BY <2>1
    <2> HIDE DEF num, ids
    <2> QED
      BY <1>12, <2>1, <2>2, <2>3, <2>4
  <1>14. num \in [Sides -> [Kinds -> 0 .. MaxPartitions]]
    <2>1. num = [rt.num EXCEPT ![next] = [m \in Kinds |-> num[next][m]]]
      BY <1>2, <1>3
    <2> HIDE DEF num
    <2>2. [m \in Kinds |-> num[next][m]] \in [Kinds -> 0 .. MaxPartitions]
      BY <1>13
    <2> QED
      BY <1>2, <1>3, <2>1, <2>2
  <1> HIDE DEF num, pools, map
  <1>15. mid \in RouterType /\ mid.switching /\ mid.flag = next
    <2>1. full \in RouterType /\ full.switching /\ full.flag = next
      BY <1>2, <1>9, <1>11, <1>14 DEF RouterType
    <2> QED
      BY <1>6, <2>1
  <1>16. NumExact(mid)
    <2> SUFFICES ASSUME NEW s \in Sides, NEW m \in Kinds
                 PROVE  num[s][m] = Cardinality({i \in Parts : pools[s][m][i].built})
      BY <1>6 DEF NumExact
    <2>1. CASE s = next
      <3>1. {i \in Parts : pools[s][m][i].built} = ids
        BY <1>4, <1>10, <1>11, <2>1
      <3> QED
        BY <1>13, <2>1, <3>1
    <2>2. CASE s = rt.flag
      <3>1. pools[s] = rt.pools[s] /\ num[s] = rt.num[s]
        BY <1>11, <1>13, <2>2
      <3> QED
        BY <1>1, <3>1 DEF NumExact
    <2> QED
      BY <1>2, <2>1, <2>2
  <1>17. NullOrBuilt(mid)
    <2> SUFFICES ASSUME NEW s \in Sides, NEW m \in Kinds, NEW i \in Parts,
                        ~pools[s][m][i].built
                 PROVE  pools[s][m][i].services = {}
      BY <1>6 DEF NullOrBuilt
    <2>1. CASE s = next
      BY <1>10, <1>11, <2>1
    <2>2. CASE s = rt.flag
      BY <1>1, <1>11, <2>2 DEF NullOrBuilt
    <2> QED
      BY <1>2, <2>1, <2>2
  <1>18. RouterOK(RouterDestroy(mid)) /\ SameInUse(mid, RouterDestroy(mid))
    BY <1>15, <1>16, <1>17, RouterDestroyOK
  <1> HIDE DEF mid
  <1>19. Serves(mid, d)
    <2> SUFFICES ASSUME NEW k \in Keys
                 PROVE  LET i == map[next][k]
                        IN  /\ i \in ids
                            /\ \E j \in DOMAIN d.partition[i] :
                                 d.partition[i][j].lo <= k /\ k <= d.partition[i][j].hi
                            /\ \A m \in Kinds :
                                 /\ pools[next][m][i].built
                                 /\ ~pools[next][m][i].destroying
                                 /\ pools[next][m][i].services = d.service[m][i]
      BY <1>6 DEF Serves
    <2>1. map[next][k] = PartitionMap(d)[k]
      BY <1>9
    <2> QED
      BY <1>4, <1>10, <1>11, <2>1, PartitionMapLeads
  <1>20. Serves(RouterDestroy(mid), d)
    BY <1>18, <1>19, ZenonT(40) DEF Serves, SameInUse
  <1> QED
    BY <1>7, <1>18, <1>20

LEMMA SwitchingSet ==
    ASSUME NEW rt, RouterOK(rt), NEW b \in BOOLEAN, b \/ NextSideEmpty(rt)
    PROVE  LET new == [rt EXCEPT !.switching = b]
           IN  RouterOK(new) /\ SameInUse(rt, new)
  <1> DEFINE new == [rt EXCEPT !.switching = b]
  <1>1. rt \in RouterType /\ NumExact(rt) /\ NullOrBuilt(rt)
    BY DEF RouterOK
  <1>2. /\ new \in RouterType
        /\ new.flag = rt.flag /\ new.map = rt.map /\ new.switching = b
        /\ new.pools = rt.pools /\ new.num = rt.num
    BY <1>1 DEF RouterType
  <1> HIDE DEF new
  <1>3. NumExact(new) /\ NullOrBuilt(new) /\ SameInUse(rt, new)
    BY <1>1, <1>2 DEF NumExact, NullOrBuilt, SameInUse
  <1>4. NextSideEmpty(rt) => NextSideEmpty(new)
    BY <1>2 DEF NextSideEmpty, NextFlag
  <1>5. RouterOK(new)
    <2>1. CASE b
      BY <1>2, <1>3, <2>1 DEF RouterOK
    <2>2. CASE ~b
      BY <1>2, <1>3, <1>4, <2>2 DEF RouterOK
    <2> QED
      BY <2>1, <2>2
  <1> QED
    BY <1>3, <1>5 DEF new

-----------------------------------------------------------------------------
(* The invariant *)

Accepted(c) == c \in Confs /\ LoadSucceeds(c)

\* The table of users is that of a configuration, whatever was loaded since.
AuthOf(users) ==
    /\ DOMAIN auth = {users[i] : i \in DOMAIN users}
    /\ \A u \in DOMAIN auth : auth[u] \in DOMAIN users /\ users[auth[u]] = u

MetaInv ==
    /\ MetaTypeOK
    /\ RouterOK(router)
    /\ stamp # 0 => NextSideEmpty(router)
    /\ phase = "up" => Accepted(inForce) /\ Serves(router, LoadConf(inForce))
    /\ inForce # NoDb => Accepted(inForce) /\ AuthOf(inForce.users)

\* What is loaded when all goes well.
LEMMA LoadConfIs ==
    ASSUME NEW c, Accepted(c)
    PROVE  /\ DbOK(LoadConf(c))
           /\ PartitionIds(LoadConf(c)) = DOMAIN c.words
           /\ \A i \in DOMAIN c.words :
                /\ LoadConf(c).partition[i] = LoadPartition(c.words[i])
                /\ c.words[i] \in Seq(Word)
           /\ \A m \in Kinds, i \in DOMAIN c.words :
                LoadConf(c).service[m][i] = ServicesOf(c, m, i)
           /\ LoadConf(c).users = c.users /\ c.users \in Seq(Users)
  <1>1. ConfOK(c)
    BY MetaAssumption DEF Accepted
  <1>2. /\ LoadConf(c).partition = [i \in DOMAIN c.words |-> LoadPartition(c.words[i])]
        /\ LoadConf(c).service =
             [m \in Kinds |-> [i \in DOMAIN c.words |-> ServicesOf(c, m, i)]]
        /\ LoadConf(c).users = c.users
    BY DEF LoadConf, Accepted
  <1>3. PartitionIds(LoadConf(c)) = DOMAIN c.words
    BY <1>2 DEF PartitionIds
  <1>4. \A m \in Kinds, i \in DOMAIN c.words :
          LoadConf(c).service[m][i] = ServicesOf(c, m, i)
    BY <1>2
  <1>5. \A m \in Kinds, i \in DOMAIN c.words : ServicesOf(c, m, i) \subseteq Services
    BY <1>1 DEF ServicesOf, ConfOK
  <1>6. \A i \in DOMAIN c.words : LoadConf(c).partition[i] = LoadPartition(c.words[i])
    BY <1>2
  <1>7. /\ DOMAIN c.words \subseteq Parts /\ c.users \in Seq(Users)
        /\ \A i \in DOMAIN c.words : c.words[i] \in Seq(Word)
    BY <1>1 DEF ConfOK
  <1>8. DbOK(LoadConf(c))
    BY <1>3, <1>4, <1>5, <1>7 DEF DbOK
  <1> QED
    BY <1>2, <1>3, <1>4, <1>6, <1>7, <1>8

LEMMA ServesKept ==
    ASSUME NEW rt, NEW new, NEW d, SameInUse(rt, new), Serves(rt, d)
    PROVE  Serves(new, d)
  BY ZenonT(40) DEF Serves, SameInUse

LEMMA MetaInvInit == MetaInit => MetaInv
  <1> SUFFICES ASSUME MetaInit PROVE MetaInv
    OBVIOUS
  <1>1. /\ router.flag = 1 /\ ~router.switching
        /\ \A d \in Sides, m \in Kinds : router.num[d][m] = 0
        /\ \A d \in Sides, m \in Kinds, i \in Parts :
             ~router.pools[d][m][i].built /\ router.pools[d][m][i].services = {}
    BY DEF MetaInit, RouterInit, NullPool
  <1>2. 0 \in Parts /\ 0 \in 0 .. MaxPartitions
    BY RouterAssumption DEF Parts
  <1>3. router \in RouterType
    <2>1. NullPool \in PoolType /\ 1 \in Sides
      BY DEF NullPool, PoolType, Sides
    <2> QED
      BY <1>2, <2>1 DEF MetaInit, RouterInit, RouterType
  <1>4. NumExact(router)
    <2> SUFFICES ASSUME NEW d \in Sides, NEW m \in Kinds
                 PROVE  Cardinality({i \in Parts : router.pools[d][m][i].built}) = 0
      BY <1>1 DEF NumExact
    <2>1. {i \in Parts : router.pools[d][m][i].built} = {}
      BY <1>1
    <2> QED
      BY <2>1, PartsFinite
  <1>5. NullOrBuilt(router) /\ NextSideEmpty(router)
    <2>1. NextFlag(router) \in Sides
      BY <1>3, SidesAre
    <2> QED
      BY <1>1, <2>1 DEF NullOrBuilt, NextSideEmpty
  <1>6. MetaTypeOK
    BY <1>3, MetaAssumption DEF MetaInit, MetaTypeOK
  <1> QED
    BY <1>3, <1>4, <1>5, <1>6 DEF MetaInit, MetaInv, RouterOK

\* _meta_conf_reload with a file that loads: the router and the table change
\* together, or the side in use stays as it is.
LEMMA BuildRouterOK == MetaInv /\ BuildRouter => MetaInv'
  <1> SUFFICES ASSUME MetaInv, BuildRouter PROVE MetaInv'
    OBVIOUS
  <1> DEFINE d == LoadConf(file)
  <1>1. /\ Accepted(file)
        /\ stamp # 0 /\ lastModify' = stamp /\ stamp' = 0
        /\ db' = d /\ router' = RouterBuild(router, d)
        /\ UNCHANGED << file, version, modified, recent >>
    BY DEF fileVars, BuildRouter, Accept, Return, MetaInv, MetaTypeOK, Accepted
  <1>2. /\ RouterOK(router) /\ NextSideEmpty(router) /\ MetaTypeOK
    BY <1>1 DEF MetaInv
  <1>3. CASE BuildSucceeds(d)
    <2>1. /\ auth' = AuthLoad(auth, file.users) /\ inForce' = file
          /\ phase' = "up"
      <3>1. d.users = file.users
        BY <1>1, LoadConfIs
      <3> QED
        BY <1>1, <1>3, <3>1 DEF BuildRouter, Return
    <2>2. RouterOK(router') /\ Serves(router', d)
      <3>1. DbOK(d)
        BY <1>1, LoadConfIs
      <3> HIDE DEF d
      <3> QED
        BY <1>1, <1>2, <1>3, <3>1, RouterBuildOK
    <2>3. file.users \in Seq(Users)
      BY <1>1, LoadConfIs
    <2>4. AuthOf(file.users)' /\ DOMAIN auth' \subseteq Users
      <3>1. PICK U : U = file.users
        OBVIOUS
      <3>2. /\ DOMAIN auth' = {U[i] : i \in DOMAIN U}
            /\ \A u \in DOMAIN auth' : auth'[u] \in DOMAIN U /\ U[auth'[u]] = u
            /\ U \in Seq(Users)
        <4>1. PICK A : A = auth
          OBVIOUS
        <4>2. PICK new : new = AuthLoad(A, U)
          OBVIOUS
        <4>3. U \in Seq(Users)
          BY <2>3, <3>1
        <4>4. auth' = new
          BY <2>1, <3>1, <4>1, <4>2
        <4>5. /\ DOMAIN new = {U[i] : i \in DOMAIN U}
              /\ \A u \in DOMAIN new : new[u] \in DOMAIN U /\ U[new[u]] = u
          BY ONLY <4>2, <4>3, AuthLoadFinds
        <4> QED
          BY ONLY <4>3, <4>4, <4>5
      <3>3. \A i \in DOMAIN U : U[i] \in Users
        BY <3>2
      <3>4. DOMAIN auth' \subseteq Users
        BY <3>2, <3>3
      <3>5. file'.users = U
        BY <1>1, <3>1
      <3> QED
        BY <3>2, <3>4, <3>5 DEF AuthOf
    <2>6. MetaTypeOK'
      BY <1>1, <1>2, <2>1, <2>2, <2>4 DEF MetaTypeOK, RouterOK
    <2>7. Accepted(file)'
      BY <1>1, <2>1 DEF Accepted
    <2> QED
      BY <1>1, <2>1, <2>2, <2>4, <2>6, <2>7 DEF MetaInv
  <1>4. CASE ~BuildSucceeds(d)
    <2>1. /\ auth' = auth /\ inForce' = inForce
          /\ phase' = IF phase = "up" THEN "up" ELSE "exited"
      BY <1>1, <1>4 DEF BuildRouter, Return
    <2>2. RouterOK(router') /\ SameInUse(router, router')
      <3>1. CASE d.mode # 0
        <4>1. router' = [router EXCEPT !.switching = TRUE]
          BY <1>1, <3>1 DEF RouterBuild, BuildSucceeds
        <4> QED
          BY <1>2, <4>1, SwitchingSet
      <3>2. CASE d.mode = 0
        <4>1. router' = [router EXCEPT !.switching = FALSE]
          BY <1>1, <1>4, <3>2 DEF RouterBuild, BuildSucceeds
        <4> QED
          BY <1>2, <4>1, SwitchingSet
      <3> QED
        BY <3>1, <3>2
    <2>3. MetaTypeOK'
      BY <1>1, <1>2, <2>1, <2>2 DEF MetaTypeOK, RouterOK
    <2>4. phase' = "up" => Accepted(inForce) /\ Serves(router', LoadConf(inForce))
      BY <2>1, <2>2, ServesKept DEF MetaInv
    <2>5. inForce # NoDb => Accepted(inForce) /\ AuthOf(inForce.users)'
      BY <2>1 DEF MetaInv, AuthOf
    <2> QED
      BY <1>1, <2>1, <2>2, <2>3, <2>4, <2>5 DEF MetaInv, Accepted
  <1> QED
    BY <1>3, <1>4

LEMMA MetaInvStep == MetaInv /\ [MetaNext]_metaVars => MetaInv'
  <1> SUFFICES ASSUME MetaInv, [MetaNext]_metaVars PROVE MetaInv'
    OBVIOUS
  <1>1. /\ MetaTypeOK /\ RouterOK(router)
        /\ modified \in 1 .. version /\ version \in 1 .. MaxChanges + 1
        /\ stamp \in 0 .. modified /\ lastModify \in 0 .. modified
        /\ MaxChanges \in Nat
    BY MetaAssumption DEF MetaInv, MetaTypeOK
  \* The router and the configuration in force stay as they are.
  <1>2. ASSUME UNCHANGED << router, auth, inForce >>, MetaTypeOK',
               stamp' # 0 => stamp # 0 \/ ~router.switching,
               phase' = "up" => phase = "up"
        PROVE  MetaInv'
    <2>1. stamp' # 0 => NextSideEmpty(router)
      BY <1>2 DEF MetaInv, RouterOK
    <2> QED
      BY <1>2, <2>1 DEF MetaInv, AuthOf, Accepted
  <1>3. CASE Edit
    <2>1. MetaTypeOK'
      <3>1. /\ version' \in 1 .. MaxChanges + 1 /\ modified' \in 1 .. version'
            /\ stamp \in 0 .. modified' /\ lastModify \in 0 .. modified'
        BY <1>1, <1>3 DEF Edit
      <3>2. file' \in Confs /\ recent' \subseteq Confs /\ file' \in recent'
        BY <1>1, <1>3 DEF Edit, MetaTypeOK
      <3> QED
        BY <1>1, <1>3, <3>1, <3>2 DEF Edit, MetaTypeOK
    <2> QED
      BY <1>2, <1>3, <2>1 DEF Edit
  <1>4. CASE Stat
    <2>1. MetaTypeOK'
      BY <1>1, <1>4 DEF Stat, MetaTypeOK, fileVars
    <2> QED
      BY <1>2, <1>4, <2>1 DEF Stat
  <1>5. CASE BadFile
    <2>1. MetaTypeOK'
      BY <1>1, <1>5 DEF BadFile, Return, MetaTypeOK, fileVars
    <2> QED
      BY <1>2, <1>5, <2>1 DEF BadFile, Return
  <1>6. CASE WrongDbs
    <2>1. MetaTypeOK'
      BY <1>1, <1>6 DEF WrongDbs, Accept, Return, MetaTypeOK, fileVars
    <2> QED
      BY <1>2, <1>6, <2>1 DEF WrongDbs, Accept, Return
  <1>7. CASE BadDb
    <2>1. MetaTypeOK'
      BY <1>1, <1>7 DEF BadDb, Accept, Return, MetaTypeOK, fileVars
    <2> QED
      BY <1>2, <1>7, <2>1 DEF BadDb, Accept, Return
  <1>8. CASE BuildRouter
    BY <1>8, BuildRouterOK
  <1>9. CASE PoolGone
    <2>1. /\ UNCHANGED << fileVars, lastModify, db, auth, inForce, phase, stamp >>
          /\ stamp = 0
      BY <1>9 DEF PoolGone
    <2>2. PICK m \in Kinds, i \in Parts :
            CallsBack(router, m, i) /\ router' = OnDestroy(router, m, i)
      BY <1>9 DEF PoolGone
    <2>3. RouterOK(router') /\ SameInUse(router, router')
      BY <1>1, <2>2, OnDestroyOK
    <2>4. MetaTypeOK'
      BY <1>1, <2>1, <2>3 DEF MetaTypeOK, RouterOK, fileVars
    <2>5. phase = "up" => Accepted(inForce) /\ Serves(router', LoadConf(inForce))
      BY <2>3, ServesKept DEF MetaInv
    <2> QED
      BY <2>1, <2>3, <2>4, <2>5 DEF MetaInv, AuthOf, Accepted
  <1>10. CASE UNCHANGED metaVars
    BY <1>10, <1>1, <1>2 DEF metaVars, MetaTypeOK, fileVars
  <1> QED
    BY <1>3, <1>4, <1>5, <1>6, <1>7, <1>8, <1>9, <1>10 DEF MetaNext

LEMMA MetaInvAlways == MetaSpec => []MetaInv
  BY MetaInvInit, MetaInvStep, PTL DEF MetaSpec

\* Whatever files were tried and however many pools of older ones are still on
\* their way out, every key leads to a partition that the configuration in force
\* names, and to pools with its services that are not told to go (_get_shard,
\* router_build, _router_on_destroy).
THEOREM AlwaysRoutedAsConfigured == MetaSpec => []RoutedAsConfigured
  <1>1. MetaInv => RoutedAsConfigured
    <2> SUFFICES ASSUME MetaInv, phase = "up", NEW k \in Keys
                 PROVE  LET i == router.map[router.flag][k]
                        IN  /\ i \in DOMAIN inForce.words
                            /\ \E j \in DOMAIN inForce.words[i] :
                                 /\ inForce.words[i][j].lo <= k
                                 /\ k <= inForce.words[i][j].hi
                                 /\ \A h \in 1 .. j : ~BadWord(inForce.words[i][h])
                            /\ \A m \in Kinds :
                                 LET p == router.pools[router.flag][m][i]
                                 IN  /\ p.built /\ ~p.destroying
                                     /\ p.services = ServicesOf(inForce, m, i)
      BY DEF RoutedAsConfigured
    <2> DEFINE i == router.map[router.flag][k]
               d == LoadConf(inForce)
    <2>1. Accepted(inForce) /\ Serves(router, d)
      BY DEF MetaInv
    <2>2. /\ i \in PartitionIds(d)
          /\ \E j \in DOMAIN d.partition[i] :
               d.partition[i][j].lo <= k /\ k <= d.partition[i][j].hi
          /\ \A m \in Kinds :
               /\ router.pools[router.flag][m][i].built
               /\ ~router.pools[router.flag][m][i].destroying
               /\ router.pools[router.flag][m][i].services = d.service[m][i]
      BY <2>1 DEF Serves
    <2> HIDE DEF i
    <2>3. /\ i \in DOMAIN inForce.words
          /\ d.partition[i] = LoadPartition(inForce.words[i])
          /\ inForce.words[i] \in Seq(Word)
          /\ \A m \in Kinds : d.service[m][i] = ServicesOf(inForce, m, i)
      BY <2>1, <2>2, LoadConfIs
    <2> HIDE DEF d
    <2>4. \E j \in DOMAIN inForce.words[i] :
            /\ inForce.words[i][j].lo <= k
            /\ k <= inForce.words[i][j].hi
            /\ \A h \in 1 .. j : ~BadWord(inForce.words[i][h])
      BY <2>2, <2>3, LoadPartitionIs
    <2> QED
      BY <2>2, <2>3, <2>4 DEF i
  <1> QED
    BY <1>1, MetaInvAlways, PTL

\* A switch begins with an empty side, so that no pool is overwritten before it
\* was told to go, and router_pool_num is exact (router_build,
\* _router_on_destroy).
THEOREM PoolsNeverForgotten == MetaSpec => []NoPoolForgotten
  <1>1. MetaInv => NoPoolForgotten
    BY DEF MetaInv, RouterOK, NumExact, NextSideEmpty, NoPoolForgotten
  <1> QED
    BY <1>1, MetaInvAlways, PTL

\* The table of users is that of the configuration in force, name by name,
\* whatever files, databases and routers were refused since it was accepted: it
\* is never empty or a mixture of two files, and a request is authorised by the
\* names of the configuration that routes it (_meta_auth_load,
\* meta_auth_check).  That the users the table leads to are still there is not
\* claimed; after a refused database they are not.
THEOREM AuthAlwaysFinds == MetaSpec => []AuthFindsUser
  <1>1. MetaInv => AuthFindsUser
    BY DEF MetaInv, AuthOf, AuthFindsUser
  <1> QED
    BY <1>1, MetaInvAlways, PTL
=============================================================================
