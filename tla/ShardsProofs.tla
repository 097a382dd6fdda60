---------------------------- MODULE ShardsProofs ----------------------------
(***************************************************************************)
(* Theorems about QuickSort and Shards, for any number of keys and shards: *)
(* the sort never leaves the array, and a request is never freed while the *)
(* loop that splits it is still running.                                   *)
(***************************************************************************)
EXTENDS Shards, FiniteSetTheorems, TLAPS

-----------------------------------------------------------------------------
(* The sort *)

\* What keeps the pointers inside the array: within a partition the left one
\* never passes the right one, and both are in the range of the call on top.
SortInv ==
    LET n == Len(key)
    IN  /\ n \in 1 .. MaxKeys /\ key \in [1 .. n -> ShardKeys]
        /\ arr \in [1 .. n -> 1 .. n]
        /\ stack \in Seq((1 .. n + 1) \X (0 .. n))
        /\ {tmp, l, r} \subseteq 1 .. n
        /\ pc \in {"call", "right", "left", "place"}
        /\ pc # "call" => /\ stack # << >>
                          /\ Head(stack)[1] <= l /\ l <= r
                          /\ r <= Head(stack)[2]

LEMMA SortInvInit == SortInit => SortInv
<1> SUFFICES ASSUME SortInit PROVE SortInv
  OBVIOUS
<1>1. PICK n \in 1 .. MaxKeys : /\ key \in [1 .. n -> ShardKeys]
                                /\ arr = [j \in 1 .. n |-> j]
                                /\ stack = << <<1, n>> >>
  BY DEF SortInit
<1>2. n \in Nat /\ n >= 1 /\ MaxKeys \in Nat
  BY <1>1, ShardsAssumption
<1>3. Len(key) = n
  BY <1>1, <1>2
<1>4. stack \in Seq((1 .. n + 1) \X (0 .. n))
  BY <1>1, <1>2
<1> QED
  BY <1>1, <1>2, <1>3, <1>4 DEF SortInit, SortInv

\* The facts about a sequence of frames that the steps need.
LEMMA FrameFacts ==
    ASSUME NEW n \in Nat, n >= 1,
           stack \in Seq((1 .. n + 1) \X (0 .. n)), stack # << >>
    PROVE  /\ Head(stack) \in (1 .. n + 1) \X (0 .. n)
           /\ Head(stack)[1] \in 1 .. n + 1 /\ Head(stack)[2] \in 0 .. n
           /\ Tail(stack) \in Seq((1 .. n + 1) \X (0 .. n))
<1>1. Head(stack) \in (1 .. n + 1) \X (0 .. n)
  OBVIOUS
<1>2. Tail(stack) \in Seq((1 .. n + 1) \X (0 .. n))
  OBVIOUS
<1> QED
  BY <1>1, <1>2

LEMMA SortInvStep == SortInv /\ [SortNext]_sortVars => SortInv'
<1> SUFFICES ASSUME SortInv, [SortNext]_sortVars PROVE SortInv'
  OBVIOUS
<1> DEFINE n == Len(key)
<1> DEFINE Frames == (1 .. n + 1) \X (0 .. n)
<1>1. /\ n \in Nat /\ n >= 1 /\ n \in 1 .. MaxKeys
      /\ key \in [1 .. n -> ShardKeys] /\ arr \in [1 .. n -> 1 .. n]
      /\ stack \in Seq(Frames)
      /\ tmp \in 1 .. n /\ l \in 1 .. n /\ r \in 1 .. n
  BY ShardsAssumption DEF SortInv
<1>2. key' = key
  BY DEF SortNext, Call, ScanRight, ScanLeft, Place, sortVars
<1>3. CASE Call
  <2>1. stack # << >> /\ arr' = arr
    BY <1>3 DEF Call
  <2>2. /\ Head(stack)[1] \in 1 .. n + 1 /\ Head(stack)[2] \in 0 .. n
        /\ Tail(stack) \in Seq(Frames)
    BY <1>1, <2>1, FrameFacts
  <2>3. CASE Head(stack)[1] >= Head(stack)[2]
    <3>1. /\ stack' = Tail(stack) /\ tmp' = tmp /\ l' = l /\ r' = r
          /\ pc' = "call"
      BY <1>3, <2>3 DEF Call
    <3> QED
      BY <1>1, <1>2, <2>1, <2>2, <3>1 DEF SortInv
  <2>4. CASE ~(Head(stack)[1] >= Head(stack)[2])
    <3>1. /\ stack' = stack /\ tmp' = arr[Head(stack)[1]]
          /\ l' = Head(stack)[1] /\ r' = Head(stack)[2] /\ pc' = "right"
      BY <1>3, <2>4 DEF Call
    <3>2. Head(stack)[1] \in 1 .. n /\ Head(stack)[2] \in 1 .. n
      BY <1>1, <2>2, <2>4
    <3>3. arr[Head(stack)[1]] \in 1 .. n
      BY <1>1, <3>2
    <3> QED
      BY <1>1, <1>2, <2>1, <2>2, <2>4, <3>1, <3>2, <3>3 DEF SortInv
  <2> QED
    BY <2>3, <2>4
<1>4. CASE ScanRight
  <2>1. /\ stack # << >> /\ Head(stack)[1] <= l /\ l <= r
        /\ r <= Head(stack)[2]
        /\ stack' = stack /\ tmp' = tmp /\ l' = l
    BY <1>4 DEF ScanRight, SortInv
  <2>2. Head(stack)[1] \in Nat /\ Head(stack)[2] \in Nat
    BY <1>1, <2>1, FrameFacts
  <2>3. CASE l < r /\ key[tmp] <= key[arr[r]]
    <3>1. r' = r - 1 /\ arr' = arr /\ pc' = pc
      BY <1>4, <2>3 DEF ScanRight
    <3>2. r - 1 \in 1 .. n /\ l <= r - 1 /\ r - 1 <= Head(stack)[2]
      BY <1>1, <2>1, <2>2, <2>3
    <3> QED
      BY <1>1, <1>2, <2>1, <3>1, <3>2 DEF SortInv
  <2>4. CASE ~(l < r /\ key[tmp] <= key[arr[r]])
    <3>1. r' = r /\ arr' = [arr EXCEPT ![l] = arr[r]] /\ pc' = "left"
      BY <1>4, <2>4 DEF ScanRight
    <3>2. arr' \in [1 .. n -> 1 .. n]
      BY <1>1, <3>1
    <3> QED
      BY <1>1, <1>2, <2>1, <3>1, <3>2 DEF SortInv
  <2> QED
    BY <2>3, <2>4
<1>5. CASE ScanLeft
  <2>1. /\ stack # << >> /\ Head(stack)[1] <= l /\ l <= r
        /\ r <= Head(stack)[2]
        /\ stack' = stack /\ tmp' = tmp /\ r' = r
    BY <1>5 DEF ScanLeft, SortInv
  <2>2. Head(stack)[1] \in Nat /\ Head(stack)[2] \in Nat
    BY <1>1, <2>1, FrameFacts
  <2>3. CASE l < r /\ key[tmp] >= key[arr[l]]
    <3>1. l' = l + 1 /\ arr' = arr /\ pc' = pc
      BY <1>5, <2>3 DEF ScanLeft
    <3>2. l + 1 \in 1 .. n /\ l + 1 <= r /\ Head(stack)[1] <= l + 1
      BY <1>1, <2>1, <2>2, <2>3
    <3> QED
      BY <1>1, <1>2, <2>1, <3>1, <3>2 DEF SortInv
  <2>4. CASE ~(l < r /\ key[tmp] >= key[arr[l]])
    <3>1. /\ l' = l /\ arr' = [arr EXCEPT ![r] = arr[l]]
          /\ pc' \in {"right", "place"}
      BY <1>5, <2>4 DEF ScanLeft
    <3>2. arr' \in [1 .. n -> 1 .. n]
      BY <1>1, <3>1
    <3> QED
      BY <1>1, <1>2, <2>1, <3>1, <3>2 DEF SortInv
  <2> QED
    BY <2>3, <2>4
<1>6. CASE Place
  <2>1. stack # << >> /\ tmp' = tmp /\ l' = l /\ r' = r /\ pc' = "call"
    BY <1>6 DEF Place, SortInv
  <2>2. arr' \in [1 .. n -> 1 .. n]
    BY <1>1, <1>6 DEF Place
  <2>3. stack' \in Seq(Frames)
    <3> DEFINE a == <<Head(stack)[1], r - 1>>
    <3> DEFINE b == <<r + 1, Head(stack)[2]>>
    <3>1. /\ Head(stack)[1] \in 1 .. n + 1 /\ Head(stack)[2] \in 0 .. n
          /\ Tail(stack) \in Seq(Frames)
      BY <1>1, <2>1, FrameFacts
    <3>2. a \in Frames /\ b \in Frames
      BY <1>1, <3>1, SMTT(30)
    <3>3. << a, b >> \in Seq(Frames)
      BY <3>2
    <3>4. stack' = << a, b >> \o Tail(stack)
      BY <1>6 DEF Place
    <3> HIDE DEF a, b, Frames
    <3> QED
      BY <3>1, <3>3, <3>4
  <2> QED
    BY <1>1, <1>2, <2>1, <2>2, <2>3 DEF SortInv
<1>7. CASE UNCHANGED sortVars
  BY <1>7 DEF sortVars, SortInv
<1> QED
  BY <1>3, <1>4, <1>5, <1>6, <1>7 DEF SortNext

-----------------------------------------------------------------------------
(* The order of the keys *)

\* The array with the pivot put back into the hole.
Filled == IF pc = "call" THEN arr ELSE [arr EXCEPT ![Hole] = tmp]

\* The pending calls are for ranges that follow one another.
FramesInOrder ==
    \A e, f \in DOMAIN stack : e < f => stack[e][2] < stack[f][1]

\* Two positions with no pending call for both of them are in order.
InOrder(F) ==
    \A j, k \in 1 .. Len(key) :
        j < k => \/ \E f \in DOMAIN stack : stack[f][1] <= j /\ k <= stack[f][2]
                 \/ key[F[j]] <= key[F[k]]

\* In a partition, what is left of l is not larger and what is right of r not
\* smaller than the pivot.
Partitioned(F) ==
    /\ \A j \in Head(stack)[1] .. l - 1 : key[F[j]] <= key[tmp]
    /\ \A k \in r + 1 .. Head(stack)[2] : key[tmp] <= key[F[k]]

SortedInv ==
    /\ SortInv
    /\ Range(Filled) = 1 .. Len(key)
    /\ FramesInOrder
    /\ InOrder(Filled)
    /\ pc # "call" => Partitioned(Filled)
    /\ pc = "place" => l = r

\* The frames of a sequence that is not empty, as the steps use them.
LEMMA FrameTypes ==
    ASSUME SortInv, stack # << >>
    PROVE  /\ \A f \in DOMAIN stack : stack[f][1] \in Int /\ stack[f][2] \in Int
           /\ DOMAIN stack = 1 .. Len(stack) /\ Len(stack) \in Nat
           /\ 1 \in DOMAIN stack /\ Head(stack) = stack[1]
<1> DEFINE n == Len(key)
<1>1. n \in Nat /\ stack \in Seq((1 .. n + 1) \X (0 .. n))
  BY ShardsAssumption DEF SortInv
<1>2. \A f \in DOMAIN stack : stack[f] \in (1 .. n + 1) \X (0 .. n)
  BY <1>1
<1>3. \A f \in DOMAIN stack : stack[f][1] \in Int /\ stack[f][2] \in Int
  BY <1>1, <1>2
<1>4. /\ DOMAIN stack = 1 .. Len(stack) /\ Len(stack) \in Nat
      /\ 1 \in DOMAIN stack /\ Head(stack) = stack[1]
  BY <1>1
<1> QED
  BY <1>3, <1>4

\* Exchanging two elements keeps the set of the elements.
LEMMA SwapRange ==
    ASSUME NEW S, NEW T, NEW F \in [S -> T], NEW G \in [S -> T],
           NEW a \in S, NEW b \in S, G[a] = F[b], G[b] = F[a],
           \A j \in S : j \notin {a, b} => G[j] = F[j]
    PROVE  Range(G) = Range(F)
<1>1. \A j \in S : \E k \in S : G[j] = F[k]
  OBVIOUS
<1>2. \A j \in S : \E k \in S : F[j] = G[k]
  OBVIOUS
<1>3. Range(F) = {F[j] : j \in S}
  BY Zenon DEF Range
<1>4. Range(G) = {G[j] : j \in S}
  BY Zenon DEF Range
<1>5. \A x : x \in Range(G) => x \in Range(F)
  BY <1>1, <1>3, <1>4, Zenon
<1>6. \A x : x \in Range(F) => x \in Range(G)
  BY <1>2, <1>3, <1>4, Zenon
<1> QED
  BY <1>5, <1>6, Zenon

\* Exchanging two elements inside the range of the call on top keeps the
\* order between what no pending call will sort any more: the ranges are
\* disjoint, so both positions lie on the same side of every other one.
LEMMA SwapInOrder ==
    ASSUME SortInv, stack # << >>, FramesInOrder,
           NEW F \in [1 .. Len(key) -> 1 .. Len(key)], InOrder(F),
           NEW G \in [1 .. Len(key) -> 1 .. Len(key)],
           NEW a \in 1 .. Len(key), NEW b \in 1 .. Len(key),
           Head(stack)[1] <= a, a <= b, b <= Head(stack)[2],
           G[a] = F[b], G[b] = F[a],
           \A j \in 1 .. Len(key) : j \notin {a, b} => G[j] = F[j]
    PROVE  InOrder(G)
<1> DEFINE n == Len(key)
<1> DEFINE Pending(j, k) ==
      \E f \in DOMAIN stack : stack[f][1] <= j /\ k <= stack[f][2]
<1> SUFFICES ASSUME NEW j \in 1 .. n, NEW k \in 1 .. n, j < k, ~Pending(j, k)
             PROVE  key[G[j]] <= key[G[k]]
  BY DEF InOrder
<1>1. /\ \A f \in DOMAIN stack : stack[f][1] \in Int /\ stack[f][2] \in Int
      /\ DOMAIN stack = 1 .. Len(stack) /\ Len(stack) \in Nat
      /\ 1 \in DOMAIN stack /\ Head(stack) = stack[1]
  BY FrameTypes
<1>2. \A x, y \in 1 .. n : x < y /\ ~Pending(x, y) => key[F[x]] <= key[F[y]]
  BY DEF InOrder
<1>3. \A f \in DOMAIN stack : f # 1 => Head(stack)[2] < stack[f][1]
  <2>1. \A f \in DOMAIN stack : f # 1 => 1 < f
    BY <1>1
  <2>2. \A f \in DOMAIN stack : 1 < f => stack[1][2] < stack[f][1]
    BY <1>1, Zenon DEF FramesInOrder
  <2> QED
    BY <1>1, <2>1, <2>2, Zenon
<1>4. CASE j \in {a, b}
  <2>1. k > Head(stack)[2]
    BY <1>1, <1>4
  <2>2. \A x \in {a, b} : ~Pending(x, k) /\ x < k
    <3> SUFFICES ASSUME NEW x \in {a, b} PROVE ~Pending(x, k) /\ x < k
      OBVIOUS
    <3>1. x < k
      BY <1>1, <2>1
    <3>2. \A f \in DOMAIN stack : f # 1 => x < stack[f][1]
      BY <1>1, <1>3, SMTT(30)
    <3> QED
      BY <1>1, <2>1, <3>1, <3>2
  <2>3. key[F[a]] <= key[F[k]] /\ key[F[b]] <= key[F[k]]
    BY <1>2, <2>2
  <2>4. G[k] = F[k] /\ G[j] \in {F[a], F[b]}
    BY <1>1, <1>4, <2>1
  <2> QED
    BY <2>3, <2>4
<1>5. CASE j \notin {a, b} /\ k \in {a, b}
  <2>1. j < Head(stack)[1]
    BY <1>1, <1>5
  <2>2. \A x \in {a, b} : ~Pending(j, x) /\ j < x
    <3> SUFFICES ASSUME NEW x \in {a, b} PROVE ~Pending(j, x) /\ j < x
      OBVIOUS
    <3>1. j < x
      BY <1>1, <2>1
    <3>2. \A f \in DOMAIN stack : f # 1 => x < stack[f][1]
      BY <1>1, <1>3, SMTT(30)
    <3> QED
      BY <1>1, <2>1, <3>1, <3>2
  <2>3. key[F[j]] <= key[F[a]] /\ key[F[j]] <= key[F[b]]
    BY <1>2, <2>2
  <2>4. G[j] = F[j] /\ G[k] \in {F[a], F[b]}
    BY <1>5
  <2> QED
    BY <2>3, <2>4
<1>6. CASE j \notin {a, b} /\ k \notin {a, b}
  BY <1>2, <1>6
<1> QED
  BY <1>4, <1>5, <1>6

\* Filled is an array of the request's keys, and every shard is a number.
LEMMA FilledFacts ==
    SortInv => /\ Len(key) \in Nat /\ Len(key) >= 1
               /\ Filled \in [1 .. Len(key) -> 1 .. Len(key)]
               /\ \A j \in 1 .. Len(key) : key[j] \in Int
<1> SUFFICES ASSUME SortInv
             PROVE  /\ Len(key) \in Nat /\ Len(key) >= 1
                    /\ Filled \in [1 .. Len(key) -> 1 .. Len(key)]
                    /\ \A j \in 1 .. Len(key) : key[j] \in Int
  OBVIOUS
<1> DEFINE n == Len(key)
<1>1. /\ n \in Nat /\ n >= 1 /\ arr \in [1 .. n -> 1 .. n]
      /\ tmp \in 1 .. n /\ l \in 1 .. n /\ r \in 1 .. n
      /\ key \in [1 .. n -> ShardKeys] /\ ShardKeys \subseteq Int
  BY ShardsAssumption DEF SortInv
<1>2. Filled \in [1 .. n -> 1 .. n]
  BY <1>1 DEF Filled, Hole
<1>3. \A j \in 1 .. n : key[j] \in Int
  BY <1>1
<1> QED
  BY <1>1, <1>2, <1>3

LEMMA SortedInit == SortInit => SortedInv
<1> SUFFICES ASSUME SortInit PROVE SortedInv
  OBVIOUS
<1>1. PICK n \in 1 .. MaxKeys : /\ key \in [1 .. n -> ShardKeys]
                                /\ arr = [j \in 1 .. n |-> j]
                                /\ stack = << <<1, n>> >>
  BY DEF SortInit
<1>2. SortInv /\ pc = "call" /\ Len(key) = n /\ n \in Nat
  BY <1>1, SortInvInit, ShardsAssumption DEF SortInit
<1>3. Filled = arr
  BY <1>2 DEF Filled
<1>4. Range(Filled) = 1 .. Len(key)
  BY <1>1, <1>2, <1>3 DEF Range
<1>5. DOMAIN stack = {1} /\ stack[1][1] = 1 /\ stack[1][2] = n
  BY <1>1
<1>6. FramesInOrder
  BY <1>5 DEF FramesInOrder
<1>7. InOrder(Filled)
  BY <1>2, <1>5 DEF InOrder
<1> QED
  BY <1>2, <1>4, <1>6, <1>7 DEF SortedInv

\* A step inside a partition that exchanges two elements of Filled in the
\* range of the call on top, or none, and leaves the calls alone.
LEMMA SortedMove ==
    ASSUME SortedInv, SortInv', pc # "call", pc' # "call",
           UNCHANGED << key, stack, tmp >>,
           Filled'[l] = Filled[r], Filled'[r] = Filled[l],
           \A j \in 1 .. Len(key) : j \notin {l, r} => Filled'[j] = Filled[j]
    PROVE  /\ (Range(Filled) = 1 .. Len(key))'
           /\ FramesInOrder'
           /\ InOrder(Filled)'
<1> DEFINE n == Len(key)
<1>1. /\ n \in Nat /\ Filled \in [1 .. n -> 1 .. n]
      /\ Filled' \in [1 .. n -> 1 .. n]
  BY FilledFacts DEF SortedInv, Filled, Hole, SortInv
<1>2. /\ l \in 1 .. n /\ r \in 1 .. n /\ stack # << >>
      /\ Head(stack)[1] <= l /\ l <= r /\ r <= Head(stack)[2]
  BY DEF SortedInv, SortInv
<1>3. Range(Filled') = Range(Filled)
  <2>1. PICK S : S = 1 .. n
    OBVIOUS
  <2>2. PICK F : F = Filled
    OBVIOUS
  <2>3. PICK G : G = Filled'
    OBVIOUS
  <2>4. /\ F \in [S -> S] /\ G \in [S -> S] /\ l \in S /\ r \in S
        /\ G[l] = F[r] /\ G[r] = F[l]
        /\ \A j \in S : j \notin {l, r} => G[j] = F[j]
    BY <1>1, <1>2, <2>1, <2>2, <2>3
  <2>5. Range(G) = Range(F)
    BY ONLY <2>4, SwapRange
  <2> QED
    BY <2>2, <2>3, <2>5
<1>4. InOrder(Filled')
  BY <1>1, <1>2, SwapInOrder DEF SortedInv
<1>5. (Range(Filled) = 1 .. Len(key))'
  BY <1>3, Zenon DEF SortedInv
<1>6. FramesInOrder'
  BY Zenon DEF SortedInv, FramesInOrder
<1>7. InOrder(Filled)'
  BY <1>4, Zenon DEF InOrder
<1> QED
  BY <1>5, <1>6, <1>7

\* The entry of a call: a range of less than two elements is in order.
LEMMA SortedCall == SortedInv /\ Call => SortedInv'
<1> SUFFICES ASSUME SortedInv, Call PROVE SortedInv'
  OBVIOUS
<1> DEFINE n == Len(key)
<1>1. SortInv /\ SortInv'
  BY SortInvStep DEF SortedInv, SortNext
<1>2. /\ pc = "call" /\ stack # << >> /\ key' = key /\ arr' = arr
  BY DEF Call
<1>3. /\ \A f \in DOMAIN stack : stack[f][1] \in Int /\ stack[f][2] \in Int
      /\ DOMAIN stack = 1 .. Len(stack) /\ Len(stack) \in Nat
      /\ 1 \in DOMAIN stack /\ Head(stack) = stack[1]
  BY <1>1, <1>2, FrameTypes
<1>4. n \in Nat /\ arr \in [1 .. n -> 1 .. n] /\ Filled = arr
  BY <1>1, <1>2, FilledFacts DEF SortInv, Filled
<1>5. CASE Head(stack)[1] >= Head(stack)[2]
  <2>1. stack' = Tail(stack) /\ pc' = "call"
    BY <1>2, <1>5 DEF Call
  <2>2. Filled' = Filled
    BY <1>2, <1>4, <2>1 DEF Filled
  <2>3. /\ DOMAIN stack' = 1 .. Len(stack) - 1
        /\ \A f \in DOMAIN stack' : f + 1 \in DOMAIN stack
                                    /\ stack'[f] = stack[f + 1]
    <3>1. stack \in Seq((1 .. n + 1) \X (0 .. n))
      BY <1>1 DEF SortInv
    <3> QED
      BY <1>2, <1>3, <2>1, <3>1, SMTT(30)
  <2>4. FramesInOrder'
    BY <1>3, <2>3 DEF SortedInv, FramesInOrder
  <2>5. InOrder(Filled)'
    <3> SUFFICES ASSUME NEW j \in 1 .. n, NEW k \in 1 .. n, j < k,
                        NEW f \in DOMAIN stack,
                        stack[f][1] <= j, k <= stack[f][2]
                 PROVE  \E g \in DOMAIN stack' :
                          stack'[g][1] <= j /\ k <= stack'[g][2]
      BY <1>2, <2>2 DEF SortedInv, InOrder
    <3>1. f # 1
      BY <1>3, <1>4, <1>5
    <3>2. f - 1 \in DOMAIN stack' /\ stack'[f - 1] = stack[f]
      BY <1>3, <2>3, <3>1
    <3> QED
      BY <3>2
  <2> QED
    BY <1>1, <1>2, <2>1, <2>2, <2>4, <2>5 DEF SortedInv
<1>6. CASE ~(Head(stack)[1] >= Head(stack)[2])
  <2>1. /\ stack' = stack /\ tmp' = arr[Head(stack)[1]]
        /\ l' = Head(stack)[1] /\ r' = Head(stack)[2] /\ pc' = "right"
    BY <1>6 DEF Call
  <2>2. Filled' = [arr EXCEPT ![l'] = arr[l']]
    BY <1>2, <2>1 DEF Filled, Hole
  <2>3. Filled' = Filled
    BY <1>4, <2>2
  <2>4. FramesInOrder' /\ InOrder(Filled)'
    BY <1>2, <2>1, <2>3 DEF SortedInv, FramesInOrder, InOrder
  <2>5. Partitioned(Filled)'
    <3>1. \A x : x \notin Head(stack)[1] .. Head(stack)[1] - 1
      BY <1>3
    <3>2. \A x : x \notin Head(stack)[2] + 1 .. Head(stack)[2]
      BY <1>3
    <3> QED
      BY <2>1, <3>1, <3>2 DEF Partitioned
  <2> QED
    BY <1>1, <1>2, <2>1, <2>3, <2>4, <2>5 DEF SortedInv
<1> QED
  BY <1>5, <1>6

\* A pointer is moved over a key that is on its side of the pivot, or the
\* keys at the two pointers change places: the hole is one of them.
LEMMA SortedScanRight == SortedInv /\ ScanRight => SortedInv'
<1> SUFFICES ASSUME SortedInv, ScanRight PROVE SortedInv'
  OBVIOUS
<1> DEFINE n == Len(key)
<1>1. SortInv /\ SortInv'
  BY SortInvStep DEF SortedInv, SortNext
<1>2. /\ pc = "right" /\ key' = key /\ stack' = stack /\ tmp' = tmp /\ l' = l
      /\ stack # << >> /\ Head(stack)[1] <= l /\ l <= r /\ r <= Head(stack)[2]
  BY <1>1 DEF ScanRight, SortInv
<1>3. /\ n \in Nat /\ arr \in [1 .. n -> 1 .. n]
      /\ l \in 1 .. n /\ r \in 1 .. n /\ tmp \in 1 .. n
      /\ Filled = [arr EXCEPT ![l] = tmp]
      /\ \A j \in 1 .. n : key[j] \in Int
  BY <1>1, <1>2, FilledFacts DEF SortInv, Filled, Hole
<1>4. Head(stack)[1] \in 1 .. n + 1 /\ Head(stack)[2] \in 0 .. n
  BY <1>1, <1>2, <1>3, FrameFacts, FilledFacts DEF SortInv
<1>5. Partitioned(Filled)
  BY <1>2 DEF SortedInv
<1>6. CASE l < r /\ key[tmp] <= key[arr[r]]
  <2>1. r' = r - 1 /\ arr' = arr /\ pc' = "right"
    BY <1>2, <1>6 DEF ScanRight
  <2>2. Filled' = Filled
    BY <1>2, <1>3, <2>1 DEF Filled, Hole
  <2>3. Filled[r] = arr[r]
    BY <1>3, <1>6
  <2>4. \A k \in r' + 1 .. Head(stack)[2] : key[tmp] <= key[Filled[k]]
    BY <1>3, <1>4, <1>5, <1>6, <2>1, <2>3 DEF Partitioned
  <2>5. Partitioned(Filled)'
    BY <1>2, <1>5, <2>2, <2>4 DEF Partitioned
  <2>6. FramesInOrder' /\ InOrder(Filled)'
    BY <1>2, <2>2 DEF SortedInv, FramesInOrder, InOrder
  <2> QED
    BY <1>1, <1>2, <2>1, <2>2, <2>5, <2>6 DEF SortedInv
<1>7. CASE ~(l < r /\ key[tmp] <= key[arr[r]])
  <2>1. r' = r /\ arr' = [arr EXCEPT ![l] = arr[r]] /\ pc' = "left"
    BY <1>7 DEF ScanRight
  <2>2. Filled' = [arr' EXCEPT ![r] = tmp]
    BY <1>2, <2>1 DEF Filled, Hole
  <2>3. /\ Filled'[l] = Filled[r] /\ Filled'[r] = Filled[l]
        /\ \A j \in 1 .. n : j \notin {l, r} => Filled'[j] = Filled[j]
    BY <1>3, <2>1, <2>2
  <2>4. /\ (Range(Filled) = 1 .. Len(key))'
        /\ FramesInOrder' /\ InOrder(Filled)'
    BY <1>1, <1>2, <2>1, <2>3, SortedMove
  <2>5. Partitioned(Filled)'
    <3>1. \A j \in Head(stack)[1] .. l - 1 : Filled'[j] = Filled[j]
      BY <1>2, <1>3, <1>4, <2>3
    <3>2. \A k \in r + 1 .. Head(stack)[2] : Filled'[k] = Filled[k]
      BY <1>2, <1>3, <1>4, <2>3
    <3> QED
      BY <1>2, <1>5, <2>1, <3>1, <3>2 DEF Partitioned
  <2> QED
    BY <1>1, <1>2, <2>1, <2>4, <2>5 DEF SortedInv
<1> QED
  BY <1>6, <1>7

LEMMA SortedScanLeft == SortedInv /\ ScanLeft => SortedInv'
<1> SUFFICES ASSUME SortedInv, ScanLeft PROVE SortedInv'
  OBVIOUS
<1> DEFINE n == Len(key)
<1>1. SortInv /\ SortInv'
  BY SortInvStep DEF SortedInv, SortNext
<1>2. /\ pc = "left" /\ key' = key /\ stack' = stack /\ tmp' = tmp /\ r' = r
      /\ stack # << >> /\ Head(stack)[1] <= l /\ l <= r /\ r <= Head(stack)[2]
  BY <1>1 DEF ScanLeft, SortInv
<1>3. /\ n \in Nat /\ arr \in [1 .. n -> 1 .. n]
      /\ l \in 1 .. n /\ r \in 1 .. n /\ tmp \in 1 .. n
      /\ Filled = [arr EXCEPT ![r] = tmp]
      /\ \A j \in 1 .. n : key[j] \in Int
  BY <1>1, <1>2, FilledFacts DEF SortInv, Filled, Hole
<1>4. Head(stack)[1] \in 1 .. n + 1 /\ Head(stack)[2] \in 0 .. n
  BY <1>1, <1>2, <1>3, FrameFacts, FilledFacts DEF SortInv
<1>5. Partitioned(Filled)
  BY <1>2 DEF SortedInv
<1>6. CASE l < r /\ key[tmp] >= key[arr[l]]
  <2>1. l' = l + 1 /\ arr' = arr /\ pc' = "left"
    BY <1>2, <1>6 DEF ScanLeft
  <2>2. Filled' = Filled
    BY <1>2, <1>3, <2>1 DEF Filled, Hole
  <2>3. Filled[l] = arr[l]
    BY <1>3, <1>6
  <2>4. \A j \in Head(stack)[1] .. l' - 1 : key[Filled[j]] <= key[tmp]
    BY <1>3, <1>4, <1>5, <1>6, <2>1, <2>3 DEF Partitioned
  <2>5. Partitioned(Filled)'
    BY <1>2, <1>5, <2>2, <2>4 DEF Partitioned
  <2>6. FramesInOrder' /\ InOrder(Filled)'
    BY <1>2, <2>2 DEF SortedInv, FramesInOrder, InOrder
  <2> QED
    BY <1>1, <1>2, <2>1, <2>2, <2>5, <2>6 DEF SortedInv
<1>7. CASE ~(l < r /\ key[tmp] >= key[arr[l]])
  <2>1. /\ l' = l /\ arr' = [arr EXCEPT ![r] = arr[l]]
        /\ pc' = IF l < r THEN "right" ELSE "place"
    BY <1>7 DEF ScanLeft
  <2>2. Filled' = [arr' EXCEPT ![l] = tmp]
    <3>1. pc' # "call" /\ Hole' = l
      BY <1>2, <1>3, <2>1 DEF Hole
    <3> QED
      BY <1>2, <3>1, Zenon DEF Filled
  <2>3. /\ Filled'[l] = Filled[r] /\ Filled'[r] = Filled[l]
        /\ \A j \in 1 .. n : j \notin {l, r} => Filled'[j] = Filled[j]
    BY <1>3, <2>1, <2>2
  <2>4. /\ (Range(Filled) = 1 .. Len(key))'
        /\ FramesInOrder' /\ InOrder(Filled)'
    BY <1>1, <1>2, <2>1, <2>3, SortedMove
  <2>5. Partitioned(Filled)'
    <3>1. \A j \in Head(stack)[1] .. l - 1 : Filled'[j] = Filled[j]
      BY <1>2, <1>3, <1>4, <2>3
    <3>2. \A k \in r + 1 .. Head(stack)[2] : Filled'[k] = Filled[k]
      BY <1>2, <1>3, <1>4, <2>3
    <3> QED
      BY <1>2, <1>5, <2>1, <3>1, <3>2 DEF Partitioned
  <2>6. pc' = "place" => l' = r'
    BY <1>2, <1>3, <2>1
  <2> QED
    BY <1>1, <1>2, <2>1, <2>4, <2>5, <2>6 DEF SortedInv
<1> QED
  BY <1>6, <1>7

\* The pivot is placed: two keys of the range are ordered through it unless
\* one of the two new calls is for both of them.
LEMMA SortedPlace == SortedInv /\ Place => SortedInv'
<1> SUFFICES ASSUME SortedInv, Place PROVE SortedInv'
  OBVIOUS
<1> DEFINE n == Len(key)
<1> DEFINE from == Head(stack)[1]
<1> DEFINE to == Head(stack)[2]
<1>1. SortInv /\ SortInv'
  BY SortInvStep DEF SortedInv, SortNext
<1>2. /\ pc = "place" /\ key' = key /\ tmp' = tmp /\ pc' = "call"
      /\ stack # << >> /\ from <= l /\ l = r /\ r <= to
      /\ arr' = [arr EXCEPT ![r] = tmp]
  BY <1>1 DEF Place, SortInv, SortedInv
<1>3. /\ n \in Nat /\ arr \in [1 .. n -> 1 .. n]
      /\ r \in 1 .. n /\ tmp \in 1 .. n
      /\ Filled \in [1 .. n -> 1 .. n]
      /\ Filled = arr' /\ Filled' = arr' /\ Filled[r] = tmp
      /\ \A j \in 1 .. n : key[j] \in Int
  BY <1>1, <1>2, FilledFacts DEF SortInv, Filled, Hole
<1>4. from \in 1 .. n + 1 /\ to \in 0 .. n
  BY <1>1, <1>2, <1>3, FrameFacts, FilledFacts DEF SortInv
<1>5. /\ \A f \in DOMAIN stack : stack[f][1] \in Int /\ stack[f][2] \in Int
      /\ DOMAIN stack = 1 .. Len(stack) /\ Len(stack) \in Nat
      /\ 1 \in DOMAIN stack /\ Head(stack) = stack[1]
  BY <1>1, <1>2, FrameTypes
<1>6. /\ DOMAIN stack' = 1 .. Len(stack) + 1
      /\ stack'[1] = << from, r - 1 >> /\ stack'[2] = << r + 1, to >>
      /\ \A f \in DOMAIN stack' : f > 2 => /\ f - 1 \in DOMAIN stack
                                           /\ stack'[f] = stack[f - 1]
  <2>1. stack \in Seq((1 .. n + 1) \X (0 .. n))
    BY <1>1 DEF SortInv
  <2>2. stack' = << << from, r - 1 >>, << r + 1, to >> >> \o Tail(stack)
    BY DEF Place
  <2>3. /\ Tail(stack) \in Seq((1 .. n + 1) \X (0 .. n))
        /\ Len(Tail(stack)) = Len(stack) - 1
        /\ \A f \in 1 .. Len(stack) - 1 : Tail(stack)[f] = stack[f + 1]
    BY <1>2, <1>5, <2>1
  <2> DEFINE two == << << from, r - 1 >>, << r + 1, to >> >>
  <2>4. Len(two) = 2 /\ two[1] = << from, r - 1 >> /\ two[2] = << r + 1, to >>
    OBVIOUS
  <2>5. /\ Len(stack') = Len(stack) + 1 /\ DOMAIN stack' = 1 .. Len(stack) + 1
        /\ stack'[1] = << from, r - 1 >> /\ stack'[2] = << r + 1, to >>
    BY <1>5, <2>2, <2>3, <2>4
  <2>6. \A f \in 3 .. Len(stack) + 1 : stack'[f] = Tail(stack)[f - 2]
    BY <1>5, <2>2, <2>3, <2>4
  <2> QED
    BY <1>5, <2>3, <2>5, <2>6
<1>7. \A e \in DOMAIN stack : e # 1 => to < stack[e][1]
  <2>1. \A e \in DOMAIN stack : e # 1 => 1 < e
    BY <1>5
  <2>2. \A e \in DOMAIN stack : 1 < e => stack[1][2] < stack[e][1]
    BY <1>5, Zenon DEF SortedInv, FramesInOrder
  <2> QED
    BY <1>5, <2>1, <2>2, Zenon
<1>8. FramesInOrder'
  <2> SUFFICES ASSUME NEW e \in DOMAIN stack', NEW f \in DOMAIN stack', e < f
               PROVE  stack'[e][2] < stack'[f][1]
    BY DEF FramesInOrder
  <2>0. e \in Int /\ f \in Int /\ e >= 1
    BY <1>5, <1>6
  <2>1. CASE e > 2
    <3>1. e - 1 < f - 1 /\ f > 2
      BY <2>0, <2>1
    <3>2. stack[e - 1][2] < stack[f - 1][1]
      BY <1>6, <2>1, <3>1, Zenon DEF SortedInv, FramesInOrder
    <3> QED
      BY <1>6, <2>1, <3>1, <3>2
  <2>2. CASE e <= 2 /\ f > 2
    <3>1. to < stack'[f][1] /\ stack'[f][1] \in Int
      BY <1>5, <1>6, <1>7, <2>0, <2>2
    <3>2. stack'[e][2] <= to /\ stack'[e][2] \in Int
      BY <1>2, <1>3, <1>4, <1>6, <2>0, <2>2
    <3> QED
      BY <1>4, <3>1, <3>2
  <2>3. CASE f <= 2
    <3>1. e = 1 /\ f = 2
      BY <2>0, <2>3
    <3> QED
      BY <1>3, <1>6, <3>1
  <2> QED
    BY <2>0, <2>1, <2>2, <2>3
<1>9. InOrder(Filled)'
  <2> SUFFICES ASSUME NEW j \in 1 .. n, NEW k \in 1 .. n, j < k,
                      ~ \E g \in DOMAIN stack' :
                          stack'[g][1] <= j /\ k <= stack'[g][2]
               PROVE  key[Filled[j]] <= key[Filled[k]]
    BY <1>2, <1>3 DEF InOrder
  <2>1. \A f \in DOMAIN stack :
          stack[f][1] <= j /\ k <= stack[f][2] => f = 1
    <3> SUFFICES ASSUME NEW f \in DOMAIN stack, f # 1,
                        stack[f][1] <= j, k <= stack[f][2]
                 PROVE  FALSE
      OBVIOUS
    <3>1. f + 1 \in DOMAIN stack' /\ stack'[f + 1] = stack[f]
      BY <1>5, <1>6
    <3> QED
      BY <3>1
  <2>2. CASE ~(from <= j /\ k <= to)
    <3>1. ~ \E f \in DOMAIN stack : stack[f][1] <= j /\ k <= stack[f][2]
      BY <1>5, <2>1, <2>2
    <3> QED
      BY <3>1 DEF SortedInv, InOrder
  <2>3. CASE from <= j /\ k <= to
    <3>1. 1 \in DOMAIN stack' /\ 2 \in DOMAIN stack'
      BY <1>5, <1>6
    <3>2. ~(k <= r - 1) /\ ~(r + 1 <= j)
      <4>1. /\ ~(stack'[1][1] <= j /\ k <= stack'[1][2])
            /\ ~(stack'[2][1] <= j /\ k <= stack'[2][2])
        BY <3>1, Zenon
      <4>2. /\ stack'[1][1] = from /\ stack'[1][2] = r - 1
            /\ stack'[2][1] = r + 1 /\ stack'[2][2] = to
        BY <1>6
      <4> QED
        BY <2>3, <4>1, <4>2
    <3>3. j <= r /\ r <= k
      BY <1>3, <3>2
    <3>4. key[Filled[j]] <= key[tmp] /\ key[tmp] <= key[Filled[k]]
      <4>1. Partitioned(Filled)
        BY <1>2 DEF SortedInv
      <4>2. j # r => j \in from .. l - 1
        BY <1>2, <1>3, <1>4, <2>3, <3>3
      <4>3. k # r => k \in r + 1 .. to
        BY <1>2, <1>3, <1>4, <2>3, <3>3
      <4> QED
        BY <1>3, <4>1, <4>2, <4>3 DEF Partitioned
    <3> QED
      BY <1>3, <3>4, SMTT(30)
  <2> QED
    BY <2>2, <2>3
<1> QED
  BY <1>1, <1>2, <1>3, <1>8, <1>9 DEF SortedInv

LEMMA SortedStep == SortedInv /\ [SortNext]_sortVars => SortedInv'
<1> SUFFICES ASSUME SortedInv, [SortNext]_sortVars PROVE SortedInv'
  OBVIOUS
<1>1. CASE UNCHANGED sortVars
  BY <1>1 DEF sortVars, SortedInv, SortInv, Filled, Hole, FramesInOrder,
              InOrder, Partitioned
<1> QED
  BY <1>1, SortedCall, SortedScanRight, SortedScanLeft, SortedPlace DEF SortNext

\* Once there is no pending call, the whole array is in order.
LEMMA SortedEnd ==
    SortedInv /\ stack = << >> =>
        /\ pc = "call" /\ DOMAIN arr = 1 .. Len(key)
        /\ \A j, k \in DOMAIN arr : j < k => key[arr[j]] <= key[arr[k]]
<1> SUFFICES ASSUME SortedInv, stack = << >>
             PROVE  /\ pc = "call" /\ DOMAIN arr = 1 .. Len(key)
                    /\ \A j, k \in DOMAIN arr :
                         j < k => key[arr[j]] <= key[arr[k]]
  OBVIOUS
<1>1. pc = "call" /\ DOMAIN arr = 1 .. Len(key) /\ DOMAIN stack = {}
  BY DEF SortedInv, SortInv
<1>2. InOrder(arr)
  BY <1>1 DEF SortedInv, Filled
<1> QED
  BY <1>1, <1>2 DEF InOrder

-----------------------------------------------------------------------------
(* The loop *)

\* What is known of the variables: a group that is being collected has a key.
LoopType ==
    /\ i \in 1 .. Len(arr) + 1
    /\ start \in 1 .. Len(arr)
    /\ last \in ShardKeys \cup {-1}
    /\ (last = -1) <=> (i = 1)
    /\ start <= i /\ (last # -1 => start < i)
    /\ shardCount \in 0 .. Len(arr)
    /\ refused \subseteq ShardKeys
    /\ groups \in Seq([shard : ShardKeys, from : 1 .. Len(arr),
                       num : 1 .. Len(arr)])
    /\ done \in BOOLEAN /\ returned \in BOOLEAN
    /\ returned => i = Len(arr) + 1

\* shard_count is at least the number of keys not yet looked at, plus one for
\* the group being collected: enough for a refusal of every shard so far.
LoopInv ==
    /\ SortInv
    /\ LoopType
    /\ ~returned =>
        /\ ~done
        /\ shardCount >= Len(arr) + 1 - i + (IF last = -1 THEN 0 ELSE 1)

\* The array has a length, and its elements have shards.
LEMMA ArrayFacts ==
    SortInv => /\ Len(arr) = Len(key) /\ Len(arr) \in Nat /\ Len(arr) >= 1
               /\ \A j \in 1 .. Len(arr) : ShardKey(j) \in ShardKeys
<1> SUFFICES ASSUME SortInv
             PROVE  /\ Len(arr) = Len(key) /\ Len(arr) \in Nat /\ Len(arr) >= 1
                    /\ \A j \in 1 .. Len(arr) : ShardKey(j) \in ShardKeys
  OBVIOUS
<1> DEFINE n == Len(key)
<1>1. /\ n \in Nat /\ n >= 1
      /\ key \in [1 .. n -> ShardKeys] /\ arr \in [1 .. n -> 1 .. n]
  BY ShardsAssumption DEF SortInv
<1>2. Len(arr) = n
  BY <1>1
<1> QED
  BY <1>1, <1>2 DEF ShardKey

\* The loop starts with the invariant.
LEMMA LoopInvInit == ShardsInit => LoopInv
<1> SUFFICES ASSUME ShardsInit PROVE LoopInv
  OBVIOUS
<1>1. SortInv
  BY SortInvInit DEF ShardsInit
<1>2. Len(arr) \in Nat /\ Len(arr) >= 1
  BY <1>1, ArrayFacts
<1>3. groups \in Seq([shard : ShardKeys, from : 1 .. Len(arr),
                      num : 1 .. Len(arr)])
  BY DEF ShardsInit
<1>4. ~done /\ ~returned /\ done \in BOOLEAN /\ returned \in BOOLEAN
  BY Zenon DEF ShardsInit
<1> QED
  BY <1>1, <1>2, <1>3, <1>4 DEF ShardsInit, LoopInv, LoopType

\* A step of the sort keeps it, because it keeps the number of keys.
LEMMA LoopInvSort ==
    LoopInv /\ SortNext /\ UNCHANGED loopVars => LoopInv'
<1> SUFFICES ASSUME LoopInv, SortNext, UNCHANGED loopVars PROVE LoopInv'
  OBVIOUS
<1>1. SortInv'
  BY SortInvStep DEF LoopInv
<1>2. key' = key
  BY DEF SortNext, Call, ScanRight, ScanLeft, Place
<1>3. Len(arr) = Len(key)
  BY ArrayFacts DEF LoopInv
<1>4. Len(arr') = Len(key')
  <2>1. /\ Len(key') \in Nat /\ arr' \in [1 .. Len(key') -> 1 .. Len(key')]
    BY <1>1, ShardsAssumption DEF SortInv
  <2> QED
    BY <2>1
<1>5. Len(arr') = Len(arr)
  BY <1>2, <1>3, <1>4
<1> QED
  BY <1>1, <1>5 DEF LoopInv, LoopType, loopVars

\* A callback for the group that is being collected appends a group of keys
\* within the array, and takes at most one off the count.
LEMMA CallbackFacts ==
    ASSUME LoopInv, ~returned, last # -1,
           NEW num \in 1 .. Len(arr), Callback(last, num, shardCount)
    PROVE  /\ groups' \in Seq([shard : ShardKeys, from : 1 .. Len(arr),
                               num : 1 .. Len(arr)])
           /\ done' \in BOOLEAN
           /\ shardCount' \in {shardCount - 1, shardCount}
           /\ done' => shardCount = 1
<1>1. [shard |-> last, from |-> start, num |-> num]
        \in [shard : ShardKeys, from : 1 .. Len(arr), num : 1 .. Len(arr)]
  BY DEF LoopInv, LoopType
<1>2. groups' \in Seq([shard : ShardKeys, from : 1 .. Len(arr),
                       num : 1 .. Len(arr)])
  BY <1>1 DEF Callback, LoopInv, LoopType
<1>3. shardCount \in Int /\ ~done
  BY ArrayFacts DEF LoopInv, LoopType
<1>4. CASE last \in refused
  <2>1. shardCount' = shardCount - 1 /\ done' = (shardCount - 1 = 0)
    BY <1>4 DEF Callback
  <2>2. (shardCount - 1 = 0) => shardCount = 1
    BY <1>3
  <2>3. done' \in BOOLEAN /\ (done' => shardCount = 1)
    BY <2>1, <2>2, Zenon
  <2> QED
    BY <1>2, <2>1, <2>3
<1>5. CASE last \notin refused
  <2>1. shardCount' = shardCount /\ done' = done
    BY <1>5 DEF Callback
  <2>2. done' \in BOOLEAN /\ ~done'
    BY <1>3, <2>1, Zenon DEF LoopInv, LoopType
  <2> QED
    BY <1>2, <2>1, <2>2
<1> QED
  BY <1>4, <1>5

\* An iteration keeps it: the key that is looked at pays for a duplicate's
\* correction or for the refusal of the group it closes.
LEMMA LoopInvIterate == LoopInv /\ Iterate => LoopInv'
<1> SUFFICES ASSUME LoopInv, Iterate PROVE LoopInv'
  OBVIOUS
<1> DEFINE k == ShardKey(i)
<1> DEFINE n == Len(arr)
<1>1. /\ n \in Nat /\ i \in 1 .. n
      /\ shardCount \in 0 .. n /\ Len(arr') = n /\ ~returned /\ ~returned'
      /\ last' = k /\ i' = i + 1 /\ refused' = refused /\ ~done
      /\ shardCount >= n + 1 - i + (IF last = -1 THEN 0 ELSE 1)
  BY ArrayFacts DEF LoopInv, LoopType, Iterate, sortVars
<1>2. SortInv'
  BY SortInvStep DEF LoopInv, Iterate
<1>3. k \in ShardKeys /\ k # -1
  <2>1. k \in ShardKeys
    BY <1>1, ArrayFacts DEF LoopInv
  <2>2. ShardKeys \subseteq Nat
    BY ShardsAssumption
  <2> QED
    BY <2>1, <2>2
<1>4. /\ last \in ShardKeys \cup {-1} /\ (last = -1) <=> (i = 1)
      /\ start \in 1 .. n /\ start <= i /\ (last # -1 => start < i)
      /\ refused \subseteq ShardKeys /\ done \in BOOLEAN
      /\ groups \in Seq([shard : ShardKeys, from : 1 .. n, num : 1 .. n])
  BY DEF LoopInv, LoopType
<1>5. CASE k = last \/ last = -1
  <2>1. /\ shardCount' = IF k = last THEN shardCount - 1 ELSE shardCount
        /\ done' = done /\ start' = start /\ groups' = groups
    BY <1>5 DEF Iterate
  <2> HIDE DEF k, n
  <2>2. i + 1 \in 1 .. n + 1 /\ start < i + 1
    BY <1>1, <1>4
  <2>3. shardCount' \in 0 .. n /\ shardCount' >= n + 1 - (i + 1) + 1
    <3>1. CASE k = last
      <4>1. shardCount' = shardCount - 1 /\ shardCount >= n + 1 - i + 1
        BY <1>1, <1>3, <2>1, <3>1
      <4> QED
        BY <1>1, <4>1
    <3>2. CASE k # last
      <4>1. shardCount' = shardCount /\ shardCount >= n + 1 - i
        BY <1>1, <1>5, <2>1, <3>2
      <4> QED
        BY <1>1, <4>1
    <3> QED
      BY <3>1, <3>2
  <2>4. done' \in BOOLEAN /\ ~done' /\ returned' \in BOOLEAN
    BY <1>1, <1>4, <2>1, Zenon DEF LoopInv, LoopType, Iterate
  <2>5. LoopType'
    BY <1>1, <1>3, <1>4, <2>1, <2>2, <2>3, <2>4 DEF LoopType, n
  <2> QED
    BY <1>1, <1>2, <1>3, <2>3, <2>4, <2>5 DEF LoopInv, n
<1>6. CASE k # last /\ last # -1
  <2>1. Callback(last, i - start, shardCount) /\ start' = i
    BY <1>6 DEF Iterate
  <2>2. i - start \in 1 .. n
    BY <1>1, <1>4, <1>6
  <2>3. /\ groups' \in Seq([shard : ShardKeys, from : 1 .. n, num : 1 .. n])
        /\ done' \in BOOLEAN
        /\ shardCount' \in {shardCount - 1, shardCount}
        /\ done' => shardCount = 1
    BY <1>1, <1>6, <2>1, <2>2, CallbackFacts
  <2> HIDE DEF k, n
  <2>4. /\ shardCount' \in 0 .. n /\ shardCount >= 2
        /\ shardCount' >= n + 1 - (i + 1) + 1
        /\ i + 1 \in 1 .. n + 1 /\ i < i + 1
    BY <1>1, <1>6, <2>3
  <2>5. ~done'
    BY <1>1, <2>3, <2>4
  <2>6. returned' \in BOOLEAN
    BY Zenon DEF LoopInv, LoopType, Iterate
  <2>7. LoopType'
    BY <1>1, <1>3, <1>4, <2>1, <2>3, <2>4, <2>6 DEF LoopType, n
  <2> QED
    BY <1>1, <1>2, <1>3, <2>4, <2>5, <2>7 DEF LoopInv, n
<1> QED
  BY <1>5, <1>6

\* So does every step.
LEMMA LoopInvStep == LoopInv /\ [ShardsNext]_shardVars => LoopInv'
<1> SUFFICES ASSUME LoopInv, [ShardsNext]_shardVars PROVE LoopInv'
  OBVIOUS
<1>1. CASE SortNext /\ UNCHANGED loopVars
  BY <1>1, LoopInvSort
<1>2. CASE Iterate
  BY <1>2, LoopInvIterate
<1>3. CASE Finish
  <2> DEFINE n == Len(arr)
  <2>1. /\ returned' /\ arr' = arr /\ i' = i /\ last' = last /\ start' = start
        /\ refused' = refused /\ ~returned /\ i = n + 1
        /\ Callback(last, n + 1 - start, shardCount)
    BY <1>3 DEF Finish, sortVars
  <2>2. /\ n \in Nat /\ n >= 1 /\ start \in 1 .. n
        /\ shardCount \in 0 .. n /\ last # -1
        /\ shardCount >= n + 1 - i + (IF last = -1 THEN 0 ELSE 1)
    BY <2>1, ArrayFacts DEF LoopInv, LoopType
  <2>3. SortInv'
    BY <1>3, SortInvStep DEF LoopInv, Finish
  <2>4. n + 1 - start \in 1 .. n
    BY <2>2
  <2>5. /\ groups' \in Seq([shard : ShardKeys, from : 1 .. n, num : 1 .. n])
        /\ done' \in BOOLEAN
        /\ shardCount' \in {shardCount - 1, shardCount}
    BY <2>1, <2>2, <2>4, CallbackFacts
  <2>6. shardCount' \in 0 .. n
    BY <2>1, <2>2, <2>5
  <2> QED
    BY <2>1, <2>3, <2>5, <2>6 DEF LoopInv, LoopType
<1>4. CASE UNCHANGED shardVars
  <2>1. SortInv'
    BY <1>4, SortInvStep DEF LoopInv, shardVars
  <2> QED
    BY <1>4, <2>1 DEF shardVars, sortVars, loopVars, LoopInv, LoopType
<1> QED
  BY <1>1, <1>2, <1>3, <1>4 DEF ShardsNext

\* _quicksort of any number of keys loses none and doubles none, although it
\* overwrites the elements it moves, and when it has returned the shards do
\* not decrease.
THEOREM KeysSorted == ShardsSpec => []SortsEveryKey
<1>1. SortedInv => SortsEveryKey
  BY SortedEnd DEF SortedInv, SortsEveryKey, Filled
<1>2. ShardsInit => SortedInv
  BY SortedInit DEF ShardsInit
<1>3. SortedInv /\ [ShardsNext]_shardVars => SortedInv'
  BY SortedStep DEF ShardsNext, Iterate, Finish, shardVars
<1> QED
  BY <1>1, <1>2, <1>3, PTL DEF ShardsSpec

-----------------------------------------------------------------------------
(* The groups *)

\* The groups whose answer is to come.
Accepted == {g \in DOMAIN groups : groups[g].shard \notin refused}

\* The exact value of shard_count: a key that was not looked at, the group
\* being collected and every group that was accepted stand for one each.
CountInv ==
    /\ ~returned => shardCount = Len(arr) + 1 - i + (IF last = -1 THEN 0 ELSE 1)
                                 + Cardinality(Accepted)
    /\ CountMatchesGroups

\* The keys after the last group.
NextFrom ==
    IF groups = << >> THEN 1
    ELSE groups[Len(groups)].from + groups[Len(groups)].num

\* The groups made so far are of increasing shards, of keys of their shard
\* only and without gaps; the group being collected starts where the last one
\* ended, has keys of one shard only, and of a larger one.
GroupsInv ==
    /\ stack # << >> => i = 1 /\ groups = << >> /\ start = 1
    /\ ~returned => \A k \in start .. i - 1 : ShardKey(k) = last
    /\ \A g \in DOMAIN groups :
        /\ groups[g].from = IF g = 1 THEN 1
                            ELSE groups[g - 1].from + groups[g - 1].num
        /\ \A k \in groups[g].from .. groups[g].from + groups[g].num - 1 :
             ShardKey(k) = groups[g].shard
    /\ \A g, h \in DOMAIN groups : g < h => groups[g].shard < groups[h].shard
    /\ ~returned => \A g \in DOMAIN groups : groups[g].shard < last
    /\ ~returned => start = NextFrom
    /\ returned => groups # << >> /\ NextFrom = Len(arr) + 1

\* A callback appends one group, which is accepted unless it is refused.
LEMMA GroupAppended ==
    ASSUME LoopInv, last # -1, NEW num \in 1 .. Len(arr), NEW count \in Int,
           Callback(last, num, count), refused' = refused
    PROVE  LET m == Len(groups) + 1
           IN  /\ m \in Nat /\ DOMAIN groups = 1 .. m - 1
               /\ Len(groups') = m /\ DOMAIN groups' = 1 .. m
               /\ \A g \in 1 .. m - 1 : groups'[g] = groups[g]
               /\ groups'[m] = [shard |-> last, from |-> start, num |-> num]
               /\ Cardinality(Accepted) \in Nat
               /\ Cardinality(Accepted') =
                    Cardinality(Accepted) + IF last \in refused THEN 0 ELSE 1
<1> DEFINE m == Len(groups) + 1
<1> DEFINE Group == [shard : ShardKeys, from : 1 .. Len(arr), num : 1 .. Len(arr)]
<1> DEFINE new == [shard |-> last, from |-> start, num |-> num]
<1>1. groups \in Seq(Group) /\ new \in Group
  BY DEF LoopInv, LoopType
<1>2. groups' = Append(groups, new)
  BY DEF Callback
<1>3. /\ m \in Nat /\ DOMAIN groups = 1 .. m - 1
      /\ Len(groups') = m /\ DOMAIN groups' = 1 .. m
      /\ \A g \in 1 .. m - 1 : groups'[g] = groups[g]
      /\ groups'[m] = new
  <2> HIDE DEF Group, new
  <2> QED
    BY <1>1, <1>2
<1>4. IsFiniteSet(Accepted) /\ Cardinality(Accepted) \in Nat
  <2>1. IsFiniteSet(1 .. m - 1)
    BY <1>3, FS_Interval
  <2>2. Accepted \in SUBSET (1 .. m - 1)
    BY <1>3 DEF Accepted
  <2>3. IsFiniteSet(Accepted)
    BY <2>1, <2>2, FS_Subset
  <2> QED
    BY <2>3, FS_CardinalityType
<1>5. CASE last \in refused
  <2>1. Accepted' = Accepted
    <3>1. groups'[m].shard = last
      BY <1>3
    <3>2. \A g \in 1 .. m : g = m \/ g \in 1 .. m - 1
      BY <1>3
    <3>3. \A g \in 1 .. m - 1 : g \in 1 .. m
      BY <1>3
    <3> QED
      BY <1>3, <1>5, <3>1, <3>2, <3>3 DEF Accepted
  <2> QED
    BY <1>3, <1>4, <1>5, <2>1
<1>6. CASE last \notin refused
  <2>1. Accepted' = Accepted \cup {m}
    <3>1. groups'[m].shard = last /\ m \in 1 .. m
      BY <1>3
    <3>2. \A g \in 1 .. m : g = m \/ g \in 1 .. m - 1
      BY <1>3
    <3>3. \A g \in 1 .. m - 1 : g \in 1 .. m
      BY <1>3
    <3> QED
      BY <1>3, <1>6, <3>1, <3>2, <3>3 DEF Accepted
  <2>2. m \notin Accepted
    BY <1>3 DEF Accepted
  <2>3. Cardinality(Accepted') = Cardinality(Accepted) + 1
    BY <1>4, <2>1, <2>2, FS_AddElement
  <2> QED
    BY <1>3, <1>4, <1>6, <2>3
<1> QED
  BY <1>3, <1>4, <1>5, <1>6

\* Every step keeps the exact count.
LEMMA CountStep == LoopInv /\ CountInv /\ [ShardsNext]_shardVars => CountInv'
<1> SUFFICES ASSUME LoopInv, CountInv, [ShardsNext]_shardVars PROVE CountInv'
  OBVIOUS
<1> DEFINE n == Len(arr)
<1>1. /\ n \in Nat /\ n >= 1 /\ i \in 1 .. n + 1 /\ start \in 1 .. n
      /\ shardCount \in 0 .. n /\ done \in BOOLEAN /\ returned \in BOOLEAN
      /\ start <= i /\ (last # -1 => start < i) /\ (last = -1 <=> i = 1)
  BY ArrayFacts DEF LoopInv, LoopType
<1>2. CASE (SortNext \/ UNCHANGED sortVars) /\ UNCHANGED loopVars
  <2>1. n' = n
    <3>1. SortInv /\ SortInv' /\ key' = key
      BY <1>2, SortInvStep DEF LoopInv, SortNext, Call, ScanRight, ScanLeft, Place,
                               sortVars
    <3>2. n = Len(key) /\ n' = Len(key')
      <4>1. /\ Len(key) \in Nat /\ arr \in [1 .. Len(key) -> 1 .. Len(key)]
            /\ Len(key') \in Nat /\ arr' \in [1 .. Len(key') -> 1 .. Len(key')]
        BY <3>1, ShardsAssumption, SMTT(30) DEF SortInv
      <4> QED
        BY <4>1
    <3> QED
      BY <3>1, <3>2
  <2> QED
    BY <1>2, <2>1 DEF loopVars, CountInv, Accepted, CountMatchesGroups
<1>3. CASE Iterate
  <2>1. /\ i \in 1 .. n /\ ~returned /\ ~returned' /\ i' = i + 1 /\ n' = n
        /\ last' = ShardKey(i) /\ refused' = refused
        /\ ShardKey(i) \in ShardKeys /\ last' # -1
    <3>1. i \in 1 .. n /\ ~returned /\ ~returned' /\ i' = i + 1 /\ n' = n
      BY <1>1, <1>3 DEF Iterate, LoopInv, LoopType, sortVars
    <3>2. last' = ShardKey(i) /\ refused' = refused
      BY <1>3 DEF Iterate
    <3>3. ShardKey(i) \in ShardKeys /\ ShardKeys \subseteq Nat
      BY <3>1, ArrayFacts, ShardsAssumption DEF LoopInv
    <3> QED
      BY <3>1, <3>2, <3>3
  <2>2. CASE last' = last \/ last = -1
    <3>1. /\ shardCount' = IF last' = last THEN shardCount - 1 ELSE shardCount
          /\ groups' = groups /\ Accepted' = Accepted
      BY <1>3, <2>1, <2>2 DEF Iterate, Accepted
    <3>2. Cardinality(Accepted) \in Nat
      <4>1. IsFiniteSet(1 .. Len(groups)) /\ DOMAIN groups = 1 .. Len(groups)
        BY FS_Interval DEF LoopInv, LoopType
      <4>2. Accepted \in SUBSET (1 .. Len(groups))
        BY <4>1 DEF Accepted
      <4> QED
        BY <4>1, <4>2, FS_Subset, FS_CardinalityType
    <3> HIDE DEF n
    <3>3. shardCount' = n + 1 - (i + 1) + 1 + Cardinality(Accepted)
      BY <1>1, <2>1, <2>2, <3>1, <3>2 DEF CountInv, n
    <3> QED
      BY <2>1, <3>1, <3>3 DEF CountInv, CountMatchesGroups, n
  <2>3. CASE ~(last' = last \/ last = -1)
    <3>1. Callback(last, i - start, shardCount) /\ i - start \in 1 .. n
      BY <1>1, <1>3, <2>1, <2>3 DEF Iterate
    <3>2. /\ Cardinality(Accepted) \in Nat
          /\ Cardinality(Accepted') =
               Cardinality(Accepted) + IF last \in refused THEN 0 ELSE 1
      <4>1. shardCount \in Int /\ last # -1 /\ refused' = refused
        BY <1>1, <2>1, <2>3
      <4> HIDE DEF n
      <4> QED
        BY <3>1, <4>1, GroupAppended DEF n
    <3>3. shardCount' = IF last \in refused THEN shardCount - 1 ELSE shardCount
      BY <3>1 DEF Callback
    <3>4. shardCount = n + 1 - i + 1 + Cardinality(Accepted)
      BY <2>1, <2>3 DEF CountInv
    <3> HIDE DEF n
    <3>5. shardCount' = n + 1 - (i + 1) + 1 + Cardinality(Accepted')
      BY <1>1, <2>1, <3>2, <3>3, <3>4
    <3> QED
      BY <2>1, <3>5 DEF CountInv, CountMatchesGroups, n
  <2> QED
    BY <2>2, <2>3
<1>4. CASE Finish
  <2>1. /\ ~returned /\ returned' /\ i = n + 1 /\ last # -1 /\ refused' = refused
        /\ Callback(last, n + 1 - start, shardCount) /\ ~done
        /\ n + 1 - start \in 1 .. n
    BY <1>1, <1>4 DEF Finish, LoopInv
  <2>2. /\ Cardinality(Accepted) \in Nat
        /\ Cardinality(Accepted') =
             Cardinality(Accepted) + IF last \in refused THEN 0 ELSE 1
    <3>1. shardCount \in Int
      BY <1>1
    <3> QED
      BY <2>1, <3>1, GroupAppended
  <2>3. shardCount = 1 + Cardinality(Accepted)
    BY <1>1, <2>1, <2>2 DEF CountInv
  <2>4. shardCount' = Cardinality(Accepted')
    <3>1. shardCount' = IF last \in refused THEN shardCount - 1 ELSE shardCount
      BY <2>1 DEF Callback
    <3> QED
      BY <2>2, <2>3, <3>1
  <2>5. done' <=> shardCount' = 0
    <3>1. CASE last \in refused
      BY <2>1, <3>1, Zenon DEF Callback
    <3>2. CASE last \notin refused
      <4>1. done' = done /\ shardCount' = shardCount
        BY <2>1, <3>2 DEF Callback
      <4>2. shardCount' # 0
        BY <2>2, <2>3, <4>1
      <4> QED
        BY <2>1, <4>1, <4>2, Zenon
    <3> QED
      BY <3>1, <3>2
  <2> QED
    BY <2>1, <2>4, <2>5 DEF CountInv, CountMatchesGroups, Accepted
<1> QED
  BY <1>2, <1>3, <1>4 DEF ShardsNext, shardVars

LEMMA CountInit == ShardsInit => CountInv
<1> SUFFICES ASSUME ShardsInit PROVE CountInv
  OBVIOUS
<1>1. LoopInv
  BY LoopInvInit
<1>2. Accepted = {} /\ ~returned
  BY DEF ShardsInit, Accepted
<1>3. Cardinality(Accepted) = 0
  BY <1>2, FS_EmptySet
<1> QED
  BY <1>1, <1>2, <1>3, ArrayFacts DEF ShardsInit, LoopInv, CountInv, CountMatchesGroups

\* The group a callback appends starts where the one before it ended, has the
\* keys that were collected and is of a larger shard than all before it.
LEMMA GroupsAppend ==
    ASSUME LoopInv, GroupsInv, ~returned, last # -1,
           i - start \in 1 .. Len(arr), NEW count \in Int,
           Callback(last, i - start, count), UNCHANGED << sortVars, refused >>
    PROVE  /\ \A g \in DOMAIN groups' :
                /\ groups'[g].from = IF g = 1 THEN 1
                                     ELSE groups'[g - 1].from + groups'[g - 1].num
                /\ \A k \in groups'[g].from .. groups'[g].from + groups'[g].num - 1 :
                     ShardKey(k)' = groups'[g].shard
           /\ \A g, h \in DOMAIN groups' :
                g < h => groups'[g].shard < groups'[h].shard
           /\ \A g \in DOMAIN groups' :
                groups'[g].shard \in Int /\ groups'[g].shard <= last
           /\ NextFrom' = i /\ groups' # << >>
<1> DEFINE n == Len(arr)
<1> DEFINE m == Len(groups) + 1
<1>1. /\ n \in Nat /\ i \in Int /\ start \in Int /\ last \in Int
      /\ arr' = arr /\ key' = key
  BY ArrayFacts, ShardsAssumption DEF LoopInv, LoopType, sortVars
<1>2. /\ m \in Nat /\ m >= 1 /\ DOMAIN groups = 1 .. m - 1
      /\ Len(groups') = m /\ DOMAIN groups' = 1 .. m
      /\ \A g \in 1 .. m - 1 : groups'[g] = groups[g]
      /\ groups'[m] = [shard |-> last, from |-> start, num |-> i - start]
  <2>1. refused' = refused
    OBVIOUS
  <2>2. /\ m \in Nat /\ DOMAIN groups = 1 .. m - 1
        /\ Len(groups') = m /\ DOMAIN groups' = 1 .. m
        /\ \A g \in 1 .. m - 1 : groups'[g] = groups[g]
        /\ groups'[m] = [shard |-> last, from |-> start, num |-> i - start]
    BY <2>1, GroupAppended
  <2>3. m >= 1
    BY DEF LoopInv, LoopType
  <2> QED
    BY <2>2, <2>3
<1>3. \A g \in 1 .. m - 1 : /\ groups[g].shard \in Int /\ groups[g].from \in Int
                            /\ groups[g].num \in Int
  <2>1. \A g \in 1 .. m - 1 :
          groups[g] \in [shard : ShardKeys, from : 1 .. n, num : 1 .. n]
    <3>1. \A g \in DOMAIN groups :
            groups[g] \in [shard : ShardKeys, from : 1 .. n, num : 1 .. n]
      <4> DEFINE Group == [shard : ShardKeys, from : 1 .. n, num : 1 .. n]
      <4>1. groups \in Seq(Group)
        BY DEF LoopInv, LoopType
      <4> HIDE DEF Group
      <4>2. \A g \in DOMAIN groups : groups[g] \in Group
        BY <4>1
      <4> QED
        BY <4>2 DEF Group
    <3> QED
      BY <1>2, <3>1, Zenon
  <2>2. ShardKeys \subseteq Int /\ 1 .. n \subseteq Int
    BY <1>1, ShardsAssumption
  <2>3. \A e \in [shard : ShardKeys, from : 1 .. n, num : 1 .. n] :
          e.shard \in Int /\ e.from \in Int /\ e.num \in Int
    BY <2>2
  <2> QED
    BY <2>1, <2>3, Zenon
<1>4. /\ groups'[m].shard = last /\ groups'[m].from = start
      /\ groups'[m].num = i - start
  BY <1>2
<1>5. /\ \A g \in 1 .. m - 1 :
           groups[g].from = IF g = 1 THEN 1
                            ELSE groups[g - 1].from + groups[g - 1].num
      /\ \A g \in 1 .. m - 1 :
           \A k \in groups[g].from .. groups[g].from + groups[g].num - 1 :
             ShardKey(k) = groups[g].shard
      /\ \A g, h \in 1 .. m - 1 : g < h => groups[g].shard < groups[h].shard
      /\ \A g \in 1 .. m - 1 : groups[g].shard < last
      /\ start = NextFrom
      /\ \A k \in start .. i - 1 : ShardKey(k) = last
  BY <1>2, Zenon DEF GroupsInv
<1>6. start = IF m = 1 THEN 1 ELSE groups[m - 1].from + groups[m - 1].num
  <2>1. groups = << >> <=> m = 1
    BY <1>2 DEF LoopInv, LoopType
  <2>2. Len(groups) = m - 1
    BY <1>2
  <2> QED
    BY <1>5, <2>1, <2>2 DEF NextFrom
<1>7. \A g \in 1 .. m : g = m \/ (g \in 1 .. m - 1 /\ g < m)
  BY <1>2
<1>8. \A g \in 1 .. m : g # 1 => g - 1 \in 1 .. m - 1
  BY <1>2
<1> HIDE DEF m
<1>9. \A g \in 1 .. m :
        groups'[g].from = IF g = 1 THEN 1
                          ELSE groups'[g - 1].from + groups'[g - 1].num
  BY <1>2, <1>4, <1>5, <1>6, <1>7, <1>8
<1>10. \A g \in 1 .. m :
         \A k \in groups'[g].from .. groups'[g].from + groups'[g].num - 1 :
           ShardKey(k)' = groups'[g].shard
  <2> SUFFICES ASSUME NEW g \in 1 .. m,
                      NEW k \in groups'[g].from
                                 .. groups'[g].from + groups'[g].num - 1
               PROVE  ShardKey(k)' = groups'[g].shard
    OBVIOUS
  <2>1. ShardKey(k)' = ShardKey(k)
    BY <1>1 DEF ShardKey
  <2>2. CASE g = m
    <3>1. start + (i - start) - 1 = i - 1
      BY <1>1
    <3> QED
      BY <1>4, <1>5, <2>1, <2>2, <3>1
  <2>3. CASE g \in 1 .. m - 1
    BY <1>2, <1>5, <2>1, <2>3
  <2> QED
    BY <1>7, <2>2, <2>3
<1>11. \A g, h \in 1 .. m : g < h => groups'[g].shard < groups'[h].shard
  <2> SUFFICES ASSUME NEW g \in 1 .. m, NEW h \in 1 .. m, g < h
               PROVE  groups'[g].shard < groups'[h].shard
    OBVIOUS
  <2>1. g \in 1 .. m - 1
    BY <1>2
  <2> QED
    BY <1>2, <1>4, <1>5, <1>7, <2>1
<1>12. \A g \in 1 .. m : groups'[g].shard \in Int /\ groups'[g].shard <= last
  BY <1>1, <1>2, <1>3, <1>4, <1>5, <1>7
<1>13. groups' # << >> /\ NextFrom' = i
  <2>1. m \in 1 .. m /\ Len(groups') = m
    BY <1>2
  <2>2. groups' # << >>
    BY <1>2, <2>1
  <2>3. NextFrom' = start + (i - start)
    BY <1>4, <2>1, <2>2 DEF NextFrom
  <2> QED
    BY <1>1, <2>2, <2>3
<1> QED
  BY <1>2, <1>9, <1>10, <1>11, <1>12, <1>13

LEMMA GroupsInit == ShardsInit => GroupsInv
<1> SUFFICES ASSUME ShardsInit PROVE GroupsInv
  OBVIOUS
<1>1. i = 1 /\ start = 1 /\ groups = << >> /\ returned = FALSE
  BY DEF ShardsInit
<1> QED
  BY <1>1 DEF GroupsInv, NextFrom

\* Every step keeps it: the sort runs before there is a group, and a group is
\* closed at a key whose shard is larger because the keys are in order.
LEMMA GroupsStep ==
    LoopInv /\ SortedInv /\ GroupsInv /\ [ShardsNext]_shardVars => GroupsInv'
<1> SUFFICES ASSUME LoopInv, SortedInv, GroupsInv, [ShardsNext]_shardVars
             PROVE  GroupsInv'
  OBVIOUS
<1> DEFINE n == Len(arr)
<1>1. /\ n \in Nat /\ n >= 1 /\ i \in 1 .. n + 1 /\ start \in 1 .. n
      /\ start <= i /\ (last # -1 => start < i) /\ (last = -1 <=> i = 1)
      /\ last \in Int
  BY ArrayFacts, ShardsAssumption DEF LoopInv, LoopType
<1>2. CASE SortNext /\ UNCHANGED loopVars
  <2>1. stack # << >>
    BY <1>2 DEF SortNext, Call, ScanRight, ScanLeft, Place, LoopInv, SortInv
  <2>2. i' = 1 /\ groups' = << >> /\ start' = 1 /\ returned' = returned
    BY <1>2, <2>1 DEF GroupsInv, loopVars
  <2>3. ~returned
    BY <1>1, <2>1, <2>2 DEF GroupsInv, LoopInv, LoopType
  <2>4. DOMAIN groups' = {}
    BY <2>2
  <2> QED
    BY <2>2, <2>3, <2>4 DEF GroupsInv, NextFrom
<1>3. CASE Iterate
  <2>1. /\ i \in 1 .. n /\ ~returned /\ ~returned' /\ i' = i + 1 /\ n' = n
        /\ stack' = << >> /\ stack = << >> /\ arr' = arr /\ key' = key
        /\ last' = ShardKey(i)
    BY <1>1, <1>3 DEF Iterate, sortVars, LoopInv, LoopType
  <2>2. \A k \in 1 .. n : ShardKey(k) \in Int /\ ShardKey(k) >= 0
    <3>1. \A k \in 1 .. n : ShardKey(k) \in ShardKeys
      BY ArrayFacts DEF LoopInv
    <3>2. \A x \in ShardKeys : x \in Int /\ x >= 0
      BY ShardsAssumption
    <3> QED
      BY <3>1, <3>2, Zenon
  <2>3. \A k : ShardKey(k)' = ShardKey(k)
    BY <2>1 DEF ShardKey
  <2>4. \A k \in start .. i - 1 : ShardKey(k) = last
    BY <2>1 DEF GroupsInv
  <2>5. CASE last' = last \/ last = -1
    <3>1. groups' = groups /\ start' = start
      BY <1>3, <2>1, <2>5 DEF Iterate
    <3>2. \A k \in start .. i' - 1 : ShardKey(k) = last'
      <4>1. last = -1 => start = i
        BY <1>1
      <4>2. \A k \in start .. i' - 1 : k = i \/ k \in start .. i - 1
        BY <1>1, <2>1
      <4>3. \A k \in start .. i - 1 : k < i /\ start < i
        BY <1>1
      <4> QED
        BY <1>1, <2>1, <2>4, <2>5, <4>1, <4>2, <4>3
    <3>3. \A g \in DOMAIN groups : groups[g].shard < last'
      <4>1. \A g \in DOMAIN groups : groups[g].shard < last
        BY <2>1 DEF GroupsInv
      <4>2. \A g \in DOMAIN groups : groups[g].shard \in Nat
        <5> DEFINE Group == [shard : ShardKeys, from : 1 .. n, num : 1 .. n]
        <5>1. groups \in Seq(Group)
          BY DEF LoopInv, LoopType
        <5>2. \A e \in Group : e.shard \in Nat
          BY ShardsAssumption
        <5> HIDE DEF Group
        <5>3. \A g \in DOMAIN groups : groups[g] \in Group
          BY <5>1
        <5> QED
          BY <5>2, <5>3
      <4> QED
        BY <2>5, <4>1, <4>2
    <3>4. NextFrom' = NextFrom
      BY <3>1 DEF NextFrom
    <3> QED
      BY <2>1, <2>3, <3>1, <3>2, <3>3, <3>4 DEF GroupsInv
  <2>6. CASE ~(last' = last \/ last = -1)
    <3>1. Callback(last, i - start, shardCount) /\ start' = i
      BY <1>3, <2>1, <2>6 DEF Iterate
    <3>2. i - start \in 1 .. n /\ shardCount \in Int
      BY <1>1, <2>6 DEF LoopInv, LoopType
    <3>3. UNCHANGED << sortVars, refused >>
      BY <1>3 DEF Iterate
    <3>4. /\ \A g \in DOMAIN groups' :
               /\ groups'[g].from = IF g = 1 THEN 1
                                    ELSE groups'[g - 1].from + groups'[g - 1].num
               /\ \A k \in groups'[g].from .. groups'[g].from + groups'[g].num - 1 :
                    ShardKey(k)' = groups'[g].shard
          /\ \A g, h \in DOMAIN groups' :
               g < h => groups'[g].shard < groups'[h].shard
          /\ \A g \in DOMAIN groups' :
               groups'[g].shard \in Int /\ groups'[g].shard <= last
          /\ NextFrom' = i
      BY <2>1, <2>6, <3>1, <3>2, <3>3, GroupsAppend
    <3>5. last < last'
      <4>1. ShardKey(i - 1) = last /\ i - 1 \in 1 .. n /\ i - 1 < i
        BY <1>1, <2>1, <2>4, <2>6
      <4>2. \A j, k \in 1 .. n : j < k => key[arr[j]] <= key[arr[k]]
        BY <2>1, SortedEnd, ArrayFacts DEF LoopInv
      <4>3. ShardKey(i - 1) <= ShardKey(i)
        BY <2>1, <4>1, <4>2 DEF ShardKey
      <4> QED
        BY <1>1, <2>1, <2>2, <2>6, <4>1, <4>3
    <3>6. \A g \in DOMAIN groups' : groups'[g].shard < last'
      BY <1>1, <2>1, <2>2, <3>4, <3>5
    <3>7. \A k \in start' .. i' - 1 : ShardKey(k)' = last'
      BY <1>1, <2>1, <2>3, <3>1
    <3> QED
      BY <2>1, <3>1, <3>4, <3>6, <3>7 DEF GroupsInv
  <2> QED
    BY <2>5, <2>6
<1>4. CASE Finish
  <2>1. /\ ~returned /\ returned' /\ i = n + 1 /\ last # -1 /\ stack' = << >>
        /\ n' = n /\ Callback(last, n + 1 - start, shardCount)
    BY <1>1, <1>4 DEF Finish, sortVars
  <2>2. /\ UNCHANGED << sortVars, refused >> /\ shardCount \in Int
        /\ Callback(last, i - start, shardCount) /\ i - start \in 1 .. n
    BY <1>1, <1>4, <2>1 DEF Finish, LoopInv, LoopType
  <2>3. /\ \A g \in DOMAIN groups' :
             /\ groups'[g].from = IF g = 1 THEN 1
                                  ELSE groups'[g - 1].from + groups'[g - 1].num
             /\ \A k \in groups'[g].from .. groups'[g].from + groups'[g].num - 1 :
                  ShardKey(k)' = groups'[g].shard
        /\ \A g, h \in DOMAIN groups' :
             g < h => groups'[g].shard < groups'[h].shard
        /\ NextFrom' = i /\ groups' # << >>
    BY <2>1, <2>2, GroupsAppend
  <2> QED
    BY <2>1, <2>3 DEF GroupsInv
<1>5. CASE UNCHANGED shardVars
  BY <1>5 DEF shardVars, sortVars, loopVars, GroupsInv, NextFrom, ShardKey
<1> QED
  BY <1>2, <1>3, <1>4, <1>5 DEF ShardsNext

-----------------------------------------------------------------------------
(* The theorems *)

\* router_acquire_shards never works on a request that one of its callbacks
\* has ended, however many keys and shards there are and whichever of the
\* shards refuse.
THEOREM RequestOutlivesLoop == ShardsSpec => []NotFreedInLoop
<1>1. LoopInv => NotFreedInLoop
  BY DEF LoopInv, NotFreedInLoop
<1> QED
  BY <1>1, LoopInvInit, LoopInvStep, PTL DEF ShardsSpec

\* _quicksort reads and writes only inside backend_req[] and the groups that
\* the loop hands on are ranges of it, for any number of keys: no pointer of
\* the sort leaves the range of its call, and shard_count stays between 0 and
\* the number of keys.
THEOREM SplitStaysInside == ShardsSpec => []ShardsTypeOK
<1>1. LoopInv => ShardsTypeOK
  BY DEF LoopInv, LoopType, SortInv, SortTypeOK, ShardsTypeOK
<1> QED
  BY <1>1, LoopInvInit, LoopInvStep, PTL DEF ShardsSpec

\* When router_acquire_shards returns, shard_count is the number of the shards
\* whose answer is to come, for any keys and any shards that refuse, and the
\* request was ended exactly when there is none.
THEOREM CountExact == ShardsSpec => []CountMatchesGroups
<1>1. CountInv => CountMatchesGroups
  BY DEF CountInv
<1> QED
  BY <1>1, LoopInvInit, LoopInvStep, CountInit, CountStep, PTL DEF ShardsSpec

\* The loop makes one group of each shard among the keys, with all its keys
\* and no other, for any number of keys: it rests on the order the sort leaves.
THEOREM GroupsExact == ShardsSpec => []OneGroupPerShard
<1>1. GroupsInv /\ LoopInv => OneGroupPerShard
  <2> SUFFICES ASSUME GroupsInv, LoopInv PROVE OneGroupPerShard
    OBVIOUS
  <2>1. DOMAIN groups = 1 .. Len(groups) /\ Len(groups) \in Nat
    BY DEF LoopInv, LoopType
  <2>2. \A g \in DOMAIN groups : groups[g].shard \in Int
    <3> DEFINE Group == [shard : ShardKeys, from : 1 .. Len(arr),
                         num : 1 .. Len(arr)]
    <3>1. groups \in Seq(Group)
      BY DEF LoopInv, LoopType
    <3>2. \A e \in Group : e.shard \in ShardKeys
      OBVIOUS
    <3> HIDE DEF Group
    <3>3. \A g \in DOMAIN groups : groups[g] \in Group
      BY <3>1
    <3>4. \A x \in ShardKeys : x \in Int
      BY ShardsAssumption
    <3> QED
      BY <3>2, <3>3, <3>4, Zenon
  <2>3. \A g, h \in DOMAIN groups : g < h => groups[g].shard < groups[h].shard
    BY DEF GroupsInv
  <2>4. \A g, h \in DOMAIN groups : groups[g].shard = groups[h].shard => g = h
    BY <2>1, <2>2, <2>3
  <2>5. returned => groups[Len(groups)].from + groups[Len(groups)].num
                      = Len(arr) + 1
    BY DEF GroupsInv, NextFrom
  <2> QED
    BY <2>4, <2>5 DEF GroupsInv, OneGroupPerShard
<1>2. ShardsInit => SortedInv
  BY SortedInit DEF ShardsInit
<1>3. SortedInv /\ [ShardsNext]_shardVars => SortedInv'
  BY SortedStep DEF ShardsNext, Iterate, Finish, shardVars
<1> QED
  BY <1>1, <1>2, <1>3, LoopInvInit, LoopInvStep, GroupsInit, GroupsStep, PTL
     DEF ShardsSpec
=============================================================================
