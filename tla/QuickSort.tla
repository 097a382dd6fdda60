----------------------------- MODULE QuickSort -----------------------------
(***************************************************************************)
(* _quicksort of router.cpp, which sorts the pointers of a request's keys  *)
(* by shard before router_acquire_shards groups them.  The partition moves *)
(* a hole through the array: tmp holds the pivot, and the element at the   *)
(* hole is a copy.  The two recursive calls are the frames of a stack; the *)
(* steps are the tests of the two inner loops.                             *)
(***************************************************************************)
EXTENDS Integers, Sequences, FiniteSets, Functions

CONSTANTS ShardKeys,  \* shard numbers
          MaxKeys     \* bound on the keys of a request

VARIABLES
    key,     \* shard_key of every backend_req_t, which are named 1 .. n
    arr,     \* backend_req[], indexed from 1
    stack,   \* pending calls << start, end >>, the next one first
    tmp,     \* the pivot
    l, r,    \* the two pointers
    pc       \* "call", or in the loop over "right", over "left", or "place"

sortVars == << key, arr, stack, tmp, l, r, pc >>

SortTypeOK ==
    LET n == Len(key)
    IN  /\ n \in 1 .. MaxKeys /\ key \in [1 .. n -> ShardKeys]
        /\ arr \in [1 .. n -> 1 .. n]
        /\ stack \in Seq((1 .. n + 1) \X (0 .. n))
        /\ {tmp, l, r} \subseteq 1 .. n
        /\ pc \in {"call", "right", "left", "place"}

SortInit ==
    /\ \E n \in 1 .. MaxKeys :
        /\ key \in [1 .. n -> ShardKeys]
        /\ arr = [j \in 1 .. n |-> j]
        /\ stack = << <<1, n>> >>
    /\ tmp = 1 /\ l = 1 /\ r = 1
    /\ pc = "call"

\* Entry: a range of less than two is left alone.
Call ==
    /\ pc = "call" /\ stack # << >>
    /\ LET start == Head(stack)[1]
           end == Head(stack)[2]
       IN  IF start >= end
           THEN /\ stack' = Tail(stack)
                /\ UNCHANGED << tmp, l, r, pc >>
           ELSE /\ tmp' = arr[start] /\ l' = start /\ r' = end
                /\ pc' = "right"
                /\ UNCHANGED stack
    /\ UNCHANGED << key, arr >>

\* From the right, skip what is not smaller than the pivot; move the next one
\* into the hole at l.
ScanRight ==
    /\ pc = "right"
    /\ IF l < r /\ key[tmp] <= key[arr[r]]
       THEN /\ r' = r - 1
            /\ UNCHANGED << arr, pc >>
       ELSE /\ arr' = [arr EXCEPT ![l] = arr[r]]
            /\ pc' = "left"
            /\ UNCHANGED r
    /\ UNCHANGED << key, stack, tmp, l >>

\* From the left, skip what is not larger than the pivot; move the next one
\* into the hole at r, and go on while the pointers have not met.
ScanLeft ==
    /\ pc = "left"
    /\ IF l < r /\ key[tmp] >= key[arr[l]]
       THEN /\ l' = l + 1
            /\ UNCHANGED << arr, pc >>
       ELSE /\ arr' = [arr EXCEPT ![r] = arr[l]]
            /\ pc' = IF l < r THEN "right" ELSE "place"
            /\ UNCHANGED l
    /\ UNCHANGED << key, stack, tmp, r >>

\* Mutants of Place: the right part is cut short by one; the right part starts
\* at the pivot.
Place_Short ==
    /\ pc = "place"
    /\ arr' = [arr EXCEPT ![r] = tmp]
    /\ stack' = << <<Head(stack)[1], r - 1>>, <<r + 1, Head(stack)[2] - 1>> >>
                  \o Tail(stack)
    /\ pc' = "call"
    /\ UNCHANGED << key, tmp, l, r >>

Place_WithPivot ==
    /\ pc = "place"
    /\ arr' = [arr EXCEPT ![r] = tmp]
    /\ stack' = << <<Head(stack)[1], r - 1>>, <<r, Head(stack)[2]>> >>
                  \o Tail(stack)
    /\ pc' = "call"
    /\ UNCHANGED << key, tmp, l, r >>

\* The pivot goes to where the pointers met; then the two recursive calls.
Place ==
    /\ pc = "place"
    /\ arr' = [arr EXCEPT ![r] = tmp]
    /\ stack' = << <<Head(stack)[1], r - 1>>, <<r + 1, Head(stack)[2]>> >>
                  \o Tail(stack)
    /\ pc' = "call"
    /\ UNCHANGED << key, tmp, l, r >>

SortNext == Call \/ ScanRight \/ ScanLeft \/ Place

-----------------------------------------------------------------------------
(* Properties *)

\* The hole: the position whose element is a copy.
Hole == IF pc = "right" THEN l ELSE r

\* No key is lost or doubled: outside a partition the array is a permutation
\* of the request's keys, and within one it is with the pivot in the hole.
\* When the sort ends the shards do not decrease, which is what the grouping
\* loop of router_acquire_shards needs.
SortsEveryKey ==
    /\ Range(IF pc = "call" THEN arr ELSE [arr EXCEPT ![Hole] = tmp])
         = 1 .. Len(key)
    /\ stack = << >> =>
         \A j, k \in DOMAIN arr : j < k => key[arr[j]] <= key[arr[k]]

=============================================================================
