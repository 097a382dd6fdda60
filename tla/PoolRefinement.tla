--------------------------- MODULE PoolRefinement ---------------------------
(* The pool of pool.cpp implements the abstract pool ConnPool. *)
EXTENDS Pool

Abstract == INSTANCE ConnPool WITH
    Slots      <- Conns,
    Requesters <- SubReqs,
    Nobody     <- None,
    line       <- [s \in Servers |-> server[s].waitingQueue],
    idle       <- [s \in Servers |-> Range(server[s].connectQueue)],
    owner      <- [s \in Servers |-> server[s].holder]

\* pool.cpp hands connections out exclusively, first come first served, and
\* never lets a newcomer overtake the waiting queue, whatever connections
\* fail, time out or are torn down in between.
ImplementsConnPool == Abstract!CPSpec
=============================================================================
