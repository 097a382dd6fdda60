------------------------------- MODULE MCPool -------------------------------
(***************************************************************************)
(* An instance of Pool for TLC.  A pool lives in one of two worlds: it     *)
(* "serves" with every fault and is never destroyed, as in the program as  *)
(* committed; or it is "destroyed", by the reload timer that meta.cpp has  *)
(* commented out, and nothing fails.                                       *)
(***************************************************************************)
EXTENDS PoolRefinement

CONSTANTS s1, s2, q1, q2

TwoServers == {s1, s2}
TwoSubReqs == {q1, q2}

VARIABLE world

NoFault ==
    \E s \in Servers :
        \/ \E sr \in SubReqs : Fetch(sr, s)
        \/ \E sr \in SubReqs : Abandon(s, sr)
        \/ \E c \in Conns : Created(s, c, TRUE)
        \/ \E c \in Conns : Closed(s, c)
        \/ \E c \in Conns : Release(s, c, FALSE)
        \/ Monitor(s)

WorldInit ==
    /\ Init
    /\ world \in {"serve", "destroy"}

WorldNext ==
    /\ \/ world = "serve" /\ Serve
       \/ world = "destroy" /\ NoFault
       \/ world = "destroy" /\ Destroy
    /\ UNCHANGED world

WorldSpec ==
    /\ WorldInit
    /\ [][WorldNext]_<< vars, world >>
    /\ Fairness
    /\ \A s \in Servers, sr \in SubReqs :
         WF_vars(world = "destroy" /\ Abandon(s, sr))
=============================================================================
