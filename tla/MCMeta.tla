------------------------------- MODULE MCMeta -------------------------------
(* An instance of Meta for TLC: three keys, at most two partitions. *)
EXTENDS Meta, TLC

CONSTANTS sv1, sv2, u1, u2, here, there

Number(n) == [range |-> FALSE, lo |-> n, hi |-> n]
Range(a, b) == [range |-> TRUE, lo |-> a, hi |-> b]

TwoServices == {sv1, sv2}
TwoUsers == {u1, u2}

Both(i) == [partition |-> i, canRead |-> TRUE, canWrite |-> TRUE, place |-> here]

\* One partition with all the keys.
One == [loads |-> TRUE, dbs |-> 1, fault |-> "none", mode |-> 0, place |-> here,
        words |-> 0 :> << Range(0, 2) >>,
        services |-> sv1 :> Both(0),
        users |-> << u1 >>]

\* Two partitions, and the users in another order.
Two == [One EXCEPT !.words = 0 :> << Number(0), Number(2) >> @@ 1 :> << Number(1) >>,
                   !.services = sv1 :> Both(1) @@ sv2 :> Both(0),
                   !.users = << u2, u1, u2 >>]

\* The second partition can only be written.
Unread == [Two EXCEPT !.services[sv1].place = there, !.users = << u2 >>]

\* A bad word after the last key.
Sloppy == [One EXCEPT !.words = 0 :> << Range(0, 2), Range(2, 1) >>]

\* A bad word before the last key.
Cut == [One EXCEPT !.words = 0 :> << Number(0), Number(3), Range(1, 2) >>]

Gap == [One EXCEPT !.words = 0 :> << Range(0, 1) >>, !.users = << u2 >>]
Overlap == [Two EXCEPT !.words[1] = << Range(0, 1) >>]

Unsupported == [One EXCEPT !.mode = 1]
NotLoaded == [One EXCEPT !.loads = FALSE]
TwoDbs == [One EXCEPT !.dbs = 2]
Unreadable == {[One EXCEPT !.fault = f] : f \in {"basic", "user"}}
Stray == [One EXCEPT !.services[sv1].partition = 1]

AllConfs == {One, Two, Unread, Sloppy, Cut, Gap, Overlap, Unsupported, NotLoaded,
             TwoDbs, Stray} \cup Unreadable
=============================================================================
