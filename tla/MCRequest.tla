----------------------------- MODULE MCRequest -----------------------------
(* Instances of Request for TLC. *)
EXTENDS Request, TLC

CONSTANTS r1, r2, p1, p2, p3, s1, s2

TwoClients == {r1, r2}
TwoServers == {s1, s2}

\* Two shards with a server each, and one that no server serves.
ThreePools == {p1, p2, p3}
WithUnserved == p1 :> {s1} @@ p2 :> {s2} @@ p3 :> {}

\* Two shards with a server each.
TwoPools == {p1, p2}
OneEach == p1 :> {s1} @@ p2 :> {s2}

ThreePoolSubReqs == TwoClients \X ThreePools
TwoPoolSubReqs == TwoClients \X TwoPools

\* Clients are only compared.
Symmetry == Permutations(TwoClients)
=============================================================================
