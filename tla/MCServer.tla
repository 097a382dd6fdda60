------------------------------ MODULE MCServer ------------------------------
(***************************************************************************)
(* An instance of Server for TLC.  The server lives in one of two worlds:  *)
(* either two clients "share" it, or the one that need not wait for its    *)
(* answers is "alone".  Then it sends one request more, so that a frame is *)
(* lost behind the one before it and a later one is answered; it sends no  *)
(* probe, which would stop this world for ever.                            *)
(***************************************************************************)
EXTENDS Server, TLC

CONSTANTS c1, c2

TwoClients == {c1, c2}
FirstPlain == {c1}

VARIABLE world

NoProbe(c) == \A k \in DOMAIN net'[c] : ~net'[c][k].probe

WorldInit ==
    /\ ServerInit
    /\ world \in {"share", "alone"}

\* Only what clients do is restricted, and never what the fairness is about.
WorldNext ==
    /\ ServerNext
    /\ world = "share" => \A c \in Clients : sent'[c] < MaxRequests
    /\ world = "alone" => peer'[c1] = "away" /\ NoProbe(c2)
    /\ UNCHANGED world

WorldSpec ==
    /\ WorldInit
    /\ [][WorldNext]_<< serverVars, world >>
    /\ ServerFairness
=============================================================================
