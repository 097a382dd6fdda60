------------------------------ MODULE ConnLife ------------------------------
(***************************************************************************)
(* What the life of a client connection looks like to everybody who keeps  *)
(* a pointer to it: it is opened, it takes one request at a time, and it   *)
(* is never freed under the request.  An error that comes meanwhile is     *)
(* noted, and the connection goes when the request is finished.            *)
(***************************************************************************)
CONSTANT Clients

VARIABLES phase,   \* "closed", "reading" or "processing"
          failed   \* the connections with an error to be acted on

clvars == << phase, failed >>

CLInit ==
    /\ phase = [c \in Clients |-> "closed"]
    /\ failed = {}

Open(c) ==
    /\ phase[c] = "closed"
    /\ phase' = [phase EXCEPT ![c] = "reading"]
    /\ UNCHANGED failed

\* A request is taken; an error may have been waiting behind it.
Take(c) ==
    /\ phase[c] = "reading"
    /\ phase' = [phase EXCEPT ![c] = "processing"]
    /\ failed' \in {failed, failed \cup {c}}

Fail(c) ==
    /\ phase[c] # "closed"
    /\ IF phase[c] = "reading"
       THEN phase' = [phase EXCEPT ![c] = "closed"] /\ UNCHANGED failed
       ELSE failed' = failed \cup {c} /\ UNCHANGED phase

Finish(c) ==
    /\ phase[c] = "processing"
    /\ phase' = [phase EXCEPT ![c] = IF c \in failed THEN "closed"
                                     ELSE "reading"]
    /\ failed' = failed \ {c}

CLNext == \E c \in Clients : Open(c) \/ Take(c) \/ Fail(c) \/ Finish(c)

CLSpec == CLInit /\ [][CLNext]_clvars
=============================================================================
