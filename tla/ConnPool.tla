------------------------------ MODULE ConnPool ------------------------------
(***************************************************************************)
(* What a connection pool promises the requests that use it, without its   *)
(* queues of slots, counters and flags: every server has some slots; a     *)
(* slot is idle, owned by one requester, or out of service.  A requester   *)
(* takes an idle slot or, only when there is none, joins the server's line;*)
(* a slot that comes into service or is given back goes to the head of the *)
(* line, and is idle only when nobody is in line.                          *)
(***************************************************************************)
EXTENDS Integers, Sequences, Functions

CONSTANTS Servers, Slots, Requesters, Nobody

VARIABLES line, idle, owner

cpvars == << line, idle, owner >>

CPInit ==
    /\ line = [s \in Servers |-> << >>]
    /\ idle = [s \in Servers |-> {}]
    /\ owner = [s \in Servers |-> [c \in Slots |-> Nobody]]

\* r neither owns a slot nor is in a line.
Outside(r) ==
    \A s \in Servers : r \notin Range(line[s]) \cup Range(owner[s])

Take(s, c, r) ==
    /\ Outside(r)
    /\ c \in idle[s]
    /\ idle' = [idle EXCEPT ![s] = @ \ {c}]
    /\ owner' = [owner EXCEPT ![s][c] = r]
    /\ UNCHANGED line

Join(s, r) ==
    /\ Outside(r)
    /\ idle[s] = {}
    /\ line' = [line EXCEPT ![s] = Append(@, r)]
    /\ UNCHANGED << idle, owner >>

\* Slot c, not idle so far, is ready for the next user.
Offer(s, c) ==
    /\ c \notin idle[s]
    /\ \/ /\ line[s] # << >>
          /\ owner' = [owner EXCEPT ![s][c] = Head(line[s])]
          /\ line' = [line EXCEPT ![s] = Tail(@)]
          /\ UNCHANGED idle
       \/ /\ line[s] = << >>
          /\ owner' = [owner EXCEPT ![s][c] = Nobody]
          /\ idle' = [idle EXCEPT ![s] = @ \cup {c}]
          /\ UNCHANGED line

\* Some slots leave service: broken, or the server is being shut down.
Withdraw(W) ==
    /\ idle' = [s \in Servers |-> idle[s] \ W[s]]
    /\ owner' = [s \in Servers |-> [c \in Slots |->
                    IF c \in W[s] THEN Nobody ELSE owner[s][c]]]
    /\ UNCHANGED line

\* The i-th in the line of s gives up; the others keep their order.
GiveUp(s, i) ==
    /\ i \in DOMAIN line[s]
    /\ line' = [line EXCEPT ![s] =
                    [j \in 1 .. Len(@) - 1 |-> IF j < i THEN @[j] ELSE @[j + 1]]]
    /\ UNCHANGED << idle, owner >>

CPNext ==
    \/ \E s \in Servers, c \in Slots, r \in Requesters : Take(s, c, r)
    \/ \E s \in Servers, r \in Requesters : Join(s, r)
    \/ \E s \in Servers, c \in Slots : Offer(s, c)
    \/ \E W \in [Servers -> SUBSET Slots] : Withdraw(W)
    \/ \E s \in Servers : \E i \in DOMAIN line[s] : GiveUp(s, i)

CPSpec == CPInit /\ [][CPNext]_cpvars
=============================================================================
