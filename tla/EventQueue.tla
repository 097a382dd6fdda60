----------------------------- MODULE EventQueue -----------------------------
(* What event_trigger and event_listen promise: the events that were        *)
(* triggered are delivered whole, once each, in the order of triggering.    *)
EXTENDS Sequences

CONSTANTS Events, NoEvent

VARIABLES queue,      \* triggered and not delivered
          delivered   \* the event delivered last

eqvars == << queue, delivered >>

EQInit == queue = << >> /\ delivered = NoEvent

Put(e) == queue' = Append(queue, e) /\ UNCHANGED delivered

Get ==
    /\ queue # << >>
    /\ delivered' = Head(queue)
    /\ queue' = Tail(queue)

EQNext == (\E e \in Events : Put(e)) \/ Get

EQSpec == EQInit /\ [][EQNext]_eqvars
=============================================================================
