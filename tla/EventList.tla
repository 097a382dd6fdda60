----------------------------- MODULE EventList ------------------------------
(***************************************************************************)
(* The custom events of event.cpp: other threads append to a linked list   *)
(* under a lock and make an event active; the event loop takes them off    *)
(* without the lock.  The last node of the list is always a placeholder,   *)
(* which the next producer fills, and the consumer stops at.               *)
(*                                                                         *)
(* The build has no optimisation and runs on x86-64, so the stores of a    *)
(* producer are seen in program order; each is a step.  Nodes are numbered *)
(* in the order in which they are linked; memory that was freed is not     *)
(* used again.  An event is its key and its data in one value.             *)
(***************************************************************************)
EXTENDS Integers, Sequences, FiniteSets

CONSTANTS Producers, Events,
          MaxEvents,     \* bound on the events that are triggered
          NoEvent,       \* what the memory of a new node holds
          NoThread       \* the lock is free

ASSUME EventListAssumption ==
    /\ MaxEvents \in Nat
    /\ NoEvent \notin Events
    /\ NoThread \notin Producers

Nodes == 0 .. MaxEvents

Null == -1

VARIABLES
    node,       \* key and data, next and is_placeholder of every node
    freedNodes, \* the nodes the consumer has freed
    head, tail, \* ts_list
    wlock,      \* list_wlock
    ppc,        \* where a producer is in event_trigger
    param,      \* the event it triggers
    active,     \* custom_event is active
    draining,   \* the loop is in custom_event_cb
    value       \* the event custom_event_cb took last

listVars == << node, freedNodes, head, tail, wlock, ppc, param, active,
               draining, value >>

NodeType == [event : Events \cup {NoEvent},
             next : Nodes \cup {Null},
             placeholder : BOOLEAN]

ListTypeOK ==
    /\ node \in [Nodes -> NodeType]
    /\ freedNodes \subseteq Nodes
    /\ head \in Nodes /\ tail \in Nodes
    /\ wlock \in Producers \cup {NoThread}
    /\ ppc \in [Producers -> {"out", "lock", "fill", "link", "publish",
                              "advance", "test", "activate"}]
    /\ param \in [Producers -> Events \cup {NoEvent}]
    /\ active \in BOOLEAN /\ draining \in BOOLEAN
    /\ value \in Events \cup {NoEvent}

\* list_init
ListInit ==
    /\ node = [n \in Nodes |->
                 [event |-> NoEvent, next |-> Null, placeholder |-> n = 0]]
    /\ freedNodes = {} /\ head = 0 /\ tail = 0
    /\ wlock = NoThread
    /\ ppc = [p \in Producers |-> "out"]
    /\ param = [p \in Producers |-> NoEvent]
    /\ active = FALSE /\ draining = FALSE /\ value = NoEvent

-----------------------------------------------------------------------------
(* Producers *)

\* Producers that are in list_produce with a node of their own.
Entered == {p \in Producers :
              ppc[p] \in {"lock", "fill", "link", "publish", "advance"}}

Goto(p, from, to) ==
    /\ ppc[p] = from
    /\ ppc' = [ppc EXCEPT ![p] = to]

\* event_trigger is called; malloc always succeeds.
Trigger(p, e) ==
    /\ tail + Cardinality(Entered) < MaxEvents
    /\ Goto(p, "out", "lock")
    /\ param' = [param EXCEPT ![p] = e]
    /\ UNCHANGED << node, freedNodes, head, tail, wlock, active, draining,
                    value >>

\* list_produce: lock, cur_tail = ts_list.tail
Lock(p) ==
    /\ wlock = NoThread
    /\ Goto(p, "lock", "fill")
    /\ wlock' = p
    /\ UNCHANGED << node, freedNodes, head, tail, param, active, draining,
                    value >>

\* Mutant of Fill: is_placeholder is cleared first.
Fill_Published(p) ==
    /\ Goto(p, "fill", "link")
    /\ node' = [node EXCEPT ![tail].placeholder = FALSE]
    /\ UNCHANGED << freedNodes, head, tail, wlock, param, active, draining,
                    value >>

\* cur_tail->key = key, cur_tail->data = data
Fill(p) ==
    /\ Goto(p, "fill", "link")
    /\ node' = [node EXCEPT ![tail].event = param[p]]
    /\ UNCHANGED << freedNodes, head, tail, wlock, param, active, draining,
                    value >>

\* cur_tail->next = new_tail, and new_tail becomes a placeholder.
Link(p) ==
    /\ Goto(p, "link", "publish")
    /\ node' = [node EXCEPT ![tail].next = tail + 1,
                            ![tail + 1].next = Null,
                            ![tail + 1].placeholder = TRUE]
    /\ UNCHANGED << freedNodes, head, tail, wlock, param, active, draining,
                    value >>

\* cur_tail->is_placeholder = false
Publish(p) ==
    /\ Goto(p, "publish", "advance")
    /\ node' = [node EXCEPT ![tail].placeholder = FALSE]
    /\ UNCHANGED << freedNodes, head, tail, wlock, param, active, draining,
                    value >>

\* ts_list.tail = new_tail, unlock
Advance(p) ==
    /\ Goto(p, "advance", "test")
    /\ tail' = tail + 1
    /\ wlock' = NoThread
    /\ UNCHANGED << node, freedNodes, head, param, active, draining, value >>

\* event_active does nothing if the event is active ...
ActivateTest(p) ==
    /\ Goto(p, "test", IF active THEN "out" ELSE "activate")
    /\ UNCHANGED << node, freedNodes, head, tail, wlock, param, active,
                    draining, value >>

\* ... and makes it active otherwise.
Activate(p) ==
    /\ Goto(p, "activate", "out")
    /\ active' = TRUE
    /\ UNCHANGED << node, freedNodes, head, tail, wlock, param, draining,
                    value >>

Produce(p) ==
    \/ Lock(p) \/ Fill(p) \/ Link(p) \/ Publish(p) \/ Advance(p)
    \/ ActivateTest(p) \/ Activate(p)

-----------------------------------------------------------------------------
(* The event loop *)

\* The loop takes custom_event off its active queue and calls custom_event_cb.
RunCustom ==
    /\ active /\ ~draining
    /\ active' = FALSE
    /\ draining' = TRUE
    /\ UNCHANGED << node, freedNodes, head, tail, wlock, ppc, param, value >>

\* Mutant of Consume: one event for each activation.
Consume_Once ==
    /\ draining
    /\ ~node[head].placeholder
    /\ value' = node[head].event
    /\ head' = node[head].next
    /\ freedNodes' = freedNodes \cup {head}
    /\ draining' = FALSE
    /\ UNCHANGED << node, tail, wlock, ppc, param, active >>

\* list_consume, when the head is not a placeholder.
Consume ==
    /\ draining
    /\ ~node[head].placeholder
    /\ value' = node[head].event
    /\ head' = node[head].next
    /\ freedNodes' = freedNodes \cup {head}
    /\ UNCHANGED << node, tail, wlock, ppc, param, active, draining >>

\* list_consume finds the placeholder and custom_event_cb returns.
Drained ==
    /\ draining
    /\ node[head].placeholder
    /\ draining' = FALSE
    /\ UNCHANGED << node, freedNodes, head, tail, wlock, ppc, param, active,
                    value >>

-----------------------------------------------------------------------------
(* Properties *)

\* The nodes from the head on that are not placeholders.
Published ==
    {n \in Nodes : /\ head <= n
                   /\ \A m \in head .. n : ~node[m].placeholder /\ m <= tail}

\* Neither side touches a node that was freed: not the consumer, and not a
\* producer that is filling the tail while the consumer catches up with it.
NodesAlive ==
    /\ head \notin freedNodes
    /\ (\E p \in Producers : ppc[p] \in {"fill", "link", "publish"})
         => tail \notin freedNodes

\* Events come out of the list whole, once and in order, although the
\* consumer does not take the lock (EventQueue).
Fifo == INSTANCE EventQueue WITH
    queue <- [k \in 1 .. Cardinality(Published) |-> node[head + k - 1].event],
    delivered <- value

ImplementsEventQueue == Fifo!EQSpec

\* Every event that was triggered is handled, also one that is appended while
\* custom_event_cb is about to return.
EventsHandled == \A n \in Nodes : n \in Published ~> n \in freedNodes
=============================================================================
