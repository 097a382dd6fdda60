--------------------------- MODULE WhitelistProofs ---------------------------
(***************************************************************************)
(* Proofs about Whitelist and the list of events below it (EventList).     *)
(* The list without a lock on the consumer's side is correct because its   *)
(* last node is always a placeholder; End is the number of that node.  The *)
(* lists of addresses are numbered as they are loaded, and what is on its  *)
(* way to the event loop is newer than what the event loop has.            *)
(***************************************************************************)
EXTENDS Whitelist, FiniteSetTheorems, SequenceTheorems, TLAPS

-----------------------------------------------------------------------------
(* The inductive invariant of the list of events *)

\* The node at which the consumer stops: a producer that has published the
\* tail has not moved ts_list.tail yet.
End == IF wlock # NoThread /\ ppc[wlock] = "advance" THEN tail + 1 ELSE tail

InList(p) == ppc[p] \in {"fill", "link", "publish", "advance"}

\* list_wlock is held by whoever is inside.
Locked == \A p \in Producers : InList(p) <=> wlock = p

\* There are nodes for all who have been let in.
Room == IsFiniteSet(Entered) /\ tail + Cardinality(Entered) <= MaxEvents

\* What was published is whole, linked to the next node, and ends with a
\* placeholder.
Whole ==
    /\ End \in Nodes
    /\ node[End].placeholder
    /\ \A n \in 0 .. End - 1 :
         /\ ~node[n].placeholder
         /\ node[n].next = n + 1
         /\ node[n].event \in Events

\* How far a producer has got with the tail.
Filling ==
    \A p \in Producers :
        /\ p \in Entered => param[p] \in Events
        /\ ppc[p] \in {"link", "publish"} => node[tail].event = param[p]
        /\ ppc[p] = "publish" =>
             node[tail].next = tail + 1 /\ node[tail + 1].placeholder

\* The consumer is not ahead of the producers, and has freed what it passed.
Consumed == head <= End /\ freedNodes = 0 .. head - 1

ListInv == ListTypeOK /\ Locked /\ Room /\ Whole /\ Filling /\ Consumed

-----------------------------------------------------------------------------
(* The inductive invariant of the lists of addresses *)

\* The list in force is the last that was loaded, and each was loaded for a
\* later modification time than the one before: there are no more lists than
\* changes of the file.
Loaded ==
    /\ version \in 0 .. MaxChanges /\ readable \in BOOLEAN
    /\ modified \in 0 .. version /\ first \in 0 .. version
    /\ mtime \in 0 .. MaxChanges
    /\ cpc \in {"sleep", "stat", "open", "tell", "tellNull"}
    /\ lists \in Seq([contents : 0 .. MaxChanges, mtime : 0 .. MaxChanges])
    /\ static = Len(lists)
    /\ static # 0 => lists[static].mtime >= static - 1
    /\ cpc # "sleep" => static # 0 /\ ppc[Checker] = "out"
    /\ cpc = "stat" => modified > lists[static].mtime
    /\ cpc = "open" => mtime > lists[static].mtime

WLInv == ListInv /\ Loaded

\* The thread has a list in force that the event loop does not know of yet.
Telling == cpc = "tell" \/ ppc[Checker] \in {"lock", "fill", "link", "publish"}

\* What is on its way is newer than what the event loop has, in this order,
\* and not newer than what is in force; what was freed is older.
Newer ==
    /\ global \in 0 .. static
    /\ freedLists \subseteq 1 .. global - 1
    /\ \A n \in head .. End - 1 :
         \/ node[n].event = Other
         \/ /\ node[n].event \in global + 1 .. static
            /\ Telling => node[n].event < static
    /\ \A m, n \in head .. End - 1 :
         m < n => \/ node[m].event = Other \/ node[n].event = Other
                  \/ node[m].event < node[n].event
    /\ Telling => global < static

\* What producers have in hand: the thread the list in force.
InHand ==
    /\ ppc[Checker] \in {"lock", "fill", "link", "publish"} =>
         param[Checker] = static
    /\ \A p \in Producers \ {Checker} : p \in Entered => param[p] = Other

\* A file that goes only while the thread is asleep is there when it is loaded.
Readable == cpc \in {"stat", "open"} => readable

SafeInv == WLInv /\ Newer /\ InHand /\ Readable /\ cpc # "tellNull"

-----------------------------------------------------------------------------
(* What the steps do to the events that wait *)

\* The events that wait stay as they are.
Stays ==
    /\ End' = End /\ head' = head /\ value' = value
    /\ \A n \in 0 .. End - 1 : node'[n].event = node[n].event

\* The event of p joins them.
Grows(p) ==
    /\ End' = End + 1 /\ head' = head /\ value' = value
    /\ \A n \in 0 .. End - 1 : node'[n].event = node[n].event
    /\ node'[End].event = param[p]

\* The first of them is taken.
Shrinks ==
    /\ head < End
    /\ End' = End /\ head' = head + 1
    /\ node' = node
    /\ value' = node[head].event

-----------------------------------------------------------------------------
(* The list of events *)

LEMMA ListInvInit == ListInit => ListInv
  <1> SUFFICES ASSUME ListInit
               PROVE  ListInv
    OBVIOUS
  <1>0. 0 \in Nodes
    BY EventListAssumption DEF Nodes
  <1>1. ListTypeOK
    <2>1. node \in [Nodes -> NodeType]
      BY DEF ListInit, NodeType, Null
    <2> QED
      BY <1>0, <2>1 DEF ListInit, ListTypeOK
  <1>2. End = 0
    BY DEF ListInit, End
  <1>3. Entered = {}
    BY DEF ListInit, Entered
  <1>4. Room
    BY <1>3, FS_EmptySet, EventListAssumption DEF Room, ListInit
  <1>5. Locked
    BY EventListAssumption DEF ListInit, Locked, InList
  <1>6. Whole
    <2>1. node[0].placeholder
      BY <1>0 DEF ListInit
    <2> QED
      BY <1>0, <1>2, <2>1 DEF Whole
  <1>7. Filling
    BY <1>3 DEF Filling, ListInit
  <1>8. Consumed
    BY <1>2 DEF Consumed, ListInit
  <1> QED
    BY <1>1, <1>4, <1>5, <1>6, <1>7, <1>8 DEF ListInv

\* The lock is passed on and the end of the list does not move when a producer
\* goes from one place to another, unless it publishes.
LEMMA EndKept ==
    ASSUME ListInv, NEW p \in Producers, NEW from, NEW to,
           Goto(p, from, to), from # "advance", to # "advance",
           UNCHANGED << wlock, tail >>
    PROVE  End' = End
  BY DEF Goto, ListInv, ListTypeOK, End, Locked, InList

LEMMA TriggerOK ==
    ASSUME ListInv, NEW p \in Producers, NEW e \in Events, Trigger(p, e)
    PROVE  ListInv' /\ Stays
  <1>1. End' = End
    BY EndKept DEF Trigger
  <1>2. /\ ListTypeOK'
        /\ ppc'[p] = "lock" /\ param'[p] = e
        /\ \A q \in Producers \ {p} : ppc'[q] = ppc[q] /\ param'[q] = param[q]
    BY DEF ListInv, ListTypeOK, Trigger, Goto
  <1>3. Locked'
    BY <1>2 DEF ListInv, Locked, InList, Trigger, Goto
  <1>4. Entered' = Entered \cup {p} /\ p \notin Entered
    BY <1>2 DEF Entered, Trigger, Goto
  <1>5. /\ IsFiniteSet(Entered')
        /\ Cardinality(Entered') = Cardinality(Entered) + 1
        /\ Cardinality(Entered) \in Nat
    BY <1>4, FS_AddElement, FS_CardinalityType DEF ListInv, Room
  <1>6. Room'
    BY <1>5, EventListAssumption DEF Room, Trigger, ListInv, ListTypeOK, Nodes
  <1>7. Whole'
    BY <1>1 DEF ListInv, Whole, Trigger, Nodes
  <1>8. Filling'
    BY <1>2, <1>4 DEF ListInv, Filling, Trigger
  <1>9. Consumed'
    BY <1>1 DEF ListInv, Consumed, Trigger
  <1> QED
    BY <1>1, <1>2, <1>3, <1>6, <1>7, <1>8, <1>9 DEF ListInv, Stays, Trigger

LEMMA LockOK ==
    ASSUME ListInv, NEW p \in Producers, Lock(p)
    PROVE  ListInv' /\ Stays
  <1>1. /\ ListTypeOK'
        /\ ppc[p] = "lock" /\ ppc'[p] = "fill"
        /\ \A q \in Producers \ {p} : ppc'[q] = ppc[q]
    BY DEF ListInv, ListTypeOK, Lock, Goto
  <1>2. End' = End
    BY <1>1, EventListAssumption DEF Lock, End
  <1>3. Locked'
    BY <1>1, EventListAssumption DEF ListInv, Locked, InList, Lock
  <1>4. Entered' = Entered
    BY <1>1 DEF Entered
  <1>5. Room'
    BY <1>4 DEF ListInv, Room, Lock
  <1>6. Whole'
    BY <1>2 DEF ListInv, Whole, Lock, Nodes
  <1>7. Filling'
    BY <1>1, <1>4 DEF ListInv, Filling, Lock
  <1>8. Consumed'
    BY <1>2 DEF ListInv, Consumed, Lock
  <1> QED
    BY <1>1, <1>2, <1>3, <1>5, <1>6, <1>7, <1>8 DEF ListInv, Stays, Lock

\* Whoever has the lock is alone with the tail, and there is a node for it.
LEMMA Alone ==
    ASSUME ListInv, NEW p \in Producers, InList(p)
    PROVE  /\ wlock = p
           /\ \A q \in Producers \ {p} : ~InList(q)
           /\ tail \in Nodes /\ tail + 1 \in Nodes /\ tail \in Nat
           /\ ppc[p] # "advance" => End = tail
           /\ ppc[p] = "advance" => End = tail + 1
  <1>1. wlock = p /\ \A q \in Producers \ {p} : ~InList(q)
    BY DEF ListInv, Locked
  <1>2. p \in Entered
    BY DEF Entered, InList
  <1>3. Cardinality(Entered) \in Nat /\ Cardinality(Entered) # 0
    BY <1>2, FS_CardinalityType, FS_EmptySet DEF ListInv, Room
  <1>4. tail \in Nat /\ tail + 1 \in Nodes /\ tail \in Nodes
    BY <1>3, EventListAssumption DEF ListInv, Room, ListTypeOK, Nodes
  <1> QED
    BY <1>1, <1>4, EventListAssumption DEF End

LEMMA FillOK ==
    ASSUME ListInv, NEW p \in Producers, Fill(p)
    PROVE  ListInv' /\ Stays
  <1>1. /\ ppc[p] = "fill" /\ ppc'[p] = "link"
        /\ \A q \in Producers \ {p} : ppc'[q] = ppc[q]
    BY DEF ListInv, ListTypeOK, Fill, Goto
  <1>2. /\ wlock = p /\ End = tail /\ tail \in Nodes
        /\ \A q \in Producers \ {p} : ~InList(q)
    BY <1>1, Alone DEF InList
  <1>3. End' = End
    BY EndKept DEF Fill
  <1>4. Entered' = Entered /\ p \in Entered
    BY <1>1 DEF Entered
  <1>5. param[p] \in Events
    BY <1>4 DEF ListInv, Filling
  <1>6. /\ node'[tail] = [node[tail] EXCEPT !.event = param[p]]
        /\ node[tail] \in NodeType
        /\ \A n \in Nodes \ {tail} : node'[n] = node[n]
    BY <1>2 DEF ListInv, ListTypeOK, Fill
  <1>7. ListTypeOK'
    <2>1. node' \in [Nodes -> NodeType]
      BY <1>2, <1>5 DEF ListInv, ListTypeOK, Fill, NodeType
    <2> QED
      BY <2>1 DEF ListInv, ListTypeOK, Fill, Goto
  <1>8. Locked'
    BY <1>1 DEF ListInv, Locked, InList, Fill
  <1>9. Room'
    BY <1>4 DEF ListInv, Room, Fill
  <1>10. \A n \in 0 .. End - 1 : n \in Nodes /\ node'[n] = node[n]
    BY <1>2, <1>6, EventListAssumption DEF Nodes
  <1>11. Whole'
    BY <1>2, <1>3, <1>6, <1>10 DEF ListInv, Whole, NodeType
  <1>12. Filling'
    BY <1>1, <1>2, <1>4, <1>6 DEF ListInv, Filling, Fill, InList, NodeType
  <1>13. Consumed'
    BY <1>3 DEF ListInv, Consumed, Fill
  <1> QED
    BY <1>3, <1>7, <1>8, <1>9, <1>10, <1>11, <1>12, <1>13
    DEF ListInv, Stays, Fill

LEMMA LinkOK ==
    ASSUME ListInv, NEW p \in Producers, Link(p)
    PROVE  ListInv' /\ Stays
  <1>1. /\ ppc[p] = "link" /\ ppc'[p] = "publish"
        /\ \A q \in Producers \ {p} : ppc'[q] = ppc[q]
    BY DEF ListInv, ListTypeOK, Link, Goto
  <1>2. /\ wlock = p /\ End = tail /\ tail \in Nodes /\ tail + 1 \in Nodes
        /\ tail \in Nat
        /\ \A q \in Producers \ {p} : ~InList(q)
    BY <1>1, Alone DEF InList
  <1>3. End' = End
    BY EndKept DEF Link
  <1>4. Entered' = Entered /\ p \in Entered
    BY <1>1 DEF Entered
  <1>5. /\ node'[tail] = [node[tail] EXCEPT !.next = tail + 1]
        /\ node'[tail + 1] = [node[tail + 1] EXCEPT !.next = Null,
                                                    !.placeholder = TRUE]
        /\ node[tail] \in NodeType /\ node[tail + 1] \in NodeType
        /\ \A n \in Nodes \ {tail, tail + 1} : node'[n] = node[n]
    <2>1. tail # tail + 1
      BY <1>2
    <2> QED
      BY <1>2, <2>1 DEF ListInv, ListTypeOK, Link
  <1>6. /\ node'[tail].event = node[tail].event
        /\ node'[tail].next = tail + 1
        /\ node'[tail].placeholder = node[tail].placeholder
        /\ node'[tail + 1].placeholder
        /\ node'[tail] \in NodeType /\ node'[tail + 1] \in NodeType
    BY <1>2, <1>5 DEF NodeType
  <1>7. ListTypeOK'
    <2>1. \A n \in Nodes : node'[n] \in NodeType
      BY <1>5, <1>6 DEF ListInv, ListTypeOK
    <2>2. node' = [n \in Nodes |-> node'[n]]
      BY DEF ListInv, ListTypeOK, Link
    <2>3. node' \in [Nodes -> NodeType]
      BY <2>1, <2>2
    <2> QED
      BY <2>3 DEF ListInv, ListTypeOK, Link, Goto
  <1>8. Locked'
    BY <1>1 DEF ListInv, Locked, InList, Link
  <1>9. Room'
    BY <1>4 DEF ListInv, Room, Link
  <1>10. \A n \in 0 .. End - 1 : n \in Nodes /\ node'[n] = node[n]
    BY <1>2, <1>5, EventListAssumption DEF Nodes
  <1>11. Whole'
    BY <1>2, <1>3, <1>6, <1>10 DEF ListInv, Whole
  <1>12. Filling'
    BY <1>1, <1>2, <1>4, <1>6 DEF ListInv, Filling, Link, InList
  <1>13. Consumed'
    BY <1>3 DEF ListInv, Consumed, Link
  <1> QED
    BY <1>3, <1>7, <1>8, <1>9, <1>10, <1>11, <1>12, <1>13
    DEF ListInv, Stays, Link

LEMMA PublishOK ==
    ASSUME ListInv, NEW p \in Producers, Publish(p)
    PROVE  ListInv' /\ Grows(p)
  <1>1. /\ ppc[p] = "publish" /\ ppc'[p] = "advance"
        /\ \A q \in Producers \ {p} : ppc'[q] = ppc[q]
    BY DEF ListInv, ListTypeOK, Publish, Goto
  <1>2. /\ wlock = p /\ End = tail /\ tail \in Nodes /\ tail + 1 \in Nodes
        /\ tail \in Nat
        /\ \A q \in Producers \ {p} : ~InList(q)
    BY <1>1, Alone DEF InList
  <1>3. End' = End + 1
    BY <1>1, <1>2, EventListAssumption DEF Publish, End
  <1>4. Entered' = Entered /\ p \in Entered
    BY <1>1 DEF Entered
  <1>5. /\ node'[tail] = [node[tail] EXCEPT !.placeholder = FALSE]
        /\ node[tail] \in NodeType
        /\ \A n \in Nodes \ {tail} : node'[n] = node[n]
    BY <1>2 DEF ListInv, ListTypeOK, Publish
  <1>6. /\ node'[tail].event = param[p] /\ param[p] \in Events
        /\ node'[tail].next = tail + 1
        /\ ~node'[tail].placeholder
        /\ node'[tail + 1].placeholder
    BY <1>1, <1>2, <1>4, <1>5 DEF NodeType, ListInv, Filling
  <1>7. ListTypeOK'
    <2>1. node' \in [Nodes -> NodeType]
      BY <1>2 DEF ListInv, ListTypeOK, Publish, NodeType
    <2> QED
      BY <2>1 DEF ListInv, ListTypeOK, Publish, Goto
  <1>8. Locked'
    BY <1>1 DEF ListInv, Locked, InList, Publish
  <1>9. Room'
    BY <1>4 DEF ListInv, Room, Publish
  <1>10. \A n \in 0 .. End - 1 : n \in Nodes /\ node'[n] = node[n]
    BY <1>2, <1>5, EventListAssumption DEF Nodes
  <1>11. Whole'
    <2>1. \A n \in 0 .. End' - 1 : n = tail \/ n \in 0 .. End - 1
      BY <1>2, <1>3
    <2> QED
      BY <1>2, <1>3, <1>6, <1>10, <2>1 DEF ListInv, Whole
  <1>12. Filling'
    BY <1>1, <1>2, <1>4 DEF ListInv, Filling, Publish, InList
  <1>13. Consumed'
    BY <1>2, <1>3, EventListAssumption
    DEF ListInv, ListTypeOK, Nodes, Consumed, Publish
  <1> QED
    BY <1>2, <1>3, <1>6, <1>7, <1>8, <1>9, <1>10, <1>11, <1>12, <1>13
    DEF ListInv, Grows, Publish

LEMMA AdvanceOK ==
    ASSUME ListInv, NEW p \in Producers, Advance(p)
    PROVE  ListInv' /\ Stays
  <1>1. /\ ppc[p] = "advance" /\ ppc'[p] = "test"
        /\ \A q \in Producers \ {p} : ppc'[q] = ppc[q]
    BY DEF ListInv, ListTypeOK, Advance, Goto
  <1>2. /\ wlock = p /\ End = tail + 1 /\ tail + 1 \in Nodes /\ tail \in Nat
        /\ \A q \in Producers \ {p} : ~InList(q)
    BY <1>1, Alone DEF InList
  <1>3. End' = End
    BY <1>2 DEF Advance, End
  <1>4. Entered' = Entered \ {p} /\ p \in Entered
    BY <1>1 DEF Entered
  <1>5. /\ IsFiniteSet(Entered')
        /\ Cardinality(Entered') = Cardinality(Entered) - 1
        /\ Cardinality(Entered) \in Nat
    BY <1>4, FS_RemoveElement, FS_CardinalityType DEF ListInv, Room
  <1>6. Room'
    BY <1>2, <1>5, EventListAssumption DEF ListInv, Room, Advance
  <1>7. ListTypeOK'
    BY <1>2 DEF ListInv, ListTypeOK, Advance, Goto
  <1>8. Locked'
    BY <1>1, <1>2, EventListAssumption DEF Locked, InList, Advance
  <1>9. Whole'
    BY <1>3 DEF ListInv, Whole, Advance, Nodes
  <1>10. Filling'
    BY <1>1, <1>2, <1>4 DEF ListInv, Filling, Advance, InList
  <1>11. Consumed'
    BY <1>3 DEF ListInv, Consumed, Advance
  <1> QED
    BY <1>3, <1>6, <1>7, <1>8, <1>9, <1>10, <1>11 DEF ListInv, Stays, Advance

LEMMA ActivateOK ==
    ASSUME ListInv, NEW p \in Producers, ActivateTest(p) \/ Activate(p)
    PROVE  ListInv' /\ Stays
  <1>1. PICK to \in {"activate", "out"} :
          \/ Goto(p, "test", to)
          \/ Goto(p, "activate", to)
    BY DEF ActivateTest, Activate
  <1>2. /\ ppc[p] \in {"test", "activate"} /\ ppc'[p] \in {"activate", "out"}
        /\ \A q \in Producers \ {p} : ppc'[q] = ppc[q]
    BY <1>1 DEF Goto, ListInv, ListTypeOK
  <1>3. /\ UNCHANGED << node, freedNodes, head, tail, wlock, param, value >>
        /\ active' \in BOOLEAN /\ UNCHANGED draining
    BY DEF ActivateTest, Activate, ListInv, ListTypeOK
  <1>4. End' = End
    BY <1>1, <1>3, EndKept
  <1>5. ListTypeOK'
    BY <1>1, <1>3 DEF ListInv, ListTypeOK, Goto
  <1>6. Locked'
    BY <1>2, <1>3 DEF ListInv, Locked, InList
  <1>7. Entered' = Entered /\ p \notin Entered
    BY <1>2 DEF Entered
  <1>8. Room'
    BY <1>3, <1>7 DEF ListInv, Room
  <1>9. Whole'
    BY <1>3, <1>4 DEF ListInv, Whole, Nodes
  <1>10. Filling'
    BY <1>2, <1>3, <1>7 DEF ListInv, Filling
  <1>11. Consumed'
    BY <1>3, <1>4 DEF ListInv, Consumed
  <1> QED
    BY <1>3, <1>4, <1>5, <1>6, <1>8, <1>9, <1>10, <1>11 DEF ListInv, Stays

LEMMA ConsumeOK ==
    ASSUME ListInv, Consume
    PROVE  ListInv' /\ Shrinks
  <1>1. End \in Nat /\ head \in Nat /\ End \in Nodes
    BY EventListAssumption DEF ListInv, ListTypeOK, Whole, Nodes
  <1>2. head < End
    BY <1>1 DEF Consume, ListInv, Consumed, Whole
  <1>3. /\ head \in 0 .. End - 1
        /\ node[head].next = head + 1 /\ node[head].event \in Events
    BY <1>1, <1>2 DEF ListInv, Whole
  <1>4. End' = End /\ head' = head + 1
    BY <1>3 DEF Consume, End
  <1>5. freedNodes' = 0 .. head' - 1 /\ freedNodes' \subseteq Nodes
        /\ head' \in Nodes
    BY <1>1, <1>2, <1>4, EventListAssumption
    DEF Consume, ListInv, Consumed, Nodes
  <1>6. ListTypeOK'
    BY <1>3, <1>5 DEF ListInv, ListTypeOK, Consume
  <1>7. Locked' /\ Room' /\ Filling'
    <2>1. Entered' = Entered
      BY DEF Entered, Consume
    <2> QED
      BY <2>1 DEF ListInv, Locked, InList, Room, Filling, Consume
  <1>8. Whole'
    BY <1>4 DEF ListInv, Whole, Consume, Nodes
  <1>9. Consumed'
    BY <1>1, <1>2, <1>4, <1>5 DEF Consumed
  <1> QED
    BY <1>2, <1>4, <1>6, <1>7, <1>8, <1>9 DEF ListInv, Shrinks, Consume

LEMMA LoopOK ==
    ASSUME ListInv, RunCustom \/ Drained \/ UNCHANGED listVars
    PROVE  ListInv' /\ Stays
  <1>1. /\ UNCHANGED << node, freedNodes, head, tail, wlock, ppc, param, value >>
        /\ active' \in BOOLEAN /\ draining' \in BOOLEAN
    BY DEF RunCustom, Drained, listVars, ListInv, ListTypeOK
  <1>2. End' = End /\ Entered' = Entered
    BY <1>1 DEF End, Entered
  <1> QED
    BY <1>1, <1>2
    DEF ListInv, ListTypeOK, Locked, InList, Room, Whole, Filling, Consumed, Nodes,
        Stays

\* What is published is what lies between the head and the placeholder.
LEMMA PublishedRange ==
    ASSUME ListInv
    PROVE  /\ Published = head .. End - 1
           /\ Cardinality(Published) = End - head
           /\ End - head \in Nat /\ head \in Nat
  <1>1. /\ head \in Nat /\ tail \in Nat /\ End \in Nat /\ MaxEvents \in Nat
        /\ End <= MaxEvents /\ head <= End /\ End \in {tail, tail + 1}
        /\ node[End].placeholder
        /\ \A n \in 0 .. End - 1 : ~node[n].placeholder
    BY EventListAssumption
    DEF ListInv, ListTypeOK, Whole, Consumed, Nodes, End
  <1>2. ASSUME NEW n \in Nodes, head <= n, n < End
        PROVE  n \in Published
    <2>1. \A m \in head .. n : m \in 0 .. End - 1 /\ m <= tail
      BY <1>1, <1>2 DEF Nodes
    <2> QED
      BY <1>1, <1>2, <2>1 DEF Published
  <1>3. ASSUME NEW n \in Published
        PROVE  n \in head .. End - 1
    <2>1. n \in Nat /\ head <= n /\ \A m \in head .. n : ~node[m].placeholder
      BY DEF Published, Nodes
    <2>2. ~(End <= n)
      BY <1>1, <2>1
    <2> QED
      BY <1>1, <2>1, <2>2
  <1>4. \A n \in head .. End - 1 : n \in Nodes /\ head <= n /\ n < End
    BY <1>1 DEF Nodes
  <1>5. Published = head .. End - 1
    BY <1>2, <1>3, <1>4
  <1>6. Cardinality(head .. End - 1) = End - head
    <2>1. Cardinality(head .. End - 1)
            = IF head > End - 1 THEN 0 ELSE (End - 1) - head + 1
      BY <1>1, FS_Interval
    <2> QED
      BY <1>1, <2>1
  <1> QED
    BY <1>1, <1>5, <1>6

-----------------------------------------------------------------------------
(* The lists of addresses *)

LEMMA WLInvInit == WLInit => WLInv
  <1> SUFFICES ASSUME WLInit
               PROVE  WLInv
    OBVIOUS
  <1>1. ListInv
    BY ListInvInit DEF WLInit
  <1>2. CASE lists = << [contents |-> 0, mtime |-> 0] >> /\ static = 1 /\ global = 1
    <2>1. Len(lists) = 1 /\ lists[1].mtime = 0
      BY <1>2
    <2>2. lists \in Seq([contents : 0 .. MaxChanges, mtime : 0 .. MaxChanges])
      BY <1>2, WhitelistAssumption
    <2> QED
      BY <1>1, <1>2, <2>1, <2>2, WhitelistAssumption DEF WLInit, Loaded, WLInv
  <1>3. CASE lists = << >> /\ static = 0 /\ global = 0
    BY <1>1, <1>3, WhitelistAssumption DEF WLInit, Loaded, WLInv
  <1> QED
    BY <1>2, <1>3 DEF WLInit

\* The time of the list in force.
LEMMA StaticTime ==
    ASSUME Loaded, static # 0
    PROVE  /\ static \in Nat \ {0} /\ static = Len(lists)
           /\ lists[static].mtime \in 0 .. MaxChanges
  <1>1. static \in Nat \ {0} /\ static \in DOMAIN lists
    BY DEF Loaded
  <1>2. lists[static] \in [contents : 0 .. MaxChanges, mtime : 0 .. MaxChanges]
    <2> DEFINE T == [contents : 0 .. MaxChanges, mtime : 0 .. MaxChanges]
    <2>1. lists \in Seq(T)
      BY DEF Loaded
    <2> HIDE DEF T
    <2>2. lists[static] \in T
      BY <1>1, <2>1
    <2> QED
      BY <2>2 DEF T
  <1> QED
    BY <1>1, <1>2 DEF Loaded

\* There are never more lists than events that tell of them.
LEMMA StaticIsEvent ==
    ASSUME Loaded
    PROVE  static \in Events /\ 0 \in Events /\ static \in 0 .. MaxChanges + 1
  <1>1. CASE static = 0
    BY <1>1, WhitelistAssumption
  <1>2. CASE static # 0
    <2> QED
      BY <1>2, StaticTime, WhitelistAssumption DEF Loaded
  <1> QED
    BY <1>1, <1>2

\* A step of the list of events by another thread or by the event loop leaves
\* the thread where it is.
LEMMA OthersOK ==
    ASSUME WLInv, UNCHANGED << fileVars, lists, static, cpc, mtime >>,
           cpc # "sleep" => ppc'[Checker] = "out"
    PROVE  Loaded'
  BY DEF WLInv, Loaded, fileVars

\* A producer that is not in event_trigger does not move.
LEMMA OutStays ==
    ASSUME ListInv, NEW p \in Producers, NEW q \in Producers, ppc[q] = "out",
           \/ Produce(p)
           \/ p # q /\ \E e \in Events : Trigger(p, e)
    PROVE  ppc'[q] = "out"
  <1>1. CASE p = q
    BY <1>1 DEF Produce, Lock, Fill, Link, Publish, Advance, ActivateTest, Activate,
                Goto
  <1>2. CASE p # q
    BY <1>2 DEF Produce, Lock, Fill, Link, Publish, Advance, ActivateTest, Activate,
                Goto, Trigger, ListInv, ListTypeOK
  <1> QED
    BY <1>1, <1>2

\* Every step keeps the list of events, with one of the three effects.
LEMMA ProduceOK ==
    ASSUME ListInv, NEW p \in Producers, Produce(p)
    PROVE  /\ ListInv'
           /\ Stays \/ (Grows(p) /\ ppc[p] = "publish")
  BY LockOK, FillOK, LinkOK, PublishOK, AdvanceOK, ActivateOK
  DEF Produce, Publish, Goto

LEMMA WLStep ==
    ASSUME WLInv, [WLNext]_wlVars
    PROVE  /\ WLInv'
           /\ \/ Stays
              \/ \E p \in Producers : Grows(p) /\ ppc[p] = "publish"
              \/ Shrinks
  <1> USE DEF WLInv
  <1>1. CASE Change
    <2>1. UNCHANGED listVars
      BY <1>1 DEF Change
    <2>2. ListInv' /\ Stays
      BY <2>1, LoopOK
    <2>3. Loaded'
      BY <1>1, WhitelistAssumption, StaticTime DEF Change, Loaded, listVars
    <2> QED
      BY <2>2, <2>3
  <1>2. CASE Vanish
    <2>1. UNCHANGED listVars
      BY <1>2 DEF Vanish
    <2>2. ListInv' /\ Stays
      BY <2>1, LoopOK
    <2>3. Loaded'
      BY <1>2 DEF Vanish, Loaded, listVars
    <2> QED
      BY <2>2, <2>3
  <1>3. CASE Check
    <2>1. UNCHANGED listVars
      BY <1>3 DEF Check, fileVars
    <2>2. ListInv' /\ Stays
      BY <2>1, LoopOK
    <2>3. Loaded'
      BY <1>3, StaticTime, WhitelistAssumption DEF Check, Loaded, listVars, fileVars
    <2> QED
      BY <2>2, <2>3
  <1>4. CASE Stat
    <2>1. UNCHANGED listVars
      BY <1>4 DEF Stat, fileVars
    <2>2. ListInv' /\ Stays
      BY <2>1, LoopOK
    <2>3. Loaded'
      BY <1>4, StaticTime, WhitelistAssumption DEF Stat, Loaded, listVars, fileVars
    <2> QED
      BY <2>2, <2>3
  <1>5. CASE OpenAndRead
    <2>1. ListInv' /\ Stays
      BY <1>5, LoopOK DEF OpenAndRead, fileVars
    <2>2. CASE readable
      <3> DEFINE new == [contents |-> version, mtime |-> mtime]
      <3>1. /\ static \in Nat \ {0} /\ static = Len(lists)
            /\ lists[static].mtime \in Nat /\ mtime \in Nat
            /\ mtime > lists[static].mtime /\ lists[static].mtime >= static - 1
        BY <1>5, <2>2, StaticTime, WhitelistAssumption DEF OpenAndRead, Loaded, fileVars
      <3>2. /\ lists' = Append(lists, new) /\ static' = Len(lists') /\ cpc' = "tell"
        BY <1>5, <2>2 DEF OpenAndRead, fileVars
      <3>3. /\ lists' \in Seq([contents : 0 .. MaxChanges, mtime : 0 .. MaxChanges])
            /\ static' = static + 1 /\ lists'[static'] = new
        BY <3>1, <3>2 DEF Loaded
      <3>4. lists'[static'].mtime >= static' - 1
        BY <3>1, <3>3
      <3> QED
        BY <1>5, <2>1, <3>2, <3>3, <3>4 DEF OpenAndRead, Loaded, listVars, fileVars
    <2>3. CASE ~readable
      BY <1>5, <2>1, <2>3 DEF OpenAndRead, Loaded, listVars, fileVars
    <2> QED
      BY <2>2, <2>3
  <1>6. CASE Tell
    <2>1. ListInv' /\ Stays
      BY <1>6, TriggerOK, StaticIsEvent, WhitelistAssumption DEF Tell, fileVars
    <2> QED
      BY <1>6, <2>1 DEF Tell, Loaded, fileVars
  <1>7. CASE Handle
    <2>1. ListInv' /\ Shrinks
      BY <1>7, ConsumeOK DEF Handle, fileVars
    <2>2. Loaded'
      BY <1>7 DEF Handle, Consume, Loaded, fileVars
    <2> QED
      BY <2>1, <2>2
  <1>8. CASE RunCustom /\ UNCHANGED ownVars
    BY <1>8, LoopOK DEF RunCustom, ownVars, Loaded, fileVars
  <1>9. CASE Drained /\ UNCHANGED ownVars
    BY <1>9, LoopOK DEF Drained, ownVars, Loaded, fileVars
  <1>10. ASSUME NEW p \in Producers, Elsewhere(p), UNCHANGED ownVars
         PROVE  WLInv' /\ Stays
    <2>1. Other \in Events
      BY WhitelistAssumption
    <2>2. ListInv' /\ Stays
      BY <1>10, <2>1, TriggerOK DEF Elsewhere
    <2>3. cpc # "sleep" => ppc'[Checker] = "out"
      BY <1>10, <2>1, OutStays, WhitelistAssumption DEF Elsewhere, Loaded
    <2> QED
      BY <1>10, <2>2, <2>3, OthersOK DEF ownVars, fileVars
  <1>11. ASSUME NEW p \in Producers, Produce(p), UNCHANGED ownVars
         PROVE  WLInv' /\ (Stays \/ (Grows(p) /\ ppc[p] = "publish"))
    <2>1. cpc # "sleep" => ppc'[Checker] = "out"
      BY <1>11, OutStays, WhitelistAssumption DEF Loaded
    <2> QED
      BY <1>11, <2>1, ProduceOK, OthersOK DEF ownVars, fileVars
  <1>12. CASE UNCHANGED wlVars
    BY <1>12, LoopOK DEF wlVars, ownVars, listVars, Loaded, fileVars
  <1> QED
    BY <1>1, <1>2, <1>3, <1>4, <1>5, <1>6, <1>7, <1>8, <1>9, <1>10, <1>11, <1>12
    DEF WLNext

LEMMA WLInvAlways == WLSpec => []WLInv
  BY WLInvInit, WLStep, PTL DEF WLSpec

\* The consumer reads no node that it has freed, and a producer that is filling
\* the tail writes to none, although the consumer does not take the lock
\* (list_produce, list_consume).
THEOREM NodesStayAlive == WLSpec => []NodesAlive
  <1>1. ListInv => NodesAlive
    <2> SUFFICES ASSUME ListInv
                 PROVE  NodesAlive
      OBVIOUS
    <2>1. head \in Nat /\ head \notin freedNodes
      BY DEF ListInv, ListTypeOK, Consumed, Nodes
    <2>2. ASSUME NEW p \in Producers, ppc[p] \in {"fill", "link", "publish"}
          PROVE  tail \notin freedNodes
      BY <2>1, <2>2, Alone DEF InList, ListInv, Consumed
    <2> QED
      BY <2>1, <2>2 DEF NodesAlive
  <1> QED
    BY <1>1, WLInvAlways, PTL DEF WLInv

-----------------------------------------------------------------------------
(* The lists that are freed *)

LEMMA SafeInvInit == WLInit => SafeInv
  <1> SUFFICES ASSUME WLInit
               PROVE  SafeInv
    OBVIOUS
  <1>1. WLInv
    BY WLInvInit
  <1>2. End = 0 /\ head = 0 /\ ~Telling /\ Entered = {}
    BY WhitelistAssumption DEF WLInit, ListInit, End, Telling, Entered
  <1>3. global \in 0 .. static /\ freedLists = {}
    BY DEF WLInit
  <1>4. Newer
    BY <1>2, <1>3 DEF Newer
  <1>5. InHand
    BY <1>2, WhitelistAssumption DEF InHand, Entered
  <1> QED
    BY <1>1, <1>4, <1>5 DEF SafeInv, Readable, WLInit

LEMMA StaysNewer ==
    ASSUME SafeInv, Stays, UNCHANGED << global, freedLists, static >>,
           Telling' => Telling
    PROVE  Newer'
  BY DEF SafeInv, WLInv, ListInv, ListTypeOK, Nodes, Newer, Stays

\* An event that is published joins the queue at its end.
LEMMA GrowsNewer ==
    ASSUME SafeInv, NEW p \in Producers, Grows(p), ppc[p] = "publish",
           ppc'[p] = "advance",
           \A q \in Producers \ {p} : ppc'[q] = ppc[q],
           UNCHANGED << global, freedLists, static, cpc >>
    PROVE  Newer'
  <1>1. head \in Nat /\ End \in Nat /\ head <= End
    BY PublishedRange DEF SafeInv, WLInv, ListInv, Whole, Consumed, Nodes
  <1>2. /\ End' = End + 1 /\ head' = head
        /\ \A n \in 0 .. End - 1 : node'[n].event = node[n].event
        /\ node'[End].event = param[p]
    BY DEF Grows
  <1>3. \A n \in head' .. End' - 1 : n = End \/ n \in head .. End - 1
    BY <1>1, <1>2
  <1>4. static \in Nat /\ global \in 0 .. static
    BY StaticIsEvent DEF SafeInv, WLInv, Newer
  <1>5. CASE p = Checker
    <2>1. Telling /\ param[p] = static
      BY <1>5 DEF Telling, SafeInv, InHand
    <2>2. ~Telling'
      BY <1>5, WhitelistAssumption DEF Telling, SafeInv, WLInv, Loaded
    <2>3. /\ global < static
          /\ \A n \in head .. End - 1 : node[n].event = Other
               \/ /\ node[n].event \in global + 1 .. static
                  /\ node[n].event < static
          /\ \A m, n \in head .. End - 1 :
               m < n => \/ node[m].event = Other \/ node[n].event = Other
                        \/ node[m].event < node[n].event
          /\ freedLists \subseteq 1 .. global - 1
      BY <2>1 DEF SafeInv, Newer
    <2>4. \A n \in head' .. End' - 1 :
            \/ node'[n].event = Other
            \/ node'[n].event \in global + 1 .. static
      BY <1>1, <1>2, <1>3, <1>4, <2>1, <2>3
    <2>5. \A m, n \in head' .. End' - 1 :
            m < n => \/ node'[m].event = Other \/ node'[n].event = Other
                     \/ node'[m].event < node'[n].event
      <3> SUFFICES ASSUME NEW m \in head' .. End' - 1, NEW n \in head' .. End' - 1,
                          m < n
                   PROVE  \/ node'[m].event = Other \/ node'[n].event = Other
                          \/ node'[m].event < node'[n].event
        OBVIOUS
      <3>1. m \in head .. End - 1 /\ m \in 0 .. End - 1
        BY <1>1, <1>2
      <3>2. CASE n = End
        BY <1>2, <2>1, <2>3, <3>1, <3>2
      <3>3. CASE n \in head .. End - 1
        BY <1>1, <1>2, <2>3, <3>1, <3>3
      <3> QED
        BY <1>3, <3>2, <3>3
    <2> QED
      BY <1>4, <2>2, <2>3, <2>4, <2>5 DEF Newer
  <1>6. CASE p # Checker
    <2>1. param[p] = Other
      BY <1>6 DEF SafeInv, InHand, Entered
    <2>2. Telling' <=> Telling
      BY <1>6, WhitelistAssumption DEF Telling
    <2> QED
      BY <1>1, <1>2, <1>3, <1>4, <2>1, <2>2 DEF SafeInv, Newer
  <1> QED
    BY <1>5, <1>6

LEMMA OlderLists ==
    ASSUME NEW g \in Nat, NEW h \in Nat, g < h
    PROVE  1 .. g - 1 \subseteq 1 .. h - 1 /\ (g # 0 => g \in 1 .. h - 1)
  OBVIOUS

\* The event loop takes the first event and frees the list before.
LEMMA HandleNewer ==
    ASSUME SafeInv, Handle
    PROVE  Newer'
  <1>1. Shrinks
    BY ConsumeOK DEF Handle, SafeInv, WLInv, fileVars
  <1>2. head \in Nat /\ End \in Nat /\ head < End
    BY <1>1, PublishedRange DEF Shrinks, SafeInv, WLInv, ListInv, Whole, Nodes
  <1>3. /\ End' = End /\ head' = head + 1 /\ node' = node
        /\ value' = node[head].event
        /\ UNCHANGED << static, cpc, ppc >>
    BY <1>1 DEF Shrinks, Handle, Consume, fileVars
  <1>4. Telling' <=> Telling
    BY <1>3 DEF Telling
  <1>5. \A n \in head' .. End' - 1 : n \in head .. End - 1 /\ head < n
    BY <1>2, <1>3
  <1>6. head \in head .. End - 1
    BY <1>2
  <1>7. static \in Nat /\ global \in 0 .. static
    BY StaticIsEvent DEF SafeInv, WLInv, Newer
  <1>8. CASE value' = Other
    <2>1. UNCHANGED << global, freedLists >>
      BY <1>8 DEF Handle, fileVars
    <2> QED
      BY <1>3, <1>4, <1>5, <1>7, <2>1 DEF SafeInv, Newer
  <1>9. CASE value' # Other
    <2>1. global' = value' /\ freedLists' = freedLists \cup ({global} \ {0})
      BY <1>9 DEF Handle, Assign, fileVars
    <2>2. /\ global' \in global + 1 .. static
          /\ Telling => global' < static
      BY <1>3, <1>6, <1>9, <2>1 DEF SafeInv, Newer
    <2>3. freedLists' \subseteq 1 .. global' - 1
      <3>1. global \in Nat /\ global' \in Nat /\ global < global'
        BY <1>7, <2>2
      <3>2. freedLists \subseteq 1 .. global - 1
        BY DEF SafeInv, Newer
      <3>3. /\ 1 .. global - 1 \subseteq 1 .. global' - 1
            /\ global # 0 => global \in 1 .. global' - 1
        BY <3>1, OlderLists
      <3> QED
        BY <2>1, <3>2, <3>3
    <2>4. \A n \in head' .. End' - 1 :
            \/ node'[n].event = Other
            \/ /\ node'[n].event \in global' + 1 .. static
               /\ Telling => node'[n].event < static
      BY <1>3, <1>5, <1>6, <1>7, <1>9, <2>1, <2>2 DEF SafeInv, Newer
    <2>5. \A m, n \in head' .. End' - 1 :
            m < n => \/ node'[m].event = Other \/ node'[n].event = Other
                     \/ node'[m].event < node'[n].event
      BY <1>3, <1>5 DEF SafeInv, Newer
    <2> QED
      BY <1>3, <1>4, <1>7, <2>2, <2>3, <2>4, <2>5 DEF Newer
  <1> QED
    BY <1>8, <1>9

\* A producer at work keeps what it has in hand.
LEMMA ProduceSafe ==
    ASSUME SafeInv, NEW p \in Producers, Produce(p), UNCHANGED ownVars
    PROVE  SafeInv'
  <1>1. WLInv'
    BY WLStep DEF SafeInv, WLNext
  <1>2. /\ param' = param
        /\ \A q \in Producers \ {p} : ppc'[q] = ppc[q]
        /\ \/ ppc[p] = "lock" /\ ppc'[p] = "fill"
           \/ ppc[p] = "fill" /\ ppc'[p] = "link"
           \/ ppc[p] = "link" /\ ppc'[p] = "publish"
           \/ ppc[p] = "publish" /\ ppc'[p] = "advance"
           \/ ppc[p] = "advance" /\ ppc'[p] = "test"
           \/ ppc[p] = "test" /\ ppc'[p] \in {"out", "activate"}
           \/ ppc[p] = "activate" /\ ppc'[p] = "out"
    BY DEF Produce, Lock, Fill, Link, Publish, Advance, ActivateTest, Activate, Goto,
           SafeInv, WLInv, ListInv, ListTypeOK
  <1>3. UNCHANGED << readable, lists, static, global, freedLists, cpc, mtime >>
    BY DEF ownVars, fileVars
  <1>4. \A q \in Producers : q \in Entered' => q \in Entered
    BY <1>2 DEF Entered
  <1>5. InHand'
    BY <1>2, <1>3, <1>4, WhitelistAssumption DEF SafeInv, InHand
  <1>6. Newer'
    <2>1. CASE Stays
      <3>1. Telling' => Telling
        BY <1>2, <1>3, WhitelistAssumption DEF Telling
      <3> QED
        BY <1>3, <2>1, <3>1, StaysNewer
    <2>2. CASE Grows(p) /\ ppc[p] = "publish"
      BY <1>2, <1>3, <2>2, GrowsNewer
    <2> QED
      BY <2>1, <2>2, ProduceOK DEF SafeInv, WLInv
  <1> QED
    BY <1>1, <1>3, <1>5, <1>6 DEF SafeInv, Readable

LEMMA SafeInvStep ==
    ASSUME "loading" \notin Faults, SafeInv, [WLNext]_wlVars
    PROVE  SafeInv'
  <1>1. WLInv'
    BY WLStep DEF SafeInv
  <1>2. ASSUME UNCHANGED listVars, UNCHANGED << static, global, freedLists >>,
               cpc' # "tell"
        PROVE  Newer' /\ InHand'
    <2>1. Stays
      BY <1>2, LoopOK DEF SafeInv, WLInv
    <2>2. Telling' => Telling
      BY <1>2 DEF Telling, listVars
    <2>3. Entered' = Entered
      BY <1>2 DEF Entered, listVars
    <2> QED
      BY <1>2, <2>1, <2>2, <2>3, StaysNewer DEF SafeInv, InHand, listVars
  <1>3. CASE Change
    <2>1. CASE cpc = "tell"
      <3>1. Stays /\ Entered' = Entered
        BY <1>3, LoopOK DEF Change, SafeInv, WLInv, Entered, listVars
      <3>2. Telling' => Telling
        BY <2>1 DEF Telling
      <3> QED
        BY <1>1, <1>3, <3>1, <3>2, StaysNewer
        DEF Change, SafeInv, InHand, Readable, listVars
    <2>2. CASE cpc # "tell"
      BY <1>1, <1>2, <1>3, <2>2 DEF Change, SafeInv, Readable
    <2> QED
      BY <2>1, <2>2
  <1>4. CASE Vanish
    <2>1. cpc = "sleep"
      BY <1>4 DEF Vanish
    <2> QED
      BY <1>1, <1>2, <1>4, <2>1 DEF Vanish, SafeInv, Readable
  <1>5. CASE Check
    BY <1>1, <1>2, <1>5 DEF Check, SafeInv, Readable, fileVars
  <1>6. CASE Stat
    BY <1>1, <1>2, <1>6 DEF Stat, SafeInv, Readable, fileVars
  <1>7. CASE OpenAndRead
    <2>1. /\ UNCHANGED listVars /\ UNCHANGED << global, freedLists >>
          /\ readable /\ cpc = "open" /\ cpc' = "tell"
          /\ static' = Len(lists') /\ lists' # << >>
          /\ lists' = Append(lists, [contents |-> version, mtime |-> mtime])
      BY <1>7 DEF OpenAndRead, SafeInv, Readable, fileVars
    <2>2. static \in Nat /\ static' = static + 1 /\ ppc[Checker] = "out"
      BY <2>1 DEF SafeInv, WLInv, Loaded
    <2>3. Stays /\ Entered' = Entered /\ ppc' = ppc /\ param' = param
      BY <2>1, LoopOK DEF SafeInv, WLInv, Entered, listVars
    <2>4. ~Telling /\ Telling'
      BY <2>1, <2>2 DEF Telling
    <2>5. /\ head' = head /\ End' = End /\ head \in Nat
          /\ \A n \in head .. End - 1 : node'[n].event = node[n].event
      <3>1. head \in Nat
        BY DEF SafeInv, WLInv, ListInv, ListTypeOK, Nodes
      <3>2. End \in Nat
        BY DEF SafeInv, WLInv, ListInv, Whole, Nodes
      <3>3. \A n \in head .. End - 1 : n \in 0 .. End - 1
        BY <3>1, <3>2
      <3> QED
        BY <2>3, <3>1, <3>3 DEF Stays
    <2>6. Newer'
      BY <2>1, <2>2, <2>4, <2>5 DEF SafeInv, Newer
    <2>7. InHand'
      BY <2>1, <2>2, <2>3 DEF SafeInv, InHand
    <2> QED
      BY <1>1, <2>1, <2>6, <2>7 DEF SafeInv, Readable
  <1>8. CASE Tell
    <2>1. /\ cpc = "tell" /\ cpc' = "sleep" /\ Trigger(Checker, static)
          /\ UNCHANGED << static, global, freedLists >>
      BY <1>8 DEF Tell, SafeInv, fileVars
    <2>2. Stays
      BY <2>1, TriggerOK, StaticIsEvent, WhitelistAssumption DEF SafeInv, WLInv
    <2>3. Telling
      BY <2>1 DEF Telling
    <2>4. Newer'
      BY <2>1, <2>2, <2>3, StaysNewer
    <2>5. /\ param'[Checker] = static
          /\ \A q \in Producers \ {Checker} :
               param'[q] = param[q] /\ ppc'[q] = ppc[q]
      BY <2>1, WhitelistAssumption
      DEF Trigger, Goto, SafeInv, WLInv, ListInv, ListTypeOK
    <2>6. InHand'
      BY <2>1, <2>5 DEF SafeInv, InHand, Entered
    <2> QED
      BY <1>1, <2>1, <2>4, <2>6 DEF SafeInv, Readable
  <1>9. CASE Handle
    <2>1. Entered' = Entered /\ UNCHANGED << ppc, param, static, cpc, readable >>
      BY <1>9 DEF Handle, Consume, Entered, fileVars
    <2>2. InHand'
      BY <2>1 DEF SafeInv, InHand
    <2> QED
      BY <1>1, <1>9, <2>1, <2>2, HandleNewer DEF SafeInv, Readable
  <1>10. ASSUME \/ (RunCustom \/ Drained) /\ UNCHANGED ownVars
                \/ UNCHANGED wlVars
         PROVE  SafeInv'
    <2>1. /\ UNCHANGED << node, head, tail, wlock, ppc, param, value >>
          /\ UNCHANGED << readable, static, global, freedLists, cpc >>
      BY <1>10 DEF RunCustom, Drained, ownVars, wlVars, listVars, fileVars
    <2>2. Stays
      BY <2>1 DEF Stays, End
    <2>3. Entered' = Entered /\ (Telling' => Telling)
      BY <2>1 DEF Entered, Telling
    <2>4. Newer'
      BY <2>1, <2>2, <2>3, StaysNewer
    <2> QED
      BY <1>1, <2>1, <2>3, <2>4 DEF SafeInv, InHand, Readable
  <1>11. ASSUME NEW p \in Producers, Elsewhere(p), UNCHANGED ownVars
         PROVE  SafeInv'
    <2>1. Trigger(p, Other) /\ p # Checker /\ Other \in Events
      BY <1>11, WhitelistAssumption DEF Elsewhere
    <2>2. Stays
      BY <2>1, TriggerOK DEF SafeInv, WLInv
    <2>3. /\ ppc'[p] = "lock" /\ param'[p] = Other
          /\ \A q \in Producers \ {p} : ppc'[q] = ppc[q] /\ param'[q] = param[q]
      BY <2>1 DEF Trigger, Goto, SafeInv, WLInv, ListInv, ListTypeOK
    <2>4. UNCHANGED << readable, static, global, freedLists, cpc >>
      BY <1>11 DEF ownVars, fileVars
    <2>5. Telling' => Telling
      BY <2>1, <2>3, <2>4, WhitelistAssumption DEF Telling
    <2>6. Newer'
      BY <2>2, <2>4, <2>5, StaysNewer
    <2>7. InHand'
      BY <2>1, <2>3, <2>4, WhitelistAssumption DEF SafeInv, InHand, Entered
    <2> QED
      BY <1>1, <2>4, <2>6, <2>7 DEF SafeInv, Readable
  <1> QED
    BY <1>3, <1>4, <1>5, <1>6, <1>7, <1>8, <1>9, <1>10, <1>11, ProduceSafe
    DEF WLNext

\* As long as the file does not go while it is being loaded, in_whitelist and
\* the thread never look into a list that assign_whitelist has freed, although
\* the thread exchanges the list at once and the event loop frees the one before
\* only when the event arrives; if it goes, they do (run whitelist_freed).
THEOREM ListInUseKept ==
    "loading" \notin Faults => (WLSpec => []ListInUseNotFreed)
  <1> SUFFICES ASSUME "loading" \notin Faults
               PROVE  WLSpec => []ListInUseNotFreed
    OBVIOUS
  <1>1. SafeInv => ListInUseNotFreed
    <2> SUFFICES ASSUME SafeInv
                 PROVE  ListInUseNotFreed
      OBVIOUS
    <2>1. /\ static \in 0 .. MaxChanges + 1 /\ static = Len(lists)
          /\ global \in 0 .. static
          /\ freedLists \subseteq 1 .. global - 1
      BY StaticIsEvent DEF SafeInv, WLInv, Loaded, Newer
    <2>2. WLTypeOK
      BY <2>1 DEF WLTypeOK, SafeInv, WLInv, Loaded, ListInv
    <2>3. static \notin freedLists /\ global \notin freedLists
      BY <2>1
    <2>4. \A n \in Published : node[n].event \notin freedLists
      <3>1. Published = head .. End - 1
        BY PublishedRange DEF SafeInv, WLInv
      <3>2. Other \notin freedLists
        <4>1. \A x \in 1 .. global - 1 : x \in 0 .. MaxChanges + 1
          BY <2>1, WhitelistAssumption
        <4> QED
          BY <2>1, <4>1, WhitelistAssumption
      <3> QED
        BY <2>1, <3>1, <3>2 DEF SafeInv, Newer
    <2> QED
      BY <2>2, <2>3, <2>4 DEF ListInUseNotFreed
  <1>2. SafeInv /\ [WLNext]_wlVars => SafeInv'
    BY SafeInvStep
  <1> QED
    BY <1>1, <1>2, SafeInvInit, PTL DEF WLSpec

-----------------------------------------------------------------------------
(* The abstract queue *)

\* The events that wait, as Fifo sees them.
Waiting == [k \in 1 .. Cardinality(Published) |-> node[head + k - 1].event]

WaitingSpan ==
    /\ Waiting = [k \in 1 .. End - head |-> node[head + k - 1].event]
    /\ head \in Nat /\ End \in Nat /\ End - head \in Nat
    /\ \A k \in 1 .. End - head : node[head + k - 1].event \in Events
    /\ Waiting \in Seq(Events)
    /\ Len(Waiting) = End - head

LEMMA WaitingIs == ListInv => WaitingSpan
  <1> SUFFICES ASSUME ListInv
               PROVE  WaitingSpan
    OBVIOUS
  <1>1. /\ Cardinality(Published) = End - head
        /\ head \in Nat /\ End - head \in Nat
    BY PublishedRange
  <1>2. End \in Nat
    BY EventListAssumption DEF ListInv, Whole, Nodes
  <1>3. \A k \in 1 .. End - head : head + k - 1 \in 0 .. End - 1
    BY <1>1, <1>2
  <1>4. \A k \in 1 .. End - head : node[head + k - 1].event \in Events
    BY <1>3 DEF ListInv, Whole
  <1>5. Waiting = [k \in 1 .. End - head |-> node[head + k - 1].event]
    BY <1>1 DEF Waiting
  <1>6. Waiting \in Seq(Events) /\ Len(Waiting) = End - head
    BY <1>1, <1>4, <1>5
  <1> QED
    BY <1>1, <1>2, <1>4, <1>5, <1>6 DEF WaitingSpan

LEMMA StaysRefined ==
    ASSUME ListInv, ListInv', Stays
    PROVE  UNCHANGED << Waiting, value >>
  <1>1. /\ Waiting = [k \in 1 .. End - head |-> node[head + k - 1].event]
        /\ Waiting' = [k \in 1 .. End' - head' |-> node'[head' + k - 1].event]
        /\ head \in Nat /\ End \in Nat
    <2>1. WaitingSpan /\ WaitingSpan'
      BY WaitingIs, PTL
    <2> QED
      BY <2>1 DEF WaitingSpan
  <1>2. \A k \in 1 .. End - head : head + k - 1 \in 0 .. End - 1
    BY <1>1
  <1> QED
    BY <1>1, <1>2 DEF Stays

LEMMA GrowsRefined ==
    ASSUME ListInv, ListInv', NEW p \in Producers, Grows(p), param[p] \in Events
    PROVE  Waiting' = Append(Waiting, param[p]) /\ UNCHANGED value
  <1>1. /\ Waiting = [k \in 1 .. End - head |-> node[head + k - 1].event]
        /\ Waiting' = [k \in 1 .. End' - head' |-> node'[head' + k - 1].event]
        /\ head \in Nat /\ End \in Nat /\ End - head \in Nat
        /\ Waiting \in Seq(Events) /\ Len(Waiting) = End - head
        /\ Waiting' \in Seq(Events) /\ Len(Waiting') = End' - head'
    <2>1. WaitingSpan /\ WaitingSpan'
      BY WaitingIs, PTL
    <2> QED
      BY <2>1 DEF WaitingSpan
  <1>2. /\ End' = End + 1 /\ head' = head
        /\ \A n \in 0 .. End - 1 : node'[n].event = node[n].event
        /\ node'[End].event = param[p]
    BY DEF Grows
  <1>3. Len(Waiting') = Len(Waiting) + 1
    BY <1>1, <1>2
  <1>4. ASSUME NEW k \in 1 .. Len(Waiting)
        PROVE  Waiting'[k] = Waiting[k]
    <2>1. head + k - 1 \in 0 .. End - 1 /\ k \in 1 .. End' - head'
      BY <1>1, <1>2
    <2> QED
      BY <1>1, <1>2, <2>1
  <1>5. Waiting'[Len(Waiting) + 1] = param[p]
    <2>1. /\ Len(Waiting) + 1 \in 1 .. End' - head'
          /\ head + (Len(Waiting) + 1) - 1 = End
      BY <1>1, <1>2
    <2> QED
      BY <1>1, <1>2, <2>1
  <1> HIDE DEF Waiting
  <1> DEFINE w == Append(Waiting, param[p])
  <1>6. /\ w \in Seq(Events) /\ Len(w) = Len(Waiting) + 1
        /\ \A k \in 1 .. Len(Waiting) : w[k] = Waiting[k]
        /\ w[Len(Waiting) + 1] = param[p]
    BY <1>1
  <1>7. \A k \in 1 .. Len(w) : w[k] = Waiting'[k]
    <2>1. \A k \in 1 .. Len(w) : k = Len(Waiting) + 1 \/ k \in 1 .. Len(Waiting)
      BY <1>1, <1>6
    <2> QED
      BY <1>4, <1>5, <1>6, <2>1
  <1>8. Waiting' = w
    BY <1>1, <1>3, <1>6, <1>7, SeqEqual
  <1> QED
    BY <1>8 DEF Grows

LEMMA ShrinksRefined ==
    ASSUME ListInv, ListInv', Shrinks
    PROVE  /\ Waiting # << >>
           /\ value' = Head(Waiting)
           /\ Waiting' = Tail(Waiting)
  <1>1. /\ Waiting = [k \in 1 .. End - head |-> node[head + k - 1].event]
        /\ Waiting' = [k \in 1 .. End' - head' |-> node'[head' + k - 1].event]
        /\ head \in Nat /\ End \in Nat /\ End - head \in Nat
        /\ Waiting \in Seq(Events) /\ Len(Waiting) = End - head
        /\ Waiting' \in Seq(Events) /\ Len(Waiting') = End' - head'
    <2>1. WaitingSpan /\ WaitingSpan'
      BY WaitingIs, PTL
    <2> QED
      BY <2>1 DEF WaitingSpan
  <1>2. /\ head < End /\ End' = End /\ head' = head + 1 /\ node' = node
        /\ value' = node[head].event
    BY DEF Shrinks
  <1>3. Len(Waiting) >= 1 /\ Len(Waiting') = Len(Waiting) - 1
    BY <1>1, <1>2
  <1>4. Waiting[1] = node[head].event
    <2>1. 1 \in 1 .. End - head /\ head + 1 - 1 = head
      BY <1>1, <1>2
    <2> QED
      BY <1>1, <2>1
  <1>5. ASSUME NEW k \in 1 .. Len(Waiting')
        PROVE  Waiting'[k] = Waiting[k + 1]
    <2>1. /\ k + 1 \in 1 .. End - head /\ k \in 1 .. End' - head'
          /\ head' + k - 1 = head + (k + 1) - 1
      BY <1>1, <1>2
    <2> QED
      BY <1>1, <1>2, <2>1
  <1> HIDE DEF Waiting
  <1> DEFINE w == Tail(Waiting)
  <1>6. Waiting # << >>
    BY <1>1, <1>3
  <1>7. /\ w \in Seq(Events) /\ Len(w) = Len(Waiting) - 1
        /\ \A k \in 1 .. Len(w) : w[k] = Waiting[k + 1]
    BY <1>1, <1>6, HeadTailProperties
  <1>8. Waiting' = w
    <2>1. \A k \in 1 .. Len(Waiting') : Waiting'[k] = w[k]
      BY <1>3, <1>5, <1>7
    <2> QED
      BY <1>1, <1>3, <1>7, <2>1, SeqEqual
  <1>9. value' = Head(Waiting)
    BY <1>1, <1>2, <1>4, <1>6
  <1> QED
    BY <1>6, <1>8, <1>9

LEMMA QueueStep ==
    ASSUME WLInv, [WLNext]_wlVars
    PROVE  [Fifo!EQNext]_(Fifo!eqvars)
  <1>1. ListInv /\ ListInv'
    BY WLStep DEF WLInv
  <1>2. CASE Stays
    BY <1>1, <1>2, StaysRefined DEF Waiting, Fifo!eqvars
  <1>3. ASSUME NEW p \in Producers, Grows(p), ppc[p] = "publish"
        PROVE  Fifo!EQNext
    <2>1. param[p] \in Events
      BY <1>1, <1>3 DEF ListInv, Filling, Entered
    <2>2. PICK e \in Events : e = param[p]
      BY <2>1
    <2>3. Fifo!Put(e)
      BY <1>1, <1>3, <2>2, GrowsRefined DEF Waiting, Fifo!Put
    <2> QED
      BY <2>3 DEF Fifo!EQNext
  <1>4. CASE Shrinks
    <2>1. Fifo!Get
      BY <1>1, <1>4, ShrinksRefined DEF Waiting, Fifo!Get
    <2> QED
      BY <2>1 DEF Fifo!EQNext
  <1> QED
    BY <1>2, <1>3, <1>4, WLStep

\* Events of all threads come out of the list whole, once each and in the order
\* in which they were published, although list_consume takes no lock and the
\* producer fills, links and publishes a node in separate stores
\* (event_trigger, list_produce).
THEOREM ListImplementsEventQueue == WLSpec => ImplementsEventQueue
  <1>1. WLInit => Fifo!EQInit
    <2> SUFFICES ASSUME WLInit
                 PROVE  Fifo!EQInit
      OBVIOUS
    <2>1. End = 0 /\ head = 0 /\ value = NoEvent
      BY EventListAssumption DEF WLInit, ListInit, End
    <2>2. Waiting \in Seq(Events) /\ Len(Waiting) = 0
      BY <2>1, WLInvInit, WaitingIs DEF WLInv, WaitingSpan
    <2>3. Waiting = << >>
      BY <2>2
    <2> QED
      BY <2>1, <2>3 DEF Waiting, Fifo!EQInit
  <1>2. WLInv /\ [WLNext]_wlVars => [Fifo!EQNext]_(Fifo!eqvars)
    BY QueueStep
  <1> QED
    BY <1>1, <1>2, WLInvAlways, PTL DEF WLSpec, ImplementsEventQueue, Fifo!EQSpec
=============================================================================
