----------------------------- MODULE PoolProofs -----------------------------
(***************************************************************************)
(* Proofs about Pool: the type invariant and the safety invariants of the  *)
(* pool for any number of servers, connections and sub-requests.           *)
(***************************************************************************)
EXTENDS PoolRefinement, FiniteSetTheorems, TLAPS

-----------------------------------------------------------------------------
(* Queues *)

\* Appending a node that is not in the list keeps the list free of repeats.
LEMMA AppendFacts ==
    ASSUME NEW S, NEW q \in Seq(S), NEW x \in S, IsInjective(q),
           x \notin Range(q)
    PROVE  /\ Append(q, x) \in Seq(S)
           /\ IsInjective(Append(q, x))
           /\ Range(Append(q, x)) = Range(q) \cup {x}
           /\ Append(q, x) # << >>
  <1> DEFINE a == Append(q, x)
  <1>1. /\ a \in Seq(S) /\ Len(a) = Len(q) + 1 /\ Len(q) \in Nat
        /\ DOMAIN a = 1 .. Len(q) + 1 /\ DOMAIN q = 1 .. Len(q)
        /\ a[Len(q) + 1] = x
        /\ \A i \in 1 .. Len(q) : a[i] = q[i]
    OBVIOUS
  <1>2. Range(a) = Range(q) \cup {x}
    BY <1>1 DEF Range
  <1>3. IsInjective(a)
    <2> SUFFICES ASSUME NEW i \in DOMAIN a, NEW j \in DOMAIN a, a[i] = a[j]
                 PROVE  i = j
      BY DEF IsInjective
    <2> QED
      BY <1>1 DEF IsInjective, Range
  <1> QED
    BY <1>1, <1>2, <1>3

\* Taking the head off a list without repeats removes just that node.
LEMMA TailFacts ==
    ASSUME NEW S, NEW q \in Seq(S), q # << >>, IsInjective(q)
    PROVE  /\ Tail(q) \in Seq(S)
           /\ Head(q) \in S
           /\ Head(q) \in Range(q)
           /\ IsInjective(Tail(q))
           /\ Range(Tail(q)) = Range(q) \ {Head(q)}
  <1> DEFINE t == Tail(q)
  <1>1. /\ t \in Seq(S) /\ Len(q) \in Nat /\ Len(q) > 0
        /\ DOMAIN q = 1 .. Len(q) /\ DOMAIN t = 1 .. Len(q) - 1
        /\ Head(q) = q[1]
        /\ \A i \in 1 .. Len(q) - 1 : t[i] = q[i + 1]
    OBVIOUS
  <1>2. Head(q) \in S /\ Head(q) \in Range(q)
    BY <1>1 DEF Range
  <1>3. IsInjective(t)
    <2> SUFFICES ASSUME NEW i \in DOMAIN t, NEW j \in DOMAIN t, t[i] = t[j]
                 PROVE  i = j
      BY DEF IsInjective
    <2> QED
      BY <1>1 DEF IsInjective
  <1>4. Range(t) \subseteq Range(q) \ {Head(q)}
    BY <1>1 DEF Range, IsInjective
  <1>5. Range(q) \ {Head(q)} \subseteq Range(t)
    <2> SUFFICES ASSUME NEW i \in DOMAIN q, q[i] # Head(q)
                 PROVE  q[i] \in Range(t)
      BY DEF Range
    <2>1. i - 1 \in DOMAIN t /\ t[i - 1] = q[i]
      BY <1>1
    <2> QED
      BY <2>1 DEF Range
  <1> QED
    BY <1>1, <1>2, <1>3, <1>4, <1>5

\* Unlinking a node removes just that node, and nothing when it is not there.
LEMMA UnlinkFacts ==
    ASSUME NEW S, NEW q \in Seq(S), NEW x, IsInjective(q)
    PROVE  /\ Unlink(q, x) \in Seq(S)
           /\ IsInjective(Unlink(q, x))
           /\ Range(Unlink(q, x)) = Range(q) \ {x}
           /\ q = << >> => Unlink(q, x) = << >>
  <1>1. CASE ~ \E i \in DOMAIN q : q[i] = x
    BY <1>1 DEF Unlink, Range
  <1>2. CASE \E i \in DOMAIN q : q[i] = x
    <2> DEFINE k == CHOOSE i \in DOMAIN q : q[i] = x
               u == [j \in 1 .. Len(q) - 1 |-> IF j < k THEN q[j] ELSE q[j + 1]]
    <2>1. k \in DOMAIN q /\ q[k] = x
      BY <1>2
    <2>2. Unlink(q, x) = u
      BY <1>2 DEF Unlink
    <2> HIDE DEF k
    <2>3. /\ DOMAIN q = 1 .. Len(q) /\ Len(q) \in Nat /\ Len(q) > 0
          /\ k \in 1 .. Len(q)
      BY <2>1
    <2>4. u \in Seq(S)
      <3>1. u \in [1 .. Len(q) - 1 -> S]
        BY <2>3
      <3> QED
        BY <3>1, <2>3
    <2>5. DOMAIN u = 1 .. Len(q) - 1
      OBVIOUS
    <2>6. IsInjective(u)
      <3> SUFFICES ASSUME NEW i \in DOMAIN u, NEW j \in DOMAIN u, u[i] = u[j]
                   PROVE  i = j
        BY DEF IsInjective
      <3> QED
        BY <2>3, <2>5 DEF IsInjective
    <2>7. Range(u) \subseteq Range(q) \ {x}
      BY <2>1, <2>3, <2>5 DEF Range, IsInjective
    <2>8. Range(q) \ {x} \subseteq Range(u)
      <3> SUFFICES ASSUME NEW i \in DOMAIN q, q[i] # x
                   PROVE  q[i] \in Range(u)
        BY DEF Range
      <3>1. i # k
        BY <2>1
      <3>2. CASE i < k
        <4>1. i \in DOMAIN u /\ u[i] = q[i]
          BY <3>2, <2>3
        <4> QED
          BY <4>1 DEF Range
      <3>3. CASE i > k
        <4>1. i - 1 \in DOMAIN u /\ u[i - 1] = q[i]
          BY <3>3, <2>3
        <4> QED
          BY <4>1 DEF Range
      <3> QED
        BY <3>1, <3>2, <3>3, <2>3
    <2>9. q # << >>
      BY <1>2
    <2> QED
      BY <2>2, <2>4, <2>6, <2>7, <2>8, <2>9
  <1> QED
    BY <1>1, <1>2

-----------------------------------------------------------------------------
(* One server *)

\* UseInv but for connections that are in use and have no holder: the users of
\* a pool may forget a connection, and the pool must not mind.
ClaimInv(sv) ==
    /\ IsInjective(sv.waitingQueue)
    /\ \A c \in Conns :
        /\ sv.holder[c] # None => c \in sv.inUse
        /\ sv.holder[c] \notin Range(sv.waitingQueue)
        /\ \A d \in Conns :
            sv.holder[c] = sv.holder[d] /\ sv.holder[c] # None => c = d

Leaked(sv) == {c \in sv.inUse : sv.holder[c] = None}

\* Everything the pool keeps true of a server between two callbacks.
ServerOK(sv) ==
    /\ sv \in ServerType
    /\ SlotInv(sv)
    /\ ClaimInv(sv)
    /\ CountInv(sv)
    /\ WaitInv(sv)

\* The sub-requests a server knows: those that wait and those that hold.
Users(sv) ==
    Range(sv.waitingQueue) \cup ({sv.holder[c] : c \in sv.inUse} \ {None})

\* The same in the middle of a callback: connection c is up and healthy but
\* in no queue and not in use yet.
Loose(sv, c) ==
    /\ sv \in ServerType
    /\ IsInjective(sv.connectQueue)
    /\ IsInjective(sv.unconnectQueue)
    /\ ClaimInv(sv)
    /\ CountInv(sv)
    /\ WaitInv(sv)
    /\ c \in Conns
    /\ sv.link[c] = "up"
    /\ c \notin sv.inUse
    /\ c \notin sv.toBeDestroyed
    /\ c \notin Range(sv.connectQueue)
    /\ c \notin Range(sv.unconnectQueue)
    /\ \A d \in Conns \ {c} :
        /\ d \in Range(sv.unconnectQueue) <=> sv.link[d] = "none"
        /\ d \in Range(sv.connectQueue) <=> sv.link[d] = "up" /\ d \notin sv.inUse
        /\ d \in sv.inUse => sv.link[d] \in {"up", "lost"}
        /\ sv.link[d] = "up" => d \notin sv.toBeDestroyed
        /\ sv.link[d] = "lost" => d \in sv.inUse /\ d \in sv.toBeDestroyed

\* The established connections are finitely many, and one more or one less
\* changes their number by one.
LEMMA EstablishedFacts ==
    ASSUME NEW A, NEW B, NEW c, A \subseteq Conns, c \in Conns
    PROVE  /\ Cardinality(A) \in Nat
           /\ c \notin A /\ B = A \cup {c} => Cardinality(B) = Cardinality(A) + 1
           /\ c \in A /\ B = A \ {c} => Cardinality(B) = Cardinality(A) - 1
  <1>1. IsFiniteSet(Conns)
    BY PoolAssumption, FS_Interval DEF Conns
  <1>2. IsFiniteSet(A)
    BY <1>1, FS_Subset
  <1> QED
    BY <1>2, FS_CardinalityType, FS_AddElement, FS_RemoveElement

\* Taking the first idle connection leaves it loose, with nobody waiting.
LEMMA ConnectQueueGetOK ==
    ASSUME NEW sv, ServerOK(sv), sv.connectQueue # << >>
    PROVE  /\ Loose(ConnectQueueGet(sv), Head(sv.connectQueue))
           /\ ConnectQueueGet(sv).waitingQueue = << >>
           /\ Users(ConnectQueueGet(sv)) = Users(sv)
  <1> DEFINE h == ConnectQueueGet(sv)
             c == Head(sv.connectQueue)
  <1>1. sv \in ServerType
    BY DEF ServerOK
  <1>2. sv.connectQueue \in Seq(Conns) /\ IsInjective(sv.connectQueue)
    BY <1>1 DEF ServerOK, SlotInv, ServerType
  <1>3. /\ Tail(sv.connectQueue) \in Seq(Conns)
        /\ c \in Conns /\ c \in Range(sv.connectQueue)
        /\ IsInjective(Tail(sv.connectQueue))
        /\ Range(Tail(sv.connectQueue)) = Range(sv.connectQueue) \ {c}
    BY <1>2, TailFacts
  <1>4. /\ h.connectQueue = Tail(sv.connectQueue)
        /\ h.unconnectQueue = sv.unconnectQueue
        /\ h.waitingQueue = sv.waitingQueue
        /\ h.connectCount = sv.connectCount
        /\ h.inUse = sv.inUse
        /\ h.toBeDestroyed = sv.toBeDestroyed
        /\ h.link = sv.link
        /\ h.holder = sv.holder
    BY <1>1 DEF ConnectQueueGet, ServerType
  <1>5. h \in ServerType
    <2>1. sv.freeConnectCount - 1 \in Int
      BY <1>1 DEF ServerType
    <2> QED
      BY <1>1, <1>3, <2>1 DEF ConnectQueueGet, ServerType
  <1>6. sv.waitingQueue = << >>
    BY DEF ServerOK, WaitInv
  <1> HIDE DEF h, c
  <1>7. ClaimInv(h) /\ CountInv(h) /\ WaitInv(h)
    BY <1>4, <1>6 DEF ServerOK, ClaimInv, CountInv, WaitInv, Established
  <1>8. Loose(h, c)
    <2>1. /\ h.link[c] = "up" /\ c \notin h.inUse
          /\ c \notin h.toBeDestroyed
          /\ c \notin Range(h.connectQueue)
          /\ c \notin Range(h.unconnectQueue)
      BY <1>3, <1>4 DEF ServerOK, SlotInv
    <2> QED
      BY <1>3, <1>4, <1>5, <1>7, <2>1 DEF Loose, ServerOK, SlotInv
  <1>9. Users(h) = Users(sv)
    BY <1>4 DEF Users
  <1> QED
    BY <1>4, <1>6, <1>8, <1>9 DEF h, c

\* A loose connection may be handed to any sub-request the server does not
\* know yet.
LEMMA HandOverOK ==
    ASSUME NEW sv, NEW c, Loose(sv, c), NEW sr \in SubReqs,
           sr \notin Users(sv)
    PROVE  /\ ServerOK(HandOver(sv, c, sr))
           /\ Users(HandOver(sv, c, sr)) = Users(sv) \cup {sr}
  <1> DEFINE h == HandOver(sv, c, sr)
  <1>1. sv \in ServerType /\ c \in Conns /\ c \notin sv.inUse
    BY DEF Loose
  <1>2. /\ h.connectQueue = sv.connectQueue
        /\ h.unconnectQueue = sv.unconnectQueue
        /\ h.waitingQueue = sv.waitingQueue
        /\ h.connectCount = sv.connectCount
        /\ h.inUse = sv.inUse \cup {c}
        /\ h.toBeDestroyed = sv.toBeDestroyed
        /\ h.link = sv.link
        /\ h.holder = [sv.holder EXCEPT ![c] = sr]
    BY <1>1 DEF HandOver, ServerType
  <1>3. h \in ServerType
    BY <1>1 DEF HandOver, ServerType
  <1>4. sv.holder \in [Conns -> SubReqs \cup {None}] /\ sv.inUse \subseteq Conns
    BY <1>1 DEF ServerType
  <1>5. /\ h.holder[c] = sr
        /\ \A d \in Conns \ {c} : h.holder[d] = sv.holder[d]
    BY <1>1, <1>2, <1>4
  <1> HIDE DEF h
  <1>6. SlotInv(h)
    BY <1>2 DEF Loose, SlotInv
  <1>7. CountInv(h) /\ WaitInv(h)
    BY <1>2 DEF Loose, CountInv, WaitInv, Established
  <1>9. sr # None
    BY PoolAssumption
  <1>8. Users(h) = Users(sv) \cup {sr}
    BY <1>1, <1>2, <1>4, <1>5, <1>9 DEF Users
  <1>10. /\ IsInjective(sv.waitingQueue)
         /\ \A d \in Conns :
            /\ sv.holder[d] # None => d \in sv.inUse
            /\ sv.holder[d] \notin Range(sv.waitingQueue)
            /\ \A e \in Conns :
               sv.holder[d] = sv.holder[e] /\ sv.holder[d] # None => d = e
    BY DEF Loose, ClaimInv
  <1>11. /\ sr \notin Range(sv.waitingQueue)
         /\ \A d \in Conns : sv.holder[d] # sr
    BY <1>9, <1>10 DEF Users
  <1>12. ClaimInv(h)
    BY <1>1, <1>2, <1>5, <1>9, <1>10, <1>11 DEF ClaimInv
  <1> QED
    BY <1>3, <1>6, <1>7, <1>8, <1>12 DEF ServerOK, h

\* With nobody waiting, a loose connection may be parked.
LEMMA ParkOK ==
    ASSUME NEW sv, NEW c, Loose(sv, c), sv.waitingQueue = << >>
    PROVE  /\ ServerOK(ConnectQueuePut(sv, c))
           /\ Users(ConnectQueuePut(sv, c)) = Users(sv)
  <1> DEFINE h == ConnectQueuePut(sv, c)
  <1>1. sv \in ServerType /\ c \in Conns
    BY DEF Loose
  <1>2. sv.connectQueue \in Seq(Conns)
    BY <1>1 DEF ServerType
  <1>3. /\ Append(sv.connectQueue, c) \in Seq(Conns)
        /\ IsInjective(Append(sv.connectQueue, c))
        /\ Range(Append(sv.connectQueue, c)) = Range(sv.connectQueue) \cup {c}
    BY <1>1, <1>2, AppendFacts DEF Loose
  <1>4. /\ h.connectQueue = Append(sv.connectQueue, c)
        /\ h.unconnectQueue = sv.unconnectQueue
        /\ h.waitingQueue = sv.waitingQueue
        /\ h.connectCount = sv.connectCount
        /\ h.inUse = sv.inUse
        /\ h.toBeDestroyed = sv.toBeDestroyed
        /\ h.link = sv.link
        /\ h.holder = sv.holder
    BY <1>1 DEF ConnectQueuePut, ServerType
  <1>5. h \in ServerType
    <2>1. sv.freeConnectCount + 1 \in Int
      BY <1>1 DEF ServerType
    <2> QED
      BY <1>1, <1>3, <2>1 DEF ConnectQueuePut, ServerType
  <1> HIDE DEF h
  <1>6. SlotInv(h)
    BY <1>3, <1>4 DEF Loose, SlotInv
  <1>7. ClaimInv(h) /\ CountInv(h) /\ WaitInv(h)
    BY <1>4 DEF Loose, ClaimInv, CountInv, WaitInv, Established
  <1>8. Users(h) = Users(sv)
    BY <1>4 DEF Users
  <1> QED
    BY <1>5, <1>6, <1>7, <1>8 DEF ServerOK, h

\* Freeing the structure changes nothing the invariants are about.
LEMMA ServerDestroyedOK ==
    ASSUME NEW sv, ServerOK(sv)
    PROVE  /\ ServerOK(ServerDestroyed(sv))
           /\ Users(ServerDestroyed(sv)) = Users(sv)
  <1> DEFINE h == ServerDestroyed(sv)
  <1>1. sv \in ServerType
    BY DEF ServerOK
  <1>2. /\ h.connectQueue = sv.connectQueue
        /\ h.unconnectQueue = sv.unconnectQueue
        /\ h.waitingQueue = sv.waitingQueue
        /\ h.connectCount = sv.connectCount
        /\ h.inUse = sv.inUse
        /\ h.toBeDestroyed = sv.toBeDestroyed
        /\ h.link = sv.link
        /\ h.holder = sv.holder
        /\ h \in ServerType
    BY <1>1 DEF ServerDestroyed, ServerType
  <1> HIDE DEF h
  <1>3. SlotInv(h) /\ ClaimInv(h) /\ CountInv(h) /\ WaitInv(h)
    BY <1>2 DEF ServerOK, SlotInv, ClaimInv, CountInv, WaitInv, Established
  <1>4. Users(h) = Users(sv)
    BY <1>2 DEF Users
  <1> QED
    BY <1>2, <1>3, <1>4 DEF ServerOK, h

\* Draining the connect queue into m_destroyCb keeps the slots accounted for.
LEMMA ServerDestroyOK ==
    ASSUME NEW sv, ServerOK(sv)
    PROVE  /\ ServerOK(ServerDestroy(sv))
           /\ Users(ServerDestroy(sv)) = Users(sv)
  <1>1. CASE sv.connectQueue = << >>
    BY <1>1, ServerDestroyedOK DEF ServerDestroy
  <1>2. CASE sv.connectQueue # << >>
    <2> DEFINE h == ServerDestroy(sv)
    <2>1. sv \in ServerType
      BY DEF ServerOK
    <2>2. /\ h.connectQueue = << >>
          /\ h.unconnectQueue = sv.unconnectQueue
          /\ h.waitingQueue = sv.waitingQueue
          /\ h.connectCount = sv.connectCount
          /\ h.inUse = sv.inUse
          /\ h.toBeDestroyed = sv.toBeDestroyed
          /\ h.link = [c \in Conns |-> IF c \in Range(sv.connectQueue)
                                       THEN "closing" ELSE sv.link[c]]
          /\ h.holder = sv.holder
      BY <1>2, <2>1 DEF ServerDestroy, ServerType
    <2>3. sv.link \in [Conns -> Links] /\ Len(sv.connectQueue) \in Nat
      BY <2>1 DEF ServerType
    <2>4. h \in ServerType
      <3>1. h.link \in [Conns -> Links]
        BY <2>2, <2>3 DEF Links
      <3>2. sv.freeConnectCount - Len(sv.connectQueue) \in Int
        BY <2>1, <2>3 DEF ServerType
      <3>3. << >> \in Seq(Conns)
        OBVIOUS
      <3> QED
        BY <1>2, <2>1, <2>2, <3>1, <3>2, <3>3 DEF ServerDestroy, ServerType
    <2> HIDE DEF h
    <2>5. Range(h.connectQueue) = {} /\ IsInjective(h.connectQueue)
      BY <2>2 DEF Range, IsInjective
    <2>6. SlotInv(h)
      BY <2>2, <2>5 DEF ServerOK, SlotInv
    <2>7. Established(h) = Established(sv)
      BY <2>2 DEF ServerOK, SlotInv, Established
    <2>8. ClaimInv(h) /\ CountInv(h) /\ WaitInv(h)
      BY <2>2, <2>7 DEF ServerOK, ClaimInv, CountInv, WaitInv
    <2>9. Users(h) = Users(sv)
      BY <2>2 DEF Users
    <2> QED
      BY <2>4, <2>6, <2>8, <2>9 DEF ServerOK, h
  <1> QED
    BY <1>1, <1>2

\* A loose connection goes to the head of the waiting queue or is parked.
LEMMA PutBackConnectOK ==
    ASSUME NEW sv, NEW c, Loose(sv, c)
    PROVE  /\ ServerOK(PutBackConnect(sv, c))
           /\ Users(PutBackConnect(sv, c)) = Users(sv)
  <1>1. CASE sv.waitingQueue = << >>
    <2>1. /\ ServerOK(ConnectQueuePut(sv, c))
          /\ Users(ConnectQueuePut(sv, c)) = Users(sv)
      BY <1>1, ParkOK
    <2> QED
      BY <1>1, <2>1, ServerDestroyOK DEF PutBackConnect
  <1>2. CASE sv.waitingQueue # << >>
    <2> DEFINE g == [sv EXCEPT !.waitingQueue = Tail(@)]
               sr == Head(sv.waitingQueue)
    <2>1. sv \in ServerType
      BY DEF Loose
    <2>2. sv.waitingQueue \in Seq(SubReqs) /\ IsInjective(sv.waitingQueue)
      BY <2>1 DEF Loose, ClaimInv, ServerType
    <2>3. /\ Tail(sv.waitingQueue) \in Seq(SubReqs)
          /\ sr \in SubReqs /\ sr \in Range(sv.waitingQueue)
          /\ IsInjective(Tail(sv.waitingQueue))
          /\ Range(Tail(sv.waitingQueue)) = Range(sv.waitingQueue) \ {sr}
      BY <1>2, <2>2, TailFacts
    <2>4. /\ g.connectQueue = sv.connectQueue
          /\ g.unconnectQueue = sv.unconnectQueue
          /\ g.waitingQueue = Tail(sv.waitingQueue)
          /\ g.connectCount = sv.connectCount
          /\ g.inUse = sv.inUse
          /\ g.toBeDestroyed = sv.toBeDestroyed
          /\ g.link = sv.link
          /\ g.holder = sv.holder
      BY <2>1 DEF ServerType
    <2>5. g \in ServerType
      BY <2>1, <2>3 DEF ServerType
    <2>6. PutBackConnect(sv, c) = HandOver(g, c, sr)
      BY <1>2 DEF PutBackConnect, WaitingQueueGet
    <2> HIDE DEF g, sr
    <2>7. ClaimInv(g)
      BY <2>3, <2>4 DEF Loose, ClaimInv
    <2>8. CountInv(g) /\ WaitInv(g)
      BY <1>2, <2>4 DEF Loose, CountInv, WaitInv, Established
    <2>9. Loose(g, c)
      BY <2>4, <2>5, <2>7, <2>8 DEF Loose
    <2>10. sv.inUse \subseteq Conns
      BY <2>1 DEF ServerType
    <2>11. sr \notin Users(g) /\ Users(g) \cup {sr} = Users(sv)
      BY <2>3, <2>4, <2>10 DEF Users, Loose, ClaimInv
    <2> QED
      BY <2>3, <2>6, <2>9, <2>11, HandOverOK
  <1> QED
    BY <1>1, <1>2

\* Starting a connect moves the first unconnected slot out of its queue.
LEMMA CreateNewConnectOK ==
    ASSUME NEW sv, ServerOK(sv)
    PROVE  /\ ServerOK(CreateNewConnect(sv))
           /\ Users(CreateNewConnect(sv)) = Users(sv)
           /\ CreateNewConnect(sv).connectQueue = sv.connectQueue
           /\ CreateNewConnect(sv).waitingQueue = sv.waitingQueue
  <1>1. CASE sv.unconnectQueue = << >>
    BY <1>1 DEF CreateNewConnect
  <1>2. CASE sv.unconnectQueue # << >>
    <2> DEFINE h == CreateNewConnect(sv)
               c == Head(sv.unconnectQueue)
    <2>1. sv \in ServerType
      BY DEF ServerOK
    <2>2. sv.unconnectQueue \in Seq(Conns) /\ IsInjective(sv.unconnectQueue)
      BY <2>1 DEF ServerOK, SlotInv, ServerType
    <2>3. /\ Tail(sv.unconnectQueue) \in Seq(Conns)
          /\ c \in Conns /\ c \in Range(sv.unconnectQueue)
          /\ IsInjective(Tail(sv.unconnectQueue))
          /\ Range(Tail(sv.unconnectQueue)) = Range(sv.unconnectQueue) \ {c}
      BY <1>2, <2>2, TailFacts
    <2>4. /\ h.connectQueue = sv.connectQueue
          /\ h.unconnectQueue = Tail(sv.unconnectQueue)
          /\ h.waitingQueue = sv.waitingQueue
          /\ h.connectCount = sv.connectCount
          /\ h.inUse = sv.inUse
          /\ h.toBeDestroyed = sv.toBeDestroyed
          /\ h.link = [sv.link EXCEPT ![c] = "connecting"]
          /\ h.holder = sv.holder
      BY <1>2, <2>1 DEF CreateNewConnect, UnconnectQueueGet, ServerType
    <2>5. h \in ServerType
      BY <1>2, <2>1, <2>3 DEF CreateNewConnect, UnconnectQueueGet, ServerType, Links
    <2>6. sv.link \in [Conns -> Links]
      BY <2>1 DEF ServerType
    <2>7. /\ h.link[c] = "connecting" /\ sv.link[c] = "none"
          /\ \A d \in Conns \ {c} : h.link[d] = sv.link[d]
      BY <2>3, <2>4, <2>6 DEF ServerOK, SlotInv
    <2> HIDE DEF h, c
    <2>8. SlotInv(h)
      BY <2>3, <2>4, <2>7 DEF ServerOK, SlotInv
    <2>9. Established(h) = Established(sv)
      BY <2>3, <2>7 DEF Established
    <2>10. ClaimInv(h) /\ CountInv(h) /\ WaitInv(h)
      BY <2>4, <2>9 DEF ServerOK, ClaimInv, CountInv, WaitInv
    <2>11. Users(h) = Users(sv)
      BY <2>4 DEF Users
    <2> QED
      BY <2>4, <2>5, <2>8, <2>10, <2>11 DEF ServerOK, h
  <1> QED
    BY <1>1, <1>2

\* pool_fetch_connect for a sub-request the server does not know.
LEMMA FetchConnectOK ==
    ASSUME NEW sv, ServerOK(sv), NEW sr \in SubReqs, sr \notin Users(sv)
    PROVE  /\ ServerOK(FetchConnect(sv, sr))
           /\ Users(FetchConnect(sv, sr)) = Users(sv) \cup {sr}
  <1>1. CASE sv.connectQueue # << >>
    BY <1>1, ConnectQueueGetOK, HandOverOK DEF FetchConnect
  <1>2. CASE sv.connectQueue = << >>
    <2> DEFINE g == IF sv.connectCount < ConnectPerServer
                    THEN CreateNewConnect(sv) ELSE sv
               h == [g EXCEPT !.waitingQueue = Append(@, sr)]
    <2>1. FetchConnect(sv, sr) = h
      BY <1>2 DEF FetchConnect, WaitingQueuePut
    <2>2. /\ ServerOK(g) /\ Users(g) = Users(sv)
          /\ g.connectQueue = << >>
      BY <1>2, CreateNewConnectOK
    <2> HIDE DEF g
    <2>3. g \in ServerType
      BY <2>2 DEF ServerOK
    <2>4. /\ g.waitingQueue \in Seq(SubReqs) /\ IsInjective(g.waitingQueue)
          /\ sr \notin Range(g.waitingQueue)
      BY <2>2, <2>3 DEF ServerOK, ClaimInv, ServerType, Users
    <2>5. /\ Append(g.waitingQueue, sr) \in Seq(SubReqs)
          /\ IsInjective(Append(g.waitingQueue, sr))
          /\ Range(Append(g.waitingQueue, sr)) = Range(g.waitingQueue) \cup {sr}
      BY <2>4, AppendFacts
    <2>6. /\ h.connectQueue = g.connectQueue
          /\ h.unconnectQueue = g.unconnectQueue
          /\ h.waitingQueue = Append(g.waitingQueue, sr)
          /\ h.connectCount = g.connectCount
          /\ h.inUse = g.inUse
          /\ h.toBeDestroyed = g.toBeDestroyed
          /\ h.link = g.link
          /\ h.holder = g.holder
      BY <2>3 DEF ServerType
    <2>7. h \in ServerType
      BY <2>3, <2>5 DEF ServerType
    <2> HIDE DEF h
    <2>8. SlotInv(h) /\ CountInv(h) /\ WaitInv(h)
      BY <2>2, <2>6 DEF ServerOK, SlotInv, CountInv, WaitInv, Established
    <2>9. \A c \in Conns : g.holder[c] # sr
      BY <2>2, PoolAssumption DEF ServerOK, ClaimInv, Users
    <2>10. ClaimInv(h)
      BY <2>2, <2>5, <2>6, <2>9 DEF ServerOK, ClaimInv
    <2>11. Users(h) = Users(g) \cup {sr}
      BY <2>5, <2>6 DEF Users
    <2> QED
      BY <2>1, <2>2, <2>7, <2>8, <2>10, <2>11 DEF ServerOK
  <1> QED
    BY <1>1, <1>2

\* _pool_waiting_queue_rm.
LEMMA WaitingQueueRmOK ==
    ASSUME NEW sv, ServerOK(sv), NEW sr
    PROVE  /\ ServerOK(WaitingQueueRm(sv, sr))
           /\ Users(WaitingQueueRm(sv, sr)) \subseteq Users(sv)
  <1> DEFINE h == [sv EXCEPT !.waitingQueue = Unlink(@, sr)]
  <1>1. sv \in ServerType
    BY DEF ServerOK
  <1>2. sv.waitingQueue \in Seq(SubReqs) /\ IsInjective(sv.waitingQueue)
    BY <1>1 DEF ServerOK, ClaimInv, ServerType
  <1>3. /\ Unlink(sv.waitingQueue, sr) \in Seq(SubReqs)
        /\ IsInjective(Unlink(sv.waitingQueue, sr))
        /\ Range(Unlink(sv.waitingQueue, sr)) = Range(sv.waitingQueue) \ {sr}
        /\ sv.waitingQueue = << >> => Unlink(sv.waitingQueue, sr) = << >>
    BY <1>2, UnlinkFacts
  <1>4. /\ h.connectQueue = sv.connectQueue
        /\ h.unconnectQueue = sv.unconnectQueue
        /\ h.waitingQueue = Unlink(sv.waitingQueue, sr)
        /\ h.connectCount = sv.connectCount
        /\ h.inUse = sv.inUse
        /\ h.toBeDestroyed = sv.toBeDestroyed
        /\ h.link = sv.link
        /\ h.holder = sv.holder
    BY <1>1 DEF ServerType
  <1>5. h \in ServerType
    BY <1>1, <1>3 DEF ServerType
  <1>6. WaitingQueueRm(sv, sr) \in {h, ServerDestroy(h)}
    BY DEF WaitingQueueRm
  <1> HIDE DEF h
  <1>7. SlotInv(h) /\ CountInv(h) /\ WaitInv(h)
    BY <1>3, <1>4 DEF ServerOK, SlotInv, CountInv, WaitInv, Established
  <1>8. ClaimInv(h)
    BY <1>3, <1>4 DEF ServerOK, ClaimInv
  <1>9. Users(h) \subseteq Users(sv)
    BY <1>3, <1>4 DEF Users
  <1>10. ServerOK(h)
    BY <1>5, <1>7, <1>8 DEF ServerOK
  <1> QED
    BY <1>6, <1>9, <1>10, ServerDestroyOK

\* The server once a connect succeeded, before the connection is put back.
Connected(sv, c) ==
    [[sv EXCEPT !.inUse = @ \ {c}, !.toBeDestroyed = @ \ {c}]
        EXCEPT !.link[c] = "up", !.connectCount = @ + 1]

LEMMA ConnectedLoose ==
    ASSUME NEW sv, ServerOK(sv), NEW c \in Conns, sv.link[c] = "connecting"
    PROVE  LET g == Connected(sv, c)
           IN  /\ Loose(g, c)
               /\ Users(g) = Users(sv)
               /\ g.connectQueue = sv.connectQueue
               /\ g.waitingQueue = sv.waitingQueue
               /\ g.inUse = sv.inUse
               /\ g.holder = sv.holder
               /\ g.destroyFlag = sv.destroyFlag /\ g.gone = sv.gone
  <1> DEFINE g == Connected(sv, c)
  <1>1. sv \in ServerType
    BY DEF ServerOK
  <1>2. /\ c \notin sv.inUse
        /\ c \notin Range(sv.unconnectQueue)
        /\ c \notin Range(sv.connectQueue)
    BY DEF ServerOK, SlotInv
  <1>3. sv.link \in [Conns -> Links] /\ sv.connectCount \in Int
    BY <1>1 DEF ServerType
  <1>4. /\ g.connectQueue = sv.connectQueue
        /\ g.unconnectQueue = sv.unconnectQueue
        /\ g.waitingQueue = sv.waitingQueue
        /\ g.connectCount = sv.connectCount + 1
        /\ g.inUse = sv.inUse \ {c}
        /\ g.toBeDestroyed = sv.toBeDestroyed \ {c}
        /\ g.link = [sv.link EXCEPT ![c] = "up"]
        /\ g.holder = sv.holder
        /\ g.destroyFlag = sv.destroyFlag /\ g.gone = sv.gone
    BY <1>1 DEF ServerType, Connected
  <1>5. g \in ServerType
    <2>1. sv.connectCount + 1 \in Int
      BY <1>3
    <2> QED
      BY <1>1, <1>3, <2>1 DEF ServerType, Links, Connected
  <1> HIDE DEF g
  <1>6. /\ g.link[c] = "up" /\ g.inUse = sv.inUse
        /\ \A d \in Conns \ {c} : g.link[d] = sv.link[d]
    BY <1>2, <1>3, <1>4
  <1>7. /\ Established(g) = Established(sv) \cup {c}
        /\ c \notin Established(sv) /\ Established(sv) \subseteq Conns
    BY <1>6 DEF Established
  <1>8. CountInv(g)
    BY <1>4, <1>7, EstablishedFacts DEF ServerOK, CountInv
  <1>9. ClaimInv(g) /\ WaitInv(g)
    BY <1>4, <1>6 DEF ServerOK, ClaimInv, WaitInv
  <1>10. Loose(g, c)
    BY <1>2, <1>4, <1>5, <1>6, <1>8, <1>9 DEF ServerOK, SlotInv, Loose
  <1>11. Users(g) = Users(sv)
    BY <1>4, <1>6 DEF Users
  <1> QED
    BY <1>4, <1>6, <1>10, <1>11 DEF g

\* _pool_on_connect_created, for a slot whose connect was under way.
LEMMA OnConnectCreatedOK ==
    ASSUME NEW sv, ServerOK(sv), NEW c \in Conns,
           sv.link[c] = "connecting", NEW ok \in BOOLEAN
    PROVE  /\ ServerOK(OnConnectCreated(sv, c, ok))
           /\ Users(OnConnectCreated(sv, c, ok)) = Users(sv)
  <1>1. sv \in ServerType
    BY DEF ServerOK
  <1>2. /\ c \notin sv.inUse
        /\ c \notin Range(sv.unconnectQueue)
        /\ c \notin Range(sv.connectQueue)
    BY DEF ServerOK, SlotInv
  <1>3. sv.link \in [Conns -> Links] /\ sv.connectCount \in Int
    BY <1>1 DEF ServerType
  <1>4. CASE ok
    <2>1. OnConnectCreated(sv, c, ok) = PutBackConnect(Connected(sv, c), c)
      BY <1>4 DEF OnConnectCreated, Connected
    <2> QED
      BY <2>1, ConnectedLoose, PutBackConnectOK
  <1>5. CASE ~ok
    <2> DEFINE r == [sv EXCEPT !.inUse = @ \ {c}, !.toBeDestroyed = @ \ {c}]
               g == UnconnectQueuePut([r EXCEPT !.link[c] = "none"], c)
    <2>1. OnConnectCreated(sv, c, ok) \in {g, ServerDestroy(g)}
      BY <1>5 DEF OnConnectCreated
    <2>2. /\ g.connectQueue = sv.connectQueue
          /\ g.unconnectQueue = Append(sv.unconnectQueue, c)
          /\ g.waitingQueue = sv.waitingQueue
          /\ g.connectCount = sv.connectCount
          /\ g.inUse = sv.inUse \ {c}
          /\ g.toBeDestroyed = sv.toBeDestroyed \ {c}
          /\ g.link = [sv.link EXCEPT ![c] = "none"]
          /\ g.holder = sv.holder
      BY <1>1 DEF ServerType, UnconnectQueuePut
    <2>3. /\ Append(sv.unconnectQueue, c) \in Seq(Conns)
          /\ IsInjective(Append(sv.unconnectQueue, c))
          /\ Range(Append(sv.unconnectQueue, c)) = Range(sv.unconnectQueue) \cup {c}
      <3>1. sv.unconnectQueue \in Seq(Conns) /\ IsInjective(sv.unconnectQueue)
        BY <1>1 DEF ServerOK, SlotInv, ServerType
      <3> QED
        BY <1>2, <3>1, AppendFacts
    <2>4. g \in ServerType
      BY <1>1, <1>3, <2>3 DEF ServerType, Links, UnconnectQueuePut
    <2> HIDE DEF r, g
    <2>5. /\ g.link[c] = "none" /\ g.inUse = sv.inUse
          /\ \A d \in Conns \ {c} : g.link[d] = sv.link[d]
      BY <1>2, <1>3, <2>2
    <2>6. Established(g) = Established(sv)
      BY <2>5 DEF Established
    <2>7. ClaimInv(g) /\ WaitInv(g) /\ CountInv(g)
      BY <2>2, <2>5, <2>6 DEF ServerOK, ClaimInv, WaitInv, CountInv
    <2>8. SlotInv(g)
      BY <1>2, <2>2, <2>3, <2>5 DEF ServerOK, SlotInv
    <2>9. Users(g) = Users(sv)
      BY <2>2, <2>5 DEF Users
    <2>10. ServerOK(g)
      BY <2>4, <2>7, <2>8 DEF ServerOK
    <2> QED
      BY <2>1, <2>9, <2>10, ServerDestroyOK
  <1> QED
    BY <1>4, <1>5

\* _pool_on_connect_destroyed, for an established connection or one that
\* waits for this callback.
LEMMA OnConnectDestroyedOK ==
    ASSUME NEW sv, ServerOK(sv), NEW c \in Conns,
           sv.link[c] \in {"up", "closing"}
    PROVE  /\ ServerOK(OnConnectDestroyed(sv, c))
           /\ Users(OnConnectDestroyed(sv, c)) = Users(sv)
  <1>1. sv \in ServerType
    BY DEF ServerOK
  <1>2. /\ sv.link \in [Conns -> Links] /\ sv.connectCount \in Int
        /\ sv.freeConnectCount \in Int
        /\ sv.connectQueue \in Seq(Conns) /\ sv.unconnectQueue \in Seq(Conns)
    BY <1>1 DEF ServerType
  <1>3. /\ IsInjective(sv.connectQueue) /\ IsInjective(sv.unconnectQueue)
        /\ c \notin Range(sv.unconnectQueue)
        /\ c \in sv.inUse => c \notin sv.toBeDestroyed
    BY DEF ServerOK, SlotInv
  <1>4. CASE c \in sv.inUse
    <2> DEFINE h == [sv EXCEPT !.toBeDestroyed = @ \cup {c}, !.link[c] = "lost"]
    <2>1. OnConnectDestroyed(sv, c) = h
      BY <1>3, <1>4 DEF OnConnectDestroyed
    <2>2. /\ h.connectQueue = sv.connectQueue
          /\ h.unconnectQueue = sv.unconnectQueue
          /\ h.waitingQueue = sv.waitingQueue
          /\ h.connectCount = sv.connectCount
          /\ h.inUse = sv.inUse
          /\ h.toBeDestroyed = sv.toBeDestroyed \cup {c}
          /\ h.link = [sv.link EXCEPT ![c] = "lost"]
          /\ h.holder = sv.holder
      BY <1>1 DEF ServerType
    <2>3. h \in ServerType
      BY <1>1, <1>2 DEF ServerType, Links
    <2> HIDE DEF h
    <2>4. /\ h.link[c] = "lost"
          /\ \A d \in Conns \ {c} : h.link[d] = sv.link[d]
      BY <1>2, <2>2
    <2>5. Established(h) = Established(sv)
      BY <2>4 DEF Established
    <2>6. ClaimInv(h) /\ WaitInv(h) /\ CountInv(h)
      BY <2>2, <2>5 DEF ServerOK, ClaimInv, WaitInv, CountInv
    <2>7. SlotInv(h)
      BY <1>4, <2>2, <2>4 DEF ServerOK, SlotInv
    <2>8. Users(h) = Users(sv)
      BY <2>2 DEF Users
    <2> QED
      BY <2>1, <2>3, <2>6, <2>7, <2>8 DEF ServerOK
  <1>5. CASE c \notin sv.inUse
    <2> DEFINE r == ConnectQueueRm(sv, c)
               g == [UnconnectQueuePut(r, c) EXCEPT
                       !.link[c] = "none", !.connectCount = @ - 1]
    <2>1. OnConnectDestroyed(sv, c) \in {g, ServerDestroyed(g)}
      BY <1>5 DEF OnConnectDestroyed
    <2>2. /\ Append(sv.unconnectQueue, c) \in Seq(Conns)
          /\ IsInjective(Append(sv.unconnectQueue, c))
          /\ Range(Append(sv.unconnectQueue, c)) = Range(sv.unconnectQueue) \cup {c}
      BY <1>2, <1>3, AppendFacts
    <2>3. /\ Unlink(sv.connectQueue, c) \in Seq(Conns)
          /\ IsInjective(Unlink(sv.connectQueue, c))
          /\ Range(Unlink(sv.connectQueue, c)) = Range(sv.connectQueue) \ {c}
          /\ sv.connectQueue = << >> => Unlink(sv.connectQueue, c) = << >>
      BY <1>2, <1>3, UnlinkFacts
    <2>4. /\ g.connectQueue = Unlink(sv.connectQueue, c)
          /\ g.unconnectQueue = Append(sv.unconnectQueue, c)
          /\ g.waitingQueue = sv.waitingQueue
          /\ g.connectCount = sv.connectCount - 1
          /\ g.inUse = sv.inUse
          /\ g.toBeDestroyed = sv.toBeDestroyed
          /\ g.link = [sv.link EXCEPT ![c] = "none"]
          /\ g.holder = sv.holder
      BY <1>1 DEF ServerType, ConnectQueueRm, UnconnectQueuePut
    <2>5. g \in ServerType
      <3>1. sv.connectCount - 1 \in Int /\ sv.freeConnectCount - 1 \in Int
        BY <1>2
      <3>2. [sv.link EXCEPT ![c] = "none"] \in [Conns -> Links]
        BY <1>2 DEF Links
      <3> QED
        BY <1>1, <2>2, <2>3, <3>1, <3>2
        DEF ServerType, ConnectQueueRm, UnconnectQueuePut
    <2> HIDE DEF r, g
    <2>6. /\ g.link[c] = "none"
          /\ \A d \in Conns \ {c} : g.link[d] = sv.link[d]
      BY <1>2, <2>4
    <2>7. /\ Established(g) = Established(sv) \ {c}
          /\ c \in Established(sv) /\ Established(sv) \subseteq Conns
      BY <2>6 DEF Established
    <2>8. CountInv(g)
      BY <2>4, <2>7, EstablishedFacts DEF ServerOK, CountInv
    <2>9. ClaimInv(g) /\ WaitInv(g)
      BY <2>3, <2>4 DEF ServerOK, ClaimInv, WaitInv
    <2>10. SlotInv(g)
      BY <1>5, <2>2, <2>3, <2>4, <2>6 DEF ServerOK, SlotInv
    <2>11. Users(g) = Users(sv)
      BY <2>4 DEF Users
    <2>12. ServerOK(g)
      BY <2>5, <2>8, <2>9, <2>10 DEF ServerOK
    <2> QED
      BY <2>1, <2>11, <2>12, ServerDestroyedOK
  <1> QED
    BY <1>4, <1>5

\* The server once a connection was taken from its holder.
Released(sv, c) == [sv EXCEPT !.inUse = @ \ {c}, !.holder[c] = None]

LEMMA ReleasedFacts ==
    ASSUME NEW sv, ServerOK(sv), NEW c \in Conns, c \in sv.inUse
    PROVE  LET g == Released(sv, c)
           IN  /\ g \in ServerType
               /\ ClaimInv(g) /\ CountInv(g) /\ WaitInv(g)
               /\ Users(g) \subseteq Users(sv)
               /\ g.connectQueue = sv.connectQueue
               /\ g.unconnectQueue = sv.unconnectQueue
               /\ g.waitingQueue = sv.waitingQueue
               /\ g.inUse = sv.inUse \ {c}
               /\ g.toBeDestroyed = sv.toBeDestroyed
               /\ g.link = sv.link
               /\ g.holder = [sv.holder EXCEPT ![c] = None]
               /\ g.holder[c] = None
               /\ g.destroyFlag = sv.destroyFlag /\ g.gone = sv.gone
               /\ c \notin sv.toBeDestroyed => Loose(g, c)
  <1> DEFINE g == Released(sv, c)
  <1>1. sv \in ServerType
    BY DEF ServerOK
  <1>2. /\ sv.holder \in [Conns -> SubReqs \cup {None}]
        /\ sv.link \in [Conns -> Links] /\ sv.inUse \subseteq Conns
        /\ sv.waitingQueue \in Seq(SubReqs)
    BY <1>1 DEF ServerType
  <1>3. /\ g.connectQueue = sv.connectQueue
        /\ g.unconnectQueue = sv.unconnectQueue
        /\ g.waitingQueue = sv.waitingQueue
        /\ g.connectCount = sv.connectCount
        /\ g.inUse = sv.inUse \ {c}
        /\ g.toBeDestroyed = sv.toBeDestroyed
        /\ g.link = sv.link
        /\ g.holder = [sv.holder EXCEPT ![c] = None]
        /\ g.destroyFlag = sv.destroyFlag /\ g.gone = sv.gone
    BY <1>1 DEF ServerType, Released
  <1>4. g \in ServerType
    BY <1>1 DEF ServerType, Released
  <1> HIDE DEF g
  <1>6. /\ g.holder[c] = None
        /\ \A d \in Conns \ {c} : g.holder[d] = sv.holder[d]
    BY <1>2, <1>3
  <1>7. None \notin Range(sv.waitingQueue)
    BY <1>2, PoolAssumption DEF Range
  <1>8. ClaimInv(g)
    BY <1>3, <1>6, <1>7 DEF ServerOK, ClaimInv
  <1>9. CountInv(g) /\ WaitInv(g)
    BY <1>3 DEF ServerOK, CountInv, WaitInv, Established
  <1>10. Users(g) \subseteq Users(sv)
    BY <1>2, <1>3, <1>6 DEF Users
  <1>11. /\ c \notin Range(sv.connectQueue) /\ c \notin Range(sv.unconnectQueue)
         /\ sv.link[c] \in {"up", "lost"}
         /\ c \notin sv.toBeDestroyed => sv.link[c] = "up"
    BY DEF ServerOK, SlotInv
  <1>12. c \notin sv.toBeDestroyed => Loose(g, c)
    BY <1>3, <1>4, <1>8, <1>9, <1>11 DEF ServerOK, SlotInv, Loose
  <1> QED
    BY <1>3, <1>4, <1>6, <1>8, <1>9, <1>10, <1>12 DEF g

\* pool_release_connect, for a connection in use.
LEMMA ReleaseConnectOK ==
    ASSUME NEW sv, ServerOK(sv), NEW c \in Conns, c \in sv.inUse,
           NEW err \in BOOLEAN
    PROVE  /\ ServerOK(ReleaseConnect(sv, c, err))
           /\ Users(ReleaseConnect(sv, c, err)) \subseteq Users(sv)
  <1> DEFINE g == Released(sv, c)
  <1>1. /\ g \in ServerType
        /\ ClaimInv(g) /\ CountInv(g) /\ WaitInv(g)
        /\ Users(g) \subseteq Users(sv)
        /\ g.connectQueue = sv.connectQueue
        /\ g.unconnectQueue = sv.unconnectQueue
        /\ g.waitingQueue = sv.waitingQueue
        /\ g.inUse = sv.inUse \ {c}
        /\ g.toBeDestroyed = sv.toBeDestroyed
        /\ g.link = sv.link
        /\ c \notin sv.toBeDestroyed => Loose(g, c)
    BY ReleasedFacts, ZenonT(40)
  <1>2. ReleaseConnect(sv, c, err) =
          IF ~err /\ c \notin sv.toBeDestroyed THEN PutBackConnect(g, c)
          ELSE [g EXCEPT !.link[c] = "closing"]
    BY DEF ReleaseConnect, Released
  <1> HIDE DEF g
  <1>3. sv.link \in [Conns -> Links]
    BY DEF ServerOK, ServerType
  <1>4. /\ c \notin Range(sv.connectQueue) /\ c \notin Range(sv.unconnectQueue)
        /\ sv.link[c] \in {"up", "lost"}
    BY DEF ServerOK, SlotInv
  <1>5. CASE ~err /\ c \notin sv.toBeDestroyed
    BY <1>1, <1>2, <1>5, PutBackConnectOK
  <1>6. CASE ~(~err /\ c \notin sv.toBeDestroyed)
    <2> DEFINE h == [g EXCEPT !.link[c] = "closing"]
    <2>1. /\ h.connectQueue = g.connectQueue
          /\ h.unconnectQueue = g.unconnectQueue
          /\ h.waitingQueue = g.waitingQueue
          /\ h.connectCount = g.connectCount
          /\ h.inUse = g.inUse
          /\ h.toBeDestroyed = g.toBeDestroyed
          /\ h.link = [g.link EXCEPT ![c] = "closing"]
          /\ h.holder = g.holder
      BY <1>1 DEF ServerType
    <2>2. h \in ServerType
      BY <1>1 DEF ServerType, Links
    <2> HIDE DEF h
    <2>3. /\ h.link[c] = "closing"
          /\ \A d \in Conns \ {c} : h.link[d] = sv.link[d]
      BY <1>1, <1>3, <2>1
    <2>4. Established(h) = Established(g)
      BY <1>1, <1>4, <2>3 DEF Established
    <2>5. ClaimInv(h) /\ WaitInv(h) /\ CountInv(h)
      BY <1>1, <2>1, <2>4 DEF ClaimInv, WaitInv, CountInv
    <2>6. SlotInv(h)
      BY <1>1, <1>4, <2>1, <2>3 DEF ServerOK, SlotInv
    <2>7. Users(h) = Users(g)
      BY <2>1 DEF Users
    <2> QED
      BY <1>1, <1>2, <1>6, <2>2, <2>5, <2>6, <2>7 DEF ServerOK, h
  <1> QED
    BY <1>5, <1>6

\* pool_destroy, for one server.
LEMMA DestroyOrFlagOK ==
    ASSUME NEW sv, ServerOK(sv)
    PROVE  /\ ServerOK(DestroyOrFlag(sv))
           /\ Users(DestroyOrFlag(sv)) = Users(sv)
  <1> DEFINE h == [sv EXCEPT !.destroyFlag = TRUE]
  <1>1. sv \in ServerType
    BY DEF ServerOK
  <1>2. /\ h \in ServerType
        /\ h.connectQueue = sv.connectQueue
        /\ h.unconnectQueue = sv.unconnectQueue
        /\ h.waitingQueue = sv.waitingQueue
        /\ h.connectCount = sv.connectCount
        /\ h.inUse = sv.inUse
        /\ h.toBeDestroyed = sv.toBeDestroyed
        /\ h.link = sv.link
        /\ h.holder = sv.holder
    BY <1>1 DEF ServerType
  <1>3. DestroyOrFlag(sv) \in {h, ServerDestroy(h)}
    BY DEF DestroyOrFlag
  <1> HIDE DEF h
  <1>4. ServerOK(h)
    BY <1>2 DEF ServerOK, SlotInv, ClaimInv, CountInv, WaitInv, Established
  <1>5. Users(h) = Users(sv)
    BY <1>2 DEF Users
  <1> QED
    BY <1>3, <1>4, <1>5, ServerDestroyOK

\* pool_build.
LEMMA InitServerOK == ServerOK(InitServer) /\ Users(InitServer) = {}
  <1> DEFINE u == [i \in 1 .. ConnectPerServer |-> i - 1]
  <1>1. ConnectPerServer \in Nat /\ ConnectPerServer > 0
    BY PoolAssumption
  <1>2. u \in Seq(Conns) /\ DOMAIN u = 1 .. ConnectPerServer
    <2>1. u \in [1 .. ConnectPerServer -> Conns]
      BY <1>1 DEF Conns
    <2> QED
      BY <1>1, <2>1
  <1>3. IsInjective(u)
    BY <1>1 DEF IsInjective
  <1>4. Range(u) = Conns
    <2>1. \A c \in Conns : c + 1 \in DOMAIN u /\ u[c + 1] = c
      BY <1>1 DEF Conns
    <2>2. \A i \in DOMAIN u : u[i] \in Conns
      BY <1>1 DEF Conns
    <2> HIDE DEF u
    <2> QED
      BY <2>1, <2>2 DEF Range
  <1>5. IsInjective(<< >>) /\ Range(<< >>) = {}
    BY DEF IsInjective, Range
  <1>6. InitServer \in ServerType
    BY <1>2 DEF InitServer, ServerType, Links
  <1>7. Established(InitServer) = {}
    BY DEF Established, InitServer
  <1>8. CountInv(InitServer)
    BY <1>7, FS_EmptySet DEF CountInv, InitServer
  <1>9. SlotInv(InitServer)
    BY <1>3, <1>4, <1>5 DEF SlotInv, InitServer
  <1>10. ClaimInv(InitServer) /\ WaitInv(InitServer)
    BY <1>5 DEF ClaimInv, WaitInv, InitServer
  <1>11. Users(InitServer) = {}
    BY <1>5 DEF Users, InitServer
  <1> QED
    BY <1>6, <1>8, <1>9, <1>10, <1>11 DEF ServerOK

-----------------------------------------------------------------------------
(* What the functions do to the users of a server: h is sv after a call. *)

\* Only pool_destroy sets the flag, and without it nothing is freed.
StaysUp(sv, h) ==
    /\ h.destroyFlag = sv.destroyFlag
    /\ ~sv.destroyFlag => h.gone = sv.gone

\* Nobody gets or loses a connection; idle ones may go out of service.
Drains(sv, h) ==
    /\ h.waitingQueue = sv.waitingQueue
    /\ h.holder = sv.holder
    /\ h.inUse = sv.inUse
    /\ Range(h.connectQueue) \subseteq Range(sv.connectQueue)

\* Connection c goes to the head of the waiting queue.
Serves(sv, h, c) ==
    /\ sv.waitingQueue # << >>
    /\ h.waitingQueue = Tail(sv.waitingQueue)
    /\ h.holder = [sv.holder EXCEPT ![c] = Head(sv.waitingQueue)]
    /\ h.inUse = sv.inUse \cup {c}
    /\ Range(h.connectQueue) = Range(sv.connectQueue)

\* Nobody waits, and connection c becomes idle or is closed with all others.
Parks(sv, h, c) ==
    /\ sv.waitingQueue = << >> /\ h.waitingQueue = << >>
    /\ h.holder = [sv.holder EXCEPT ![c] = None]
    /\ h.inUse = sv.inUse \ {c}
    /\ Range(h.connectQueue) \in {Range(sv.connectQueue) \cup {c}, {}}

\* Connection c is taken from its holder and not given to another.
Drops(sv, h, c) ==
    /\ h.waitingQueue = sv.waitingQueue
    /\ h.holder = [sv.holder EXCEPT ![c] = None]
    /\ h.inUse = sv.inUse \ {c}
    /\ Range(h.connectQueue) = Range(sv.connectQueue)

\* sr takes the idle connection c.
Takes(sv, h, c, sr) ==
    /\ c \in Range(sv.connectQueue)
    /\ h.waitingQueue = sv.waitingQueue
    /\ h.holder = [sv.holder EXCEPT ![c] = sr]
    /\ h.inUse = sv.inUse \cup {c}
    /\ Range(h.connectQueue) = Range(sv.connectQueue) \ {c}

\* sr joins the waiting queue, as no connection is idle.
Joins(sv, h, sr) ==
    /\ sv.connectQueue = << >> /\ h.connectQueue = << >>
    /\ h.waitingQueue = Append(sv.waitingQueue, sr)
    /\ h.holder = sv.holder
    /\ h.inUse = sv.inUse

LEMMA ServerDestroyEffect ==
    ASSUME NEW sv \in ServerType
    PROVE  /\ Drains(sv, ServerDestroy(sv))
           /\ Range(ServerDestroy(sv).connectQueue) = {}
           /\ ServerDestroy(sv).destroyFlag = sv.destroyFlag
  <1>1. Range(<< >>) = {}
    BY DEF Range
  <1> QED
    BY <1>1 DEF ServerDestroy, ServerDestroyed, ServerType, Drains

LEMMA FetchConnectEffect ==
    ASSUME NEW sv, ServerOK(sv), NEW sr \in SubReqs
    PROVE  LET h == FetchConnect(sv, sr)
           IN  /\ \/ \E c \in Conns : Takes(sv, h, c, sr)
                  \/ Joins(sv, h, sr)
               /\ StaysUp(sv, h)
  <1>1. sv \in ServerType
    BY DEF ServerOK
  <1>2. CASE sv.connectQueue # << >>
    <2> DEFINE c == Head(sv.connectQueue)
               h == FetchConnect(sv, sr)
    <2>1. /\ h.connectQueue = Tail(sv.connectQueue)
          /\ h.waitingQueue = sv.waitingQueue
          /\ h.inUse = sv.inUse \cup {c}
          /\ h.holder = [sv.holder EXCEPT ![c] = sr]
          /\ h.destroyFlag = sv.destroyFlag /\ h.gone = sv.gone
      BY <1>1, <1>2 DEF FetchConnect, HandOver, ConnectQueueGet, ServerType
    <2>2. sv.connectQueue \in Seq(Conns) /\ IsInjective(sv.connectQueue)
      BY <1>1 DEF ServerOK, SlotInv, ServerType
    <2>3. /\ c \in Conns /\ c \in Range(sv.connectQueue)
          /\ Range(Tail(sv.connectQueue)) = Range(sv.connectQueue) \ {c}
      BY <1>2, <2>2, TailFacts
    <2> HIDE DEF h, c
    <2>4. Takes(sv, h, c, sr)
      BY <2>1, <2>3 DEF Takes
    <2> QED
      BY <2>1, <2>3, <2>4 DEF StaysUp, h
  <1>3. CASE sv.connectQueue = << >>
    <2> DEFINE g == IF sv.connectCount < ConnectPerServer
                    THEN CreateNewConnect(sv) ELSE sv
               h == FetchConnect(sv, sr)
    <2>1. h = [g EXCEPT !.waitingQueue = Append(@, sr)]
      BY <1>3 DEF FetchConnect, WaitingQueuePut
    <2>2. /\ g \in ServerType /\ g.connectQueue = << >>
          /\ g.waitingQueue = sv.waitingQueue
          /\ g.holder = sv.holder /\ g.inUse = sv.inUse
          /\ g.destroyFlag = sv.destroyFlag /\ g.gone = sv.gone
      <3>1. g \in ServerType /\ g.connectQueue = << >>
            /\ g.waitingQueue = sv.waitingQueue
        BY <1>3, CreateNewConnectOK DEF ServerOK
      <3>2. /\ g.holder = sv.holder /\ g.inUse = sv.inUse
            /\ g.destroyFlag = sv.destroyFlag /\ g.gone = sv.gone
        BY <1>1 DEF CreateNewConnect, UnconnectQueueGet, ServerType
      <3> QED
        BY <3>1, <3>2
    <2> HIDE DEF g, h
    <2>3. /\ h.connectQueue = << >>
          /\ h.waitingQueue = Append(sv.waitingQueue, sr)
          /\ h.holder = sv.holder /\ h.inUse = sv.inUse
          /\ h.destroyFlag = sv.destroyFlag /\ h.gone = sv.gone
      BY <2>1, <2>2 DEF ServerType
    <2> QED
      BY <1>3, <2>3 DEF Joins, StaysUp, h
  <1> QED
    BY <1>2, <1>3

LEMMA ConnectMonitorEffect ==
    ASSUME NEW sv, ServerOK(sv)
    PROVE  /\ Drains(sv, ConnectMonitor(sv))
           /\ StaysUp(sv, ConnectMonitor(sv))
  <1>1. sv \in ServerType
    BY DEF ServerOK
  <1> QED
    BY <1>1 DEF ConnectMonitor, CreateNewConnect, UnconnectQueueGet,
                ServerType, Drains, StaysUp

\* The two ways of putting back a connection that is loose.
LEMMA PutBackConnectEffect ==
    ASSUME NEW sv, NEW c, Loose(sv, c), sv.holder[c] = None
    PROVE  LET h == PutBackConnect(sv, c)
           IN  /\ Serves(sv, h, c) \/ Parks(sv, h, c)
               /\ StaysUp(sv, h)
  <1> DEFINE h == PutBackConnect(sv, c)
  <1>1. sv \in ServerType /\ c \in Conns /\ c \notin sv.inUse
    BY DEF Loose
  <1>2. sv.holder = [sv.holder EXCEPT ![c] = None]
    <2>1. sv.holder \in [Conns -> SubReqs \cup {None}]
      BY <1>1 DEF ServerType
    <2> QED
      BY <1>1, <2>1
  <1>3. CASE sv.waitingQueue # << >>
    <2>1. /\ h.waitingQueue = Tail(sv.waitingQueue)
          /\ h.holder = [sv.holder EXCEPT ![c] = Head(sv.waitingQueue)]
          /\ h.inUse = sv.inUse \cup {c}
          /\ h.connectQueue = sv.connectQueue
          /\ h.destroyFlag = sv.destroyFlag /\ h.gone = sv.gone
      BY <1>1, <1>3 DEF PutBackConnect, HandOver, WaitingQueueGet, ServerType
    <2> QED
      BY <1>3, <2>1 DEF Serves, StaysUp
  <1>4. CASE sv.waitingQueue = << >>
    <2> DEFINE g == ConnectQueuePut(sv, c)
    <2>1. h \in {g, ServerDestroy(g)} /\ (~g.destroyFlag => h = g)
      BY <1>4 DEF PutBackConnect
    <2>2. /\ g.waitingQueue = << >> /\ g.holder = sv.holder
          /\ g.inUse = sv.inUse /\ g.connectQueue = Append(sv.connectQueue, c)
          /\ g.destroyFlag = sv.destroyFlag /\ g.gone = sv.gone
      BY <1>1, <1>4 DEF ConnectQueuePut, ServerType
    <2>3. g \in ServerType
      BY <1>4, ParkOK DEF ServerOK
    <2>4. Range(Append(sv.connectQueue, c)) = Range(sv.connectQueue) \cup {c}
      <3>1. sv.connectQueue \in Seq(Conns) /\ IsInjective(sv.connectQueue)
        BY <1>1 DEF Loose, ServerType
      <3> QED
        BY <1>1, <3>1, AppendFacts DEF Loose
    <2> HIDE DEF g, h
    <2>5. /\ h.waitingQueue = << >> /\ h.holder = sv.holder
          /\ h.inUse = sv.inUse /\ h.destroyFlag = sv.destroyFlag
          /\ Range(h.connectQueue) \in {Range(sv.connectQueue) \cup {c}, {}}
      <3>1. CASE h = g
        BY <2>2, <2>4, <3>1
      <3>2. CASE h = ServerDestroy(g)
        BY <2>2, <2>3, <3>2, ServerDestroyEffect DEF Drains
      <3> QED
        BY <2>1, <3>1, <3>2
    <2>6. StaysUp(sv, h)
      BY <2>1, <2>2, <2>5 DEF StaysUp
    <2>7. sv.inUse = sv.inUse \ {c}
      BY <1>1
    <2>8. Parks(sv, h, c)
      BY <1>2, <1>4, <2>5, <2>7 DEF Parks
    <2> QED
      BY <2>6, <2>8 DEF h
  <1> QED
    BY <1>3, <1>4

LEMMA OnConnectCreatedEffect ==
    ASSUME NEW sv, ServerOK(sv), NEW c \in Conns,
           sv.link[c] = "connecting", NEW ok \in BOOLEAN
    PROVE  LET h == OnConnectCreated(sv, c, ok)
           IN  /\ Serves(sv, h, c) \/ Parks(sv, h, c) \/ Drains(sv, h)
               /\ StaysUp(sv, h)
  <1> DEFINE h == OnConnectCreated(sv, c, ok)
  <1>1. sv \in ServerType
    BY DEF ServerOK
  <1>2. c \notin sv.inUse /\ sv.holder[c] = None
    BY DEF ServerOK, SlotInv, ClaimInv
  <1>3. CASE ok
    <2> DEFINE g == Connected(sv, c)
    <2>1. h = PutBackConnect(g, c)
      BY <1>3 DEF OnConnectCreated, Connected
    <2>2. /\ Loose(g, c)
          /\ g.connectQueue = sv.connectQueue
          /\ g.waitingQueue = sv.waitingQueue
          /\ g.inUse = sv.inUse /\ g.holder = sv.holder
          /\ g.destroyFlag = sv.destroyFlag /\ g.gone = sv.gone
      BY ConnectedLoose
    <2> HIDE DEF g
    <2>3. (Serves(g, h, c) \/ Parks(g, h, c)) /\ StaysUp(g, h)
      BY <1>2, <2>1, <2>2, PutBackConnectEffect
    <2> HIDE DEF h
    <2> QED
      BY <2>2, <2>3 DEF Serves, Parks, StaysUp, h
  <1>4. CASE ~ok
    <2> DEFINE r == [sv EXCEPT !.inUse = @ \ {c}, !.toBeDestroyed = @ \ {c}]
               g == UnconnectQueuePut([r EXCEPT !.link[c] = "none"], c)
    <2>1. h \in {g, ServerDestroy(g)} /\ (~g.destroyFlag => h = g)
      BY <1>4 DEF OnConnectCreated
    <2>2. /\ g.connectQueue = sv.connectQueue
          /\ g.waitingQueue = sv.waitingQueue
          /\ g.inUse = sv.inUse \ {c} /\ g.holder = sv.holder
          /\ g.destroyFlag = sv.destroyFlag /\ g.gone = sv.gone
      BY <1>1 DEF ServerType, UnconnectQueuePut
    <2>3. g \in ServerType
      <3>1. sv.unconnectQueue \in Seq(Conns)
        BY <1>1 DEF ServerType
      <3>2. Append(sv.unconnectQueue, c) \in Seq(Conns)
        BY <3>1
      <3> QED
        BY <1>1, <3>2 DEF ServerType, Links, UnconnectQueuePut
    <2>4. Drains(sv, g)
      BY <1>2, <2>2 DEF Drains
    <2> HIDE DEF g, h
    <2>5. CASE h = g
      BY <2>2, <2>4, <2>5 DEF StaysUp, h
    <2>6. CASE h = ServerDestroy(g) /\ g.destroyFlag
      <3>1. /\ Drains(g, h) /\ Range(h.connectQueue) = {}
            /\ h.destroyFlag = g.destroyFlag
        BY <2>3, <2>6, ServerDestroyEffect
      <3> QED
        BY <2>2, <2>4, <2>6, <3>1 DEF Drains, StaysUp, h
    <2> QED
      BY <2>1, <2>5, <2>6
  <1> QED
    BY <1>3, <1>4

LEMMA OnConnectDestroyedEffect ==
    ASSUME NEW sv, ServerOK(sv), NEW c \in Conns,
           sv.link[c] \in {"up", "closing"}
    PROVE  LET h == OnConnectDestroyed(sv, c)
           IN  Drains(sv, h) /\ StaysUp(sv, h)
  <1> DEFINE h == OnConnectDestroyed(sv, c)
  <1>1. sv \in ServerType
    BY DEF ServerOK
  <1>2. CASE c \in sv.inUse /\ c \notin sv.toBeDestroyed
    BY <1>1, <1>2 DEF OnConnectDestroyed, ServerType, Drains, StaysUp
  <1>3. CASE c \in sv.inUse /\ c \in sv.toBeDestroyed
    BY <1>3 DEF ServerOK, SlotInv
  <1>4. CASE c \notin sv.inUse
    <2> DEFINE r == ConnectQueueRm(sv, c)
               g == [UnconnectQueuePut(r, c) EXCEPT
                       !.link[c] = "none", !.connectCount = @ - 1]
    <2>1. h \in {g, ServerDestroyed(g)} /\ (~g.destroyFlag => h = g)
      BY <1>4 DEF OnConnectDestroyed
    <2>2. /\ g.connectQueue = Unlink(sv.connectQueue, c)
          /\ g.waitingQueue = sv.waitingQueue
          /\ g.inUse = sv.inUse /\ g.holder = sv.holder
          /\ g.destroyFlag = sv.destroyFlag /\ g.gone = sv.gone
      BY <1>1 DEF ServerType, ConnectQueueRm, UnconnectQueuePut
    <2>3. /\ ServerDestroyed(g).connectQueue = g.connectQueue
          /\ ServerDestroyed(g).waitingQueue = g.waitingQueue
          /\ ServerDestroyed(g).inUse = g.inUse
          /\ ServerDestroyed(g).holder = g.holder
          /\ ServerDestroyed(g).destroyFlag = g.destroyFlag
      BY <1>1 DEF ServerDestroyed, ServerType, ConnectQueueRm, UnconnectQueuePut
    <2>4. Range(Unlink(sv.connectQueue, c)) = Range(sv.connectQueue) \ {c}
      <3>1. sv.connectQueue \in Seq(Conns) /\ IsInjective(sv.connectQueue)
        BY <1>1 DEF ServerOK, SlotInv, ServerType
      <3> QED
        BY <3>1, UnlinkFacts
    <2> HIDE DEF g, h, r
    <2> QED
      BY <2>1, <2>2, <2>3, <2>4 DEF Drains, StaysUp, h
  <1> QED
    BY <1>2, <1>3, <1>4

LEMMA ReleaseConnectEffect ==
    ASSUME NEW sv, ServerOK(sv), NEW c \in Conns, c \in sv.inUse,
           NEW err \in BOOLEAN
    PROVE  LET h == ReleaseConnect(sv, c, err)
           IN  /\ Serves(sv, h, c) \/ Parks(sv, h, c) \/ Drops(sv, h, c)
               /\ StaysUp(sv, h)
               /\ err => Drops(sv, h, c)
  <1> DEFINE g == Released(sv, c)
             h == ReleaseConnect(sv, c, err)
  <1>1. /\ g \in ServerType
        /\ g.connectQueue = sv.connectQueue
        /\ g.waitingQueue = sv.waitingQueue
        /\ g.inUse = sv.inUse \ {c}
        /\ g.holder = [sv.holder EXCEPT ![c] = None]
        /\ g.holder[c] = None
        /\ g.destroyFlag = sv.destroyFlag /\ g.gone = sv.gone
        /\ c \notin sv.toBeDestroyed => Loose(g, c)
    BY ReleasedFacts
  <1>2. h = IF ~err /\ c \notin sv.toBeDestroyed THEN PutBackConnect(g, c)
            ELSE [g EXCEPT !.link[c] = "closing"]
    BY DEF ReleaseConnect, Released
  <1> HIDE DEF g, h
  <1>3. sv.holder \in [Conns -> SubReqs \cup {None}]
    BY DEF ServerOK, ServerType
  <1>4. CASE ~err /\ c \notin sv.toBeDestroyed
    <2>1. (Serves(g, h, c) \/ Parks(g, h, c)) /\ StaysUp(g, h)
      BY <1>1, <1>2, <1>4, PutBackConnectEffect
    <2>2. \A x : [g.holder EXCEPT ![c] = x] = [sv.holder EXCEPT ![c] = x]
      BY <1>1, <1>3
    <2>3. (sv.inUse \ {c}) \cup {c} = sv.inUse \cup {c}
      OBVIOUS
    <2>4. CASE Serves(g, h, c)
      BY <1>1, <1>4, <2>1, <2>2, <2>3, <2>4 DEF Serves, StaysUp, h
    <2>5. CASE Parks(g, h, c)
      BY <1>1, <1>4, <2>1, <2>2, <2>5 DEF Parks, StaysUp, h
    <2> QED
      BY <2>1, <2>4, <2>5
  <1>5. CASE ~(~err /\ c \notin sv.toBeDestroyed)
    <2>1. /\ h.connectQueue = g.connectQueue
          /\ h.waitingQueue = g.waitingQueue
          /\ h.inUse = g.inUse /\ h.holder = g.holder
          /\ h.destroyFlag = g.destroyFlag /\ h.gone = g.gone
      BY <1>1, <1>2, <1>5 DEF ServerType
    <2> QED
      BY <1>1, <2>1 DEF Drops, StaysUp, h
  <1> QED
    BY <1>4, <1>5

LEMMA WaitingQueueRmEffect ==
    ASSUME NEW sv, ServerOK(sv), NEW sr \in Range(sv.waitingQueue)
    PROVE  LET h == WaitingQueueRm(sv, sr)
           IN  /\ h.waitingQueue = Unlink(sv.waitingQueue, sr)
               /\ h.holder = sv.holder /\ h.inUse = sv.inUse
               /\ Range(h.connectQueue) = Range(sv.connectQueue)
               /\ StaysUp(sv, h)
  <1> DEFINE g == [sv EXCEPT !.waitingQueue = Unlink(@, sr)]
             h == WaitingQueueRm(sv, sr)
  <1>1. sv \in ServerType
    BY DEF ServerOK
  <1>2. /\ g.waitingQueue = Unlink(sv.waitingQueue, sr)
        /\ g.connectQueue = sv.connectQueue
        /\ g.inUse = sv.inUse /\ g.holder = sv.holder
        /\ g.destroyFlag = sv.destroyFlag /\ g.gone = sv.gone
    BY <1>1 DEF ServerType
  <1>3. g \in ServerType
    <2>1. sv.waitingQueue \in Seq(SubReqs) /\ IsInjective(sv.waitingQueue)
      BY <1>1 DEF ServerOK, ClaimInv, ServerType
    <2>2. Unlink(sv.waitingQueue, sr) \in Seq(SubReqs)
      BY <2>1, UnlinkFacts
    <2> QED
      BY <1>1, <2>2 DEF ServerType
  <1>4. h \in {g, ServerDestroy(g)} /\ (~g.destroyFlag => h = g)
    BY DEF WaitingQueueRm
  <1>5. sv.connectQueue = << >>
    <2>1. sv.waitingQueue # << >>
      BY DEF Range
    <2> QED
      BY <2>1 DEF ServerOK, WaitInv
  <1> HIDE DEF g, h
  <1>6. CASE h = g
    BY <1>2, <1>6 DEF StaysUp, h
  <1>7. CASE h = ServerDestroy(g) /\ g.destroyFlag
    <2>1. Drains(g, h) /\ Range(h.connectQueue) = {} /\ h.destroyFlag = g.destroyFlag
      BY <1>3, <1>7, ServerDestroyEffect
    <2>2. Range(sv.connectQueue) = {}
      BY <1>5 DEF Range
    <2> QED
      BY <1>2, <1>7, <2>1, <2>2 DEF Drains, StaysUp, h
  <1> QED
    BY <1>4, <1>6, <1>7

LEMMA DestroyOrFlagEffect ==
    ASSUME NEW sv, ServerOK(sv)
    PROVE  Drains(sv, DestroyOrFlag(sv))
  <1> DEFINE g == [sv EXCEPT !.destroyFlag = TRUE]
  <1>1. sv \in ServerType
    BY DEF ServerOK
  <1>2. g \in ServerType /\ Drains(sv, g)
    BY <1>1 DEF ServerType, Drains
  <1>3. DestroyOrFlag(sv) \in {g, ServerDestroy(g)}
    BY DEF DestroyOrFlag
  <1> HIDE DEF g
  <1>4. Drains(g, ServerDestroy(g))
    BY <1>2, ServerDestroyEffect
  <1>5. Drains(sv, ServerDestroy(g))
    BY <1>2, <1>4 DEF Drains
  <1> QED
    BY <1>2, <1>3, <1>5

\* None of them leaves a connection in use without a holder.
LEMMA EffectLeaks ==
    ASSUME NEW sv, ServerOK(sv), NEW h
    PROVE  /\ Drains(sv, h) => Leaked(h) \subseteq Leaked(sv)
           /\ \A c \in Conns :
                Serves(sv, h, c) \/ Parks(sv, h, c) \/ Drops(sv, h, c)
                  => Leaked(h) \subseteq Leaked(sv)
           /\ \A c \in Conns, sr \in SubReqs :
                Takes(sv, h, c, sr) => Leaked(h) \subseteq Leaked(sv)
           /\ \A sr \in SubReqs :
                Joins(sv, h, sr) => Leaked(h) \subseteq Leaked(sv)
  <1>1. /\ sv.holder \in [Conns -> SubReqs \cup {None}]
        /\ sv.inUse \subseteq Conns /\ sv.waitingQueue \in Seq(SubReqs)
    BY DEF ServerOK, ServerType
  <1>2. ASSUME NEW c \in Conns, Serves(sv, h, c)
        PROVE  Leaked(h) \subseteq Leaked(sv)
    <2>1. Head(sv.waitingQueue) \in SubReqs
      BY <1>1, <1>2 DEF Serves
    <2>2. Head(sv.waitingQueue) # None
      BY <2>1, PoolAssumption
    <2> QED
      BY <1>1, <1>2, <2>2 DEF Serves, Leaked
  <1>3. ASSUME NEW c \in Conns, Parks(sv, h, c) \/ Drops(sv, h, c)
        PROVE  Leaked(h) \subseteq Leaked(sv)
    BY <1>1, <1>3 DEF Parks, Drops, Leaked
  <1>4. ASSUME NEW c \in Conns, NEW sr \in SubReqs, Takes(sv, h, c, sr)
        PROVE  Leaked(h) \subseteq Leaked(sv)
    BY <1>1, <1>4, PoolAssumption DEF Takes, Leaked
  <1>5. /\ Drains(sv, h) => Leaked(h) \subseteq Leaked(sv)
        /\ \A sr \in SubReqs :
             Joins(sv, h, sr) => Leaked(h) \subseteq Leaked(sv)
    BY DEF Drains, Joins, Leaked
  <1> QED
    BY <1>2, <1>3, <1>4, <1>5

-----------------------------------------------------------------------------
(* The pool *)

\* The inductive invariant: every server is in order, and no sub-request is
\* known to two of them.
PoolInv ==
    /\ server \in [Servers -> ServerType]
    /\ \A s \in Servers : ServerOK(server[s]) /\ Leaked(server[s]) = {}
    /\ \A s, t \in Servers :
        s # t => Users(server[s]) \cap Users(server[t]) = {}

\* A step that changes one server, keeps it in order and lets no sub-request
\* in but one that nobody knew, preserves the invariant.
LEMMA UpdateOK ==
    ASSUME PoolInv, NEW s \in Servers, NEW sv, ServerOK(sv), NEW new,
           Leaked(sv) \subseteq Leaked(server[s]),
           Update(s, sv), Users(sv) \subseteq Users(server[s]) \cup new,
           \A t \in Servers : new \cap Users(server[t]) = {}
    PROVE  PoolInv'
  <1>1. server' = [server EXCEPT ![s] = sv]
    BY DEF Update
  <1>2. server \in [Servers -> ServerType] /\ sv \in ServerType
    BY DEF PoolInv, ServerOK
  <1>3. /\ server' \in [Servers -> ServerType]
        /\ server'[s] = sv
        /\ \A t \in Servers \ {s} : server'[t] = server[t]
    BY <1>1, <1>2
  <1>4. \A t \in Servers : ServerOK(server'[t]) /\ Leaked(server'[t]) = {}
    BY <1>3 DEF PoolInv
  <1>5. ASSUME NEW t \in Servers, NEW u \in Servers, t # u
        PROVE  Users(server'[t]) \cap Users(server'[u]) = {}
    <2>1. Users(server[t]) \cap Users(server[u]) = {}
      BY <1>5 DEF PoolInv
    <2>2. CASE t = s
      BY <1>3, <1>5, <2>1, <2>2
    <2>3. CASE u = s
      BY <1>3, <1>5, <2>1, <2>3
    <2>4. CASE t # s /\ u # s
      BY <1>3, <2>1, <2>4
    <2> QED
      BY <2>2, <2>3, <2>4
  <1> QED
    BY <1>3, <1>4, <1>5 DEF PoolInv

\* In particular a step that lets nobody in.
LEMMA UpdateKeepsOK ==
    ASSUME PoolInv, NEW s \in Servers, NEW sv, ServerOK(sv),
           Leaked(sv) \subseteq Leaked(server[s]),
           Update(s, sv), Users(sv) \subseteq Users(server[s])
    PROVE  PoolInv'
  <1>1. Users(sv) \subseteq Users(server[s]) \cup {}
    OBVIOUS
  <1>2. \A t \in Servers : {} \cap Users(server[t]) = {}
    OBVIOUS
  <1> QED
    BY <1>1, <1>2, UpdateOK

\* Every action preserves the invariant.
LEMMA PoolInvStep == PoolInv /\ [Next]_vars => PoolInv'
  <1> SUFFICES ASSUME PoolInv, [Next]_vars
               PROVE  PoolInv'
    OBVIOUS
  <1>0. \A s \in Servers : ServerOK(server[s])
    BY DEF PoolInv
  <1>1. ASSUME NEW s \in Servers, NEW sr \in SubReqs, Fetch(sr, s)
        PROVE  PoolInv'
    <2>1. \A t \in Servers : sr \notin Users(server[t])
      BY <1>1 DEF Fetch, Quiet, Waiting, Holding, Users
    <2>2. /\ ServerOK(FetchConnect(server[s], sr))
          /\ Users(FetchConnect(server[s], sr)) = Users(server[s]) \cup {sr}
          /\ Leaked(FetchConnect(server[s], sr)) \subseteq Leaked(server[s])
      BY <1>0, <2>1, FetchConnectOK, FetchConnectEffect, EffectLeaks
    <2>3. Update(s, FetchConnect(server[s], sr))
      BY <1>1 DEF Fetch
    <2>4. \A t \in Servers : {sr} \cap Users(server[t]) = {}
      BY <2>1
    <2> QED
      BY <2>2, <2>3, <2>4, UpdateOK
  <1>2. ASSUME NEW s \in Servers, NEW sr \in SubReqs, Abandon(s, sr)
        PROVE  PoolInv'
    <2>1. /\ ServerOK(WaitingQueueRm(server[s], sr))
          /\ Users(WaitingQueueRm(server[s], sr)) \subseteq Users(server[s])
          /\ Leaked(WaitingQueueRm(server[s], sr)) \subseteq Leaked(server[s])
      BY <1>0, <1>2, WaitingQueueRmOK, WaitingQueueRmEffect
      DEF Abandon, Waiting, Leaked
    <2>2. Update(s, WaitingQueueRm(server[s], sr))
      BY <1>2 DEF Abandon
    <2> QED
      BY <2>1, <2>2, UpdateKeepsOK
  <1>3. ASSUME NEW s \in Servers, NEW c \in Conns, NEW ok \in BOOLEAN,
               Created(s, c, ok)
        PROVE  PoolInv'
    <2>1. /\ ServerOK(OnConnectCreated(server[s], c, ok))
          /\ Users(OnConnectCreated(server[s], c, ok)) \subseteq Users(server[s])
          /\ Leaked(OnConnectCreated(server[s], c, ok)) \subseteq Leaked(server[s])
      BY <1>0, <1>3, OnConnectCreatedOK, OnConnectCreatedEffect, EffectLeaks
      DEF Created
    <2>2. Update(s, OnConnectCreated(server[s], c, ok))
      BY <1>3 DEF Created
    <2> QED
      BY <2>1, <2>2, UpdateKeepsOK
  <1>4. ASSUME NEW s \in Servers, NEW c \in Conns,
               LostIdle(s, c) \/ LostInUse(s, c) \/ Closed(s, c)
        PROVE  PoolInv'
    <2>1. server[s].link[c] \in {"up", "closing"}
      BY <1>4 DEF LostIdle, LostInUse, Closed
    <2>2. /\ ServerOK(OnConnectDestroyed(server[s], c))
          /\ Users(OnConnectDestroyed(server[s], c)) \subseteq Users(server[s])
          /\ Leaked(OnConnectDestroyed(server[s], c)) \subseteq Leaked(server[s])
      BY <1>0, <2>1, OnConnectDestroyedOK, OnConnectDestroyedEffect, EffectLeaks
    <2>3. Update(s, OnConnectDestroyed(server[s], c))
      BY <1>4 DEF LostIdle, LostInUse, Closed
    <2> QED
      BY <2>2, <2>3, UpdateKeepsOK
  <1>5. ASSUME NEW s \in Servers, NEW c \in Conns, NEW err \in BOOLEAN,
               Release(s, c, err)
        PROVE  PoolInv'
    <2>1. /\ ServerOK(ReleaseConnect(server[s], c, err))
          /\ Users(ReleaseConnect(server[s], c, err)) \subseteq Users(server[s])
          /\ Leaked(ReleaseConnect(server[s], c, err)) \subseteq Leaked(server[s])
      BY <1>0, <1>5, ReleaseConnectOK, ReleaseConnectEffect, EffectLeaks DEF Release
    <2>2. Update(s, ReleaseConnect(server[s], c, err))
      BY <1>5 DEF Release
    <2> QED
      BY <2>1, <2>2, UpdateKeepsOK
  <1>6. ASSUME NEW s \in Servers, Monitor(s)
        PROVE  PoolInv'
    <2>1. /\ ServerOK(ConnectMonitor(server[s]))
          /\ Users(ConnectMonitor(server[s])) \subseteq Users(server[s])
          /\ Leaked(ConnectMonitor(server[s])) \subseteq Leaked(server[s])
      BY <1>0, CreateNewConnectOK, ConnectMonitorEffect, EffectLeaks
      DEF ConnectMonitor
    <2>2. Update(s, ConnectMonitor(server[s]))
      BY <1>6 DEF Monitor
    <2> QED
      BY <2>1, <2>2, UpdateKeepsOK
  <1>7. CASE Destroy
    <2>1. \A s \in Servers : server'[s] = DestroyOrFlag(server[s])
      BY <1>7 DEF Destroy
    <2>2. \A s \in Servers : /\ ServerOK(server'[s])
                             /\ Users(server'[s]) = Users(server[s])
                             /\ Leaked(server'[s]) = {}
      BY <1>0, <2>1, DestroyOrFlagOK, DestroyOrFlagEffect, EffectLeaks DEF PoolInv
    <2>3. server' \in [Servers -> ServerType]
      <3>1. \A s \in Servers : DestroyOrFlag(server[s]) \in ServerType
        BY <2>1, <2>2 DEF ServerOK
      <3> QED
        BY <1>7, <3>1 DEF Destroy
    <2> QED
      BY <2>2, <2>3 DEF PoolInv
  <1>8. CASE UNCHANGED vars
    BY <1>8 DEF vars, PoolInv
  <1> QED
    BY <1>1, <1>2, <1>3, <1>4, <1>5, <1>6, <1>7, <1>8 DEF Next, Serve

\* The invariant implies what the runs of TLC check.
LEMMA PoolInvImplies ==
    PoolInv => /\ TypeOK
               /\ SlotsAccounted
               /\ ExclusiveUse
               /\ ConnectCountExact
               /\ NoIdleWhileWaiting
  <1> SUFFICES ASSUME PoolInv
               PROVE  /\ TypeOK /\ SlotsAccounted /\ ExclusiveUse
                      /\ ConnectCountExact /\ NoIdleWhileWaiting
    OBVIOUS
  <1>1. \A s \in Servers : ServerOK(server[s]) /\ Leaked(server[s]) = {}
    BY DEF PoolInv
  <1>2. \A s \in Servers : UseInv(server[s])
    BY <1>1 DEF ServerOK, ClaimInv, UseInv, Leaked
  <1>3. \A s \in Servers : Waiting(s) \cup Holding(s) = Users(server[s])
    BY <1>1 DEF Users, Waiting, Holding, Leaked
  <1>4. ExclusiveUse
    BY <1>2, <1>3 DEF PoolInv, ExclusiveUse
  <1> QED
    BY <1>1, <1>4 DEF PoolInv, ServerOK, TypeOK, SlotsAccounted,
       ConnectCountExact, NoIdleWhileWaiting

\* The invariant holds in every state of the pool.
LEMMA PoolInvAlways == Spec => []PoolInv
  <1>1. Init => PoolInv
    <2> SUFFICES ASSUME Init PROVE PoolInv
      OBVIOUS
    <2>1. \A s \in Servers : server[s] = InitServer
      BY DEF Init
    <2>2. server \in [Servers -> ServerType]
      BY InitServerOK DEF Init, ServerOK
    <2> QED
      <3>1. Leaked(InitServer) = {}
        BY DEF Leaked, InitServer
      <3> QED
        BY <2>1, <2>2, <3>1, InitServerOK DEF PoolInv
  <1> QED
    BY <1>1, PoolInvStep, PTL DEF Spec

-----------------------------------------------------------------------------
(* The abstract pool *)

\* The variables of ConnPool, as PoolRefinement gives them.
Line == [s \in Servers |-> server[s].waitingQueue]
Idle == [s \in Servers |-> Range(server[s].connectQueue)]
Owner == [s \in Servers |-> server[s].holder]

\* What a step that changes one server does to them.
LEMMA AbstractUpdate ==
    ASSUME PoolInv, NEW s \in Servers, NEW h, Update(s, h)
    PROVE  /\ Line' = [Line EXCEPT ![s] = h.waitingQueue]
           /\ Idle' = [Idle EXCEPT ![s] = Range(h.connectQueue)]
           /\ Owner' = [Owner EXCEPT ![s] = h.holder]
  <1>1. server' = [server EXCEPT ![s] = h]
    BY DEF Update
  <1>2. server \in [Servers -> ServerType]
    BY DEF PoolInv
  <1>3. server'[s] = h /\ \A t \in Servers \ {s} : server'[t] = server[t]
    BY <1>1, <1>2
  <1> QED
    BY <1>3 DEF Line, Idle, Owner

\* A sub-request that asks is outside of the pool.
LEMMA AbstractOutside ==
    ASSUME PoolInv, NEW sr \in SubReqs, Quiet(sr)
    PROVE  Abstract!Outside(sr)
  <1> SUFFICES ASSUME NEW s \in Servers
               PROVE  sr \notin Range(server[s].waitingQueue)
                                 \cup Range(server[s].holder)
    BY DEF Abstract!Outside, Abstract!Range, Range
  <1>1. sr \notin Range(server[s].waitingQueue)
    BY DEF Quiet, Waiting
  <1>2. \A c \in Conns : server[s].holder[c] # sr
    <2>1. \A c \in server[s].inUse : server[s].holder[c] # sr
      BY DEF Quiet, Holding
    <2>2. \A c \in Conns : server[s].holder[c] # None => c \in server[s].inUse
      BY DEF PoolInv, ServerOK, ClaimInv
    <2> QED
      BY <2>1, <2>2, PoolAssumption
  <1>3. DOMAIN server[s].holder = Conns
    BY DEF PoolInv, ServerType
  <1>4. sr \notin Range(server[s].holder)
    BY <1>2, <1>3 DEF Range
  <1> QED
    BY <1>1, <1>4

LEMMA TakeRefined ==
    ASSUME PoolInv, NEW s \in Servers, NEW c \in Conns, NEW sr \in SubReqs,
           NEW h, Update(s, h), Quiet(sr), Takes(server[s], h, c, sr)
    PROVE  Abstract!Take(s, c, sr)
  <1>1. Abstract!Outside(sr)
    BY AbstractOutside
  <1>2. c \in Idle[s]
    BY DEF Takes, Idle
  <1>3. /\ Line' = Line
        /\ Idle' = [Idle EXCEPT ![s] = @ \ {c}]
        /\ Owner' = [Owner EXCEPT ![s][c] = sr]
    <2>1. /\ Line' = [Line EXCEPT ![s] = Line[s]]
          /\ Idle' = [Idle EXCEPT ![s] = Idle[s] \ {c}]
          /\ Owner' = [Owner EXCEPT ![s] = [Owner[s] EXCEPT ![c] = sr]]
      <3>1. /\ Line' = [Line EXCEPT ![s] = h.waitingQueue]
            /\ Idle' = [Idle EXCEPT ![s] = Range(h.connectQueue)]
            /\ Owner' = [Owner EXCEPT ![s] = h.holder]
        BY AbstractUpdate
      <3>2. /\ Line[s] = server[s].waitingQueue /\ Owner[s] = server[s].holder
            /\ Idle[s] = Range(server[s].connectQueue)
        BY DEF Line, Idle, Owner
      <3> QED
        BY <3>1, <3>2 DEF Takes
    <2> QED
      BY <2>1 DEF Line, Idle, Owner
  <1> QED
    BY <1>1, <1>2, <1>3 DEF Abstract!Take, Line, Idle, Owner

LEMMA JoinRefined ==
    ASSUME PoolInv, NEW s \in Servers, NEW sr \in SubReqs,
           NEW h, Update(s, h), Quiet(sr), Joins(server[s], h, sr)
    PROVE  Abstract!Join(s, sr)
  <1>1. Abstract!Outside(sr)
    BY AbstractOutside
  <1>2. Idle[s] = {} /\ Range(h.connectQueue) = {}
    BY DEF Joins, Idle, Range
  <1>3. /\ Line' = [Line EXCEPT ![s] = Append(@, sr)]
        /\ Idle' = Idle /\ Owner' = Owner
    <2>1. /\ Line' = [Line EXCEPT ![s] = Append(Line[s], sr)]
          /\ Idle' = [Idle EXCEPT ![s] = Idle[s]]
          /\ Owner' = [Owner EXCEPT ![s] = Owner[s]]
      <3>1. /\ Line' = [Line EXCEPT ![s] = h.waitingQueue]
            /\ Idle' = [Idle EXCEPT ![s] = Range(h.connectQueue)]
            /\ Owner' = [Owner EXCEPT ![s] = h.holder]
        BY AbstractUpdate
      <3>2. /\ Line[s] = server[s].waitingQueue /\ Owner[s] = server[s].holder
            /\ Idle[s] = Range(server[s].connectQueue)
        BY DEF Line, Idle, Owner
      <3> QED
        BY <1>2, <3>1, <3>2 DEF Joins
    <2> QED
      BY <2>1 DEF Line, Idle, Owner
  <1> QED
    BY <1>1, <1>2, <1>3 DEF Abstract!Join, Line, Idle, Owner

LEMMA ServeRefined ==
    ASSUME PoolInv, NEW s \in Servers, NEW c \in Conns,
           c \notin Range(server[s].connectQueue),
           NEW h, Update(s, h), Serves(server[s], h, c)
    PROVE  Abstract!Offer(s, c)
  <1>1. c \notin Idle[s] /\ Line[s] # << >>
    BY DEF Serves, Idle, Line
  <1>2. /\ Line' = [Line EXCEPT ![s] = Tail(@)]
        /\ Idle' = Idle
        /\ Owner' = [Owner EXCEPT ![s][c] = Head(Line[s])]
    <2>1. /\ Line' = [Line EXCEPT ![s] = Tail(Line[s])]
          /\ Idle' = [Idle EXCEPT ![s] = Idle[s]]
          /\ Owner' = [Owner EXCEPT ![s] = [Owner[s] EXCEPT ![c] = Head(Line[s])]]
      <3>1. /\ Line' = [Line EXCEPT ![s] = h.waitingQueue]
            /\ Idle' = [Idle EXCEPT ![s] = Range(h.connectQueue)]
            /\ Owner' = [Owner EXCEPT ![s] = h.holder]
        BY AbstractUpdate
      <3>2. /\ Line[s] = server[s].waitingQueue /\ Owner[s] = server[s].holder
            /\ Idle[s] = Range(server[s].connectQueue)
        BY DEF Line, Idle, Owner
      <3> QED
        BY <3>1, <3>2 DEF Serves
    <2> QED
      BY <2>1 DEF Line, Idle, Owner
  <1> QED
    BY <1>1, <1>2 DEF Abstract!Offer, Line, Idle, Owner

\* Some slots of one server leave service, and none of those stays with an owner.
LEMMA WithdrawRefined ==
    ASSUME PoolInv, NEW s \in Servers, NEW W \in SUBSET Conns,
           NEW h, Update(s, h),
           h.waitingQueue = server[s].waitingQueue,
           Range(h.connectQueue) = Range(server[s].connectQueue) \ W,
           h.holder = [c \in Conns |-> IF c \in W THEN None
                                       ELSE server[s].holder[c]]
    PROVE  Abstract!CPNext
  <1> DEFINE WW == [t \in Servers |-> IF t = s THEN W ELSE {}]
  <1>1. WW \in [Servers -> SUBSET Conns]
    OBVIOUS
  <1>2. /\ Line' = [Line EXCEPT ![s] = h.waitingQueue]
        /\ Idle' = [Idle EXCEPT ![s] = Range(h.connectQueue)]
        /\ Owner' = [Owner EXCEPT ![s] = h.holder]
    BY AbstractUpdate
  <1>3. Line' = Line
    BY <1>2 DEF Line
  <1>4. Idle' = [t \in Servers |-> Idle[t] \ WW[t]]
    <2>1. Idle'[s] = Idle[s] \ W
      BY <1>2 DEF Idle
    <2>2. \A t \in Servers \ {s} : Idle'[t] = Idle[t]
      BY <1>2 DEF Idle
    <2>3. \A t \in Servers : Idle'[t] = Idle[t] \ WW[t]
      BY <2>1, <2>2
    <2> HIDE DEF WW
    <2> QED
      BY <2>3 DEF Idle
  <1>5. Owner' = [t \in Servers |-> [c \in Conns |->
                    IF c \in WW[t] THEN None ELSE Owner[t][c]]]
    <2>1. \A t \in Servers : Owner[t] \in [Conns -> SubReqs \cup {None}]
      BY DEF PoolInv, ServerType, Owner
    <2>2. Owner'[s] = [c \in Conns |-> IF c \in W THEN None ELSE Owner[s][c]]
      BY <1>2 DEF Owner
    <2>3. \A t \in Servers \ {s} : Owner'[t] = Owner[t]
      BY <1>2 DEF Owner
    <2>4. \A t \in Servers :
            Owner'[t] = [c \in Conns |-> IF c \in WW[t] THEN None ELSE Owner[t][c]]
      BY <2>1, <2>2, <2>3
    <2> HIDE DEF WW
    <2> QED
      BY <2>4 DEF Owner
  <1> HIDE DEF WW
  <1>6. Abstract!Withdraw(WW)
    BY <1>3, <1>4, <1>5 DEF Abstract!Withdraw, Line, Idle, Owner
  <1> QED
    BY <1>1, <1>6 DEF Abstract!CPNext

\* A connection is put where nobody waits for it: it becomes idle, or all are
\* closed.
LEMMA ParkRefined ==
    ASSUME PoolInv, NEW s \in Servers, NEW c \in Conns,
           c \notin Range(server[s].connectQueue),
           NEW h, Update(s, h), Parks(server[s], h, c)
    PROVE  Abstract!CPNext
  <1>1. CASE Range(h.connectQueue) = Range(server[s].connectQueue) \cup {c}
    <2>1. c \notin Idle[s] /\ Line[s] = << >>
      BY DEF Parks, Idle, Line
    <2>2. /\ Line' = Line
          /\ Idle' = [Idle EXCEPT ![s] = @ \cup {c}]
          /\ Owner' = [Owner EXCEPT ![s][c] = None]
      <3>1. /\ Line' = [Line EXCEPT ![s] = Line[s]]
            /\ Idle' = [Idle EXCEPT ![s] = Idle[s] \cup {c}]
            /\ Owner' = [Owner EXCEPT ![s] = [Owner[s] EXCEPT ![c] = None]]
        <4>1. /\ Line' = [Line EXCEPT ![s] = h.waitingQueue]
              /\ Idle' = [Idle EXCEPT ![s] = Range(h.connectQueue)]
              /\ Owner' = [Owner EXCEPT ![s] = h.holder]
          BY AbstractUpdate
        <4>2. /\ Line[s] = server[s].waitingQueue /\ Owner[s] = server[s].holder
              /\ Idle[s] = Range(server[s].connectQueue)
          BY DEF Line, Idle, Owner
        <4> QED
          BY <1>1, <4>1, <4>2 DEF Parks
      <3> QED
        BY <3>1 DEF Line, Idle, Owner
    <2>3. Abstract!Offer(s, c)
      BY <2>1, <2>2 DEF Abstract!Offer, Line, Idle, Owner
    <2> QED
      BY <2>3 DEF Abstract!CPNext
  <1>2. CASE Range(h.connectQueue) = {}
    <2> DEFINE W == Range(server[s].connectQueue) \cup {c}
    <2>1. W \in SUBSET Conns
      <3>1. server[s].connectQueue \in Seq(Conns)
        BY DEF PoolInv, ServerType
      <3> QED
        BY <3>1 DEF Range
    <2>2. /\ server[s].holder \in [Conns -> SubReqs \cup {None}]
          /\ \A d \in Range(server[s].connectQueue) : server[s].holder[d] = None
      BY <2>1 DEF PoolInv, ServerType, ServerOK, SlotInv, ClaimInv
    <2>3. h.holder = [d \in Conns |-> IF d \in W THEN None
                                      ELSE server[s].holder[d]]
      BY <2>2 DEF Parks
    <2>4. Range(h.connectQueue) = Range(server[s].connectQueue) \ W
      BY <1>2
    <2> HIDE DEF W
    <2> QED
      BY <2>1, <2>3, <2>4, WithdrawRefined DEF Parks
  <1> QED
    BY <1>1, <1>2 DEF Parks

\* Idle connections go out of service.
LEMMA DrainRefined ==
    ASSUME PoolInv, NEW s \in Servers, NEW h, Update(s, h),
           Drains(server[s], h)
    PROVE  Abstract!CPNext
  <1> DEFINE W == Range(server[s].connectQueue) \ Range(h.connectQueue)
  <1>1. W \in SUBSET Conns
    <2>1. server[s].connectQueue \in Seq(Conns)
      BY DEF PoolInv, ServerType
    <2> QED
      BY <2>1 DEF Range
  <1>2. /\ server[s].holder \in [Conns -> SubReqs \cup {None}]
        /\ \A d \in W : server[s].holder[d] = None
    BY <1>1 DEF PoolInv, ServerType, ServerOK, SlotInv, ClaimInv
  <1>3. h.holder = [d \in Conns |-> IF d \in W THEN None
                                    ELSE server[s].holder[d]]
    BY <1>2 DEF Drains
  <1>4. Range(h.connectQueue) = Range(server[s].connectQueue) \ W
    BY DEF Drains
  <1> HIDE DEF W
  <1> QED
    BY <1>1, <1>3, <1>4, WithdrawRefined DEF Drains

\* A connection in use goes out of service.
LEMMA DropRefined ==
    ASSUME PoolInv, NEW s \in Servers, NEW c \in Conns,
           c \notin Range(server[s].connectQueue),
           NEW h, Update(s, h), Drops(server[s], h, c)
    PROVE  Abstract!CPNext
  <1>1. server[s].holder \in [Conns -> SubReqs \cup {None}]
    BY DEF PoolInv, ServerType
  <1>2. h.holder = [d \in Conns |-> IF d \in {c} THEN None
                                    ELSE server[s].holder[d]]
    BY <1>1 DEF Drops
  <1>3. Range(h.connectQueue) = Range(server[s].connectQueue) \ {c}
    BY DEF Drops
  <1>4. {c} \in SUBSET Conns
    OBVIOUS
  <1> QED
    BY <1>2, <1>3, <1>4, WithdrawRefined DEF Drops

\* A sub-request that timed out leaves the line, and the others keep their
\* order.
LEMMA GiveUpRefined ==
    ASSUME PoolInv, NEW s \in Servers, NEW sr \in Range(server[s].waitingQueue),
           NEW h, Update(s, h),
           h.waitingQueue = Unlink(server[s].waitingQueue, sr),
           h.holder = server[s].holder,
           Range(h.connectQueue) = Range(server[s].connectQueue)
    PROVE  Abstract!CPNext
  <1> DEFINE q == server[s].waitingQueue
  <1>1. PICK k : /\ k \in DOMAIN q
                 /\ h.waitingQueue = [j \in 1 .. Len(q) - 1 |->
                                        IF j < k THEN q[j] ELSE q[j + 1]]
    <2>1. \E i \in DOMAIN q : q[i] = sr
      BY DEF Range
    <2> DEFINE k == CHOOSE i \in DOMAIN q : q[i] = sr
    <2>2. k \in DOMAIN q
      BY <2>1
    <2>3. Unlink(q, sr) = [j \in 1 .. Len(q) - 1 |->
                             IF j < k THEN q[j] ELSE q[j + 1]]
      BY <2>1 DEF Unlink
    <2> HIDE DEF k, q
    <2> QED
      BY <2>2, <2>3 DEF q
  <1>2. /\ Line' = [Line EXCEPT ![s] = h.waitingQueue]
        /\ Idle' = [Idle EXCEPT ![s] = Range(h.connectQueue)]
        /\ Owner' = [Owner EXCEPT ![s] = h.holder]
    BY AbstractUpdate
  <1>3. /\ Line[s] = q /\ Owner[s] = server[s].holder
        /\ Idle[s] = Range(server[s].connectQueue)
    BY DEF Line, Idle, Owner
  <1> HIDE DEF q
  <1>4. /\ Line' = [Line EXCEPT ![s] =
                [j \in 1 .. Len(@) - 1 |-> IF j < k THEN @[j] ELSE @[j + 1]]]
        /\ Idle' = Idle /\ Owner' = Owner
    <2>1. /\ Line' = [Line EXCEPT ![s] =
                [j \in 1 .. Len(Line[s]) - 1 |->
                   IF j < k THEN Line[s][j] ELSE Line[s][j + 1]]]
          /\ Idle' = [Idle EXCEPT ![s] = Idle[s]]
          /\ Owner' = [Owner EXCEPT ![s] = Owner[s]]
      BY <1>1, <1>2, <1>3
    <2> QED
      BY <2>1 DEF Line, Idle, Owner
  <1>5. Abstract!GiveUp(s, k)
    BY <1>1, <1>3, <1>4 DEF Abstract!GiveUp, Line, Idle, Owner
  <1> QED
    BY <1>1, <1>3, <1>5 DEF Abstract!CPNext, Line

\* pool_destroy: the idle connections of all servers may go.
LEMMA DestroyRefined ==
    ASSUME PoolInv, Destroy
    PROVE  Abstract!CPNext
  <1>1. \A s \in Servers : Drains(server[s], server'[s])
    BY DestroyOrFlagEffect DEF Destroy, PoolInv
  <1>2. \A s \in Servers : Range(server[s].connectQueue) \subseteq Conns
    <2>1. \A s \in Servers : server[s].connectQueue \in Seq(Conns)
      BY DEF PoolInv, ServerType
    <2> QED
      BY <2>1 DEF Range
  <1>3. PICK W \in [Servers -> SUBSET Conns] :
          \A s \in Servers : W[s] = Range(server[s].connectQueue)
                                     \ Range(server'[s].connectQueue)
    <2>1. [s \in Servers |-> Range(server[s].connectQueue)
                               \ Range(server'[s].connectQueue)]
            \in [Servers -> SUBSET Conns]
      BY <1>2
    <2> QED
      BY <2>1
  <1>4. Line' = Line
    BY <1>1 DEF Line, Drains
  <1>5. Idle' = [s \in Servers |-> Idle[s] \ W[s]]
    BY <1>1, <1>3 DEF Idle, Drains
  <1>6. Owner' = [s \in Servers |-> [c \in Conns |->
                    IF c \in W[s] THEN None ELSE Owner[s][c]]]
    <2>1. ASSUME NEW s \in Servers
          PROVE  server'[s].holder = [c \in Conns |-> IF c \in W[s] THEN None
                                                      ELSE server[s].holder[c]]
      <3>1. server[s].holder \in [Conns -> SubReqs \cup {None}]
        BY DEF PoolInv, ServerType
      <3>2. \A c \in W[s] : server[s].holder[c] = None
        BY <1>2, <1>3 DEF PoolInv, ServerOK, SlotInv, ClaimInv
      <3> QED
        BY <1>1, <3>1, <3>2 DEF Drains
    <2> QED
      BY <2>1 DEF Owner
  <1>7. Abstract!Withdraw(W)
    BY <1>4, <1>5, <1>6 DEF Abstract!Withdraw, Line, Idle, Owner
  <1> QED
    BY <1>7 DEF Abstract!CPNext

\* The actions of the pool, one by one.
LEMMA StepRefined == PoolInv /\ [Next]_vars => [Abstract!CPNext]_(Abstract!cpvars)
  <1> SUFFICES ASSUME PoolInv, [Next]_vars
               PROVE  Abstract!CPNext \/ UNCHANGED Abstract!cpvars
    OBVIOUS
  <1>0. \A s \in Servers : ServerOK(server[s])
    BY DEF PoolInv
  <1>1. ASSUME NEW s \in Servers, NEW sr \in SubReqs, Fetch(sr, s)
        PROVE  Abstract!CPNext
    <2> DEFINE h == FetchConnect(server[s], sr)
    <2>1. Update(s, h) /\ Quiet(sr)
      BY <1>1 DEF Fetch
    <2>2. (\E c \in Conns : Takes(server[s], h, c, sr)) \/ Joins(server[s], h, sr)
      BY <1>0, FetchConnectEffect
    <2> HIDE DEF h
    <2>3. (\E c \in Conns : Abstract!Take(s, c, sr)) \/ Abstract!Join(s, sr)
      BY <2>1, <2>2, TakeRefined, JoinRefined
    <2> QED
      BY <2>3 DEF Abstract!CPNext
  <1>2. ASSUME NEW s \in Servers, NEW sr \in SubReqs, Abandon(s, sr)
        PROVE  Abstract!CPNext
    <2> DEFINE h == WaitingQueueRm(server[s], sr)
    <2>1. Update(s, h) /\ sr \in Range(server[s].waitingQueue)
      BY <1>2 DEF Abandon, Waiting
    <2>2. /\ h.waitingQueue = Unlink(server[s].waitingQueue, sr)
          /\ h.holder = server[s].holder
          /\ Range(h.connectQueue) = Range(server[s].connectQueue)
      BY <1>0, <2>1, WaitingQueueRmEffect
    <2> HIDE DEF h
    <2> QED
      BY <2>1, <2>2, GiveUpRefined
  <1>3. ASSUME NEW s \in Servers, NEW c \in Conns, NEW h, Update(s, h),
               c \notin Range(server[s].connectQueue),
               \/ Serves(server[s], h, c)
               \/ Parks(server[s], h, c)
               \/ Drops(server[s], h, c)
               \/ Drains(server[s], h)
        PROVE  Abstract!CPNext
    <2>1. CASE Serves(server[s], h, c)
      <3>1. Abstract!Offer(s, c)
        BY <1>3, <2>1, ServeRefined
      <3> QED
        BY <3>1 DEF Abstract!CPNext
    <2> QED
      BY <1>3, <2>1, ParkRefined, DropRefined, DrainRefined
  <1>4. ASSUME NEW s \in Servers, NEW c \in Conns, NEW ok \in BOOLEAN,
               Created(s, c, ok)
        PROVE  Abstract!CPNext
    <2> DEFINE h == OnConnectCreated(server[s], c, ok)
    <2>1. Update(s, h) /\ server[s].link[c] = "connecting"
      BY <1>4 DEF Created
    <2>2. \/ Serves(server[s], h, c) \/ Parks(server[s], h, c)
          \/ Drains(server[s], h)
      BY <1>0, <2>1, OnConnectCreatedEffect
    <2>3. c \notin Range(server[s].connectQueue)
      BY <1>0, <2>1 DEF ServerOK, SlotInv
    <2> HIDE DEF h
    <2> QED
      BY <1>3, <2>1, <2>2, <2>3
  <1>5. ASSUME NEW s \in Servers, NEW c \in Conns,
               LostIdle(s, c) \/ LostInUse(s, c) \/ Closed(s, c)
        PROVE  Abstract!CPNext
    <2> DEFINE h == OnConnectDestroyed(server[s], c)
    <2>1. Update(s, h) /\ server[s].link[c] \in {"up", "closing"}
      BY <1>5 DEF LostIdle, LostInUse, Closed
    <2>2. Drains(server[s], h)
      BY <1>0, <2>1, OnConnectDestroyedEffect
    <2> HIDE DEF h
    <2> QED
      BY <2>1, <2>2, DrainRefined
  <1>6. ASSUME NEW s \in Servers, NEW c \in Conns, NEW err \in BOOLEAN,
               Release(s, c, err)
        PROVE  Abstract!CPNext
    <2> DEFINE h == ReleaseConnect(server[s], c, err)
    <2>1. Update(s, h) /\ c \in server[s].inUse
      BY <1>6 DEF Release
    <2>2. \/ Serves(server[s], h, c) \/ Parks(server[s], h, c)
          \/ Drops(server[s], h, c)
      BY <1>0, <2>1, ReleaseConnectEffect
    <2>3. c \notin Range(server[s].connectQueue)
      BY <1>0, <2>1 DEF ServerOK, SlotInv
    <2> HIDE DEF h
    <2> QED
      BY <1>3, <2>1, <2>2, <2>3
  <1>7. ASSUME NEW s \in Servers, Monitor(s)
        PROVE  Abstract!CPNext
    <2> DEFINE h == ConnectMonitor(server[s])
    <2>1. Update(s, h)
      BY <1>7 DEF Monitor
    <2>2. Drains(server[s], h)
      BY <1>0, ConnectMonitorEffect
    <2> HIDE DEF h
    <2> QED
      BY <2>1, <2>2, DrainRefined
  <1>8. CASE UNCHANGED vars
    BY <1>8 DEF vars, Abstract!cpvars
  <1> QED
    BY <1>1, <1>2, <1>4, <1>5, <1>6, <1>7, <1>8, DestroyRefined DEF Next, Serve

\* Before the first callback all slots are out of service.
LEMMA InitRefined == Init => Abstract!CPInit
  <1> SUFFICES ASSUME Init PROVE Abstract!CPInit
    OBVIOUS
  <1>1. \A s \in Servers : /\ server[s].waitingQueue = << >>
                           /\ server[s].connectQueue = << >>
                           /\ server[s].holder = [c \in Conns |-> None]
    BY DEF Init, InitServer
  <1>2. Range(<< >>) = {}
    BY DEF Range
  <1> QED
    BY <1>1, <1>2 DEF Abstract!CPInit

\* pool.cpp implements the abstract pool: however the callbacks, timers and
\* releases interleave, connections are handed out to one user at a time, first
\* come first served, and no newcomer overtakes the waiting queue.
THEOREM PoolImplementsConnPool == Spec => ImplementsConnPool
  BY InitRefined, StepRefined, PoolInvAlways, PTL
  DEF Spec, ImplementsConnPool, Abstract!CPSpec

-----------------------------------------------------------------------------
(* The theorems *)

\* The type invariant of the pool.
THEOREM PoolTypeCorrect == Spec => []TypeOK
  BY PoolInvAlways, PoolInvImplies, PTL

\* Every slot of every server is in exactly one place, whatever the callbacks
\* of the plugin, the timers and the sub-requests do.
THEOREM PoolSlotsAccounted == Spec => []SlotsAccounted
  BY PoolInvAlways, PoolInvImplies, PTL

\* No connection ever has two users.
THEOREM PoolExclusiveUse == Spec => []ExclusiveUse
  BY PoolInvAlways, PoolInvImplies, PTL

\* m_connectCount is exact.
THEOREM PoolConnectCountExact == Spec => []ConnectCountExact
  BY PoolInvAlways, PoolInvImplies, PTL

\* Nobody waits while a connection is idle.
THEOREM PoolNoIdleWhileWaiting == Spec => []NoIdleWhileWaiting
  BY PoolInvAlways, PoolInvImplies, PTL

-----------------------------------------------------------------------------
(* A pool that goes.  Where connections do not fail, the counts by which     *)
(* pool_destroy and its successors decide are exact.                         *)

\* _pool_server_destroy has begun.
Draining(sv) == sv.gone \/ \E c \in Conns : sv.link[c] = "closing"

\* Before that, nothing is lost or closed and m_freeConnectCount is exact.
Steady(sv) ==
    /\ ~Draining(sv)
    /\ \A c \in Conns : sv.link[c] # "lost"
    /\ sv.freeConnectCount = Len(sv.connectQueue)

\* Afterwards nobody waits and no connection is in service; a server that is
\* freed has no connection left.
Calm(sv) ==
    \/ Steady(sv)
    \/ /\ sv.destroyFlag
       /\ sv.waitingQueue = << >>
       /\ \A c \in Conns : sv.link[c] \in {"none", "closing"}
       /\ sv.gone => \A c \in Conns : sv.link[c] = "none"
       /\ Draining(sv)

\* Two lists without repeats that share no slot and are as long as there are
\* slots have every slot between them.
LEMMA ListsCover ==
    ASSUME NEW p \in Seq(Conns), NEW q \in Seq(Conns),
           IsInjective(p), IsInjective(q), Range(p) \cap Range(q) = {},
           Len(p) + Len(q) = ConnectPerServer
    PROVE  Range(p) \cup Range(q) = Conns
  <1> DEFINE N == ConnectPerServer
             f == [i \in 1 .. N |-> IF i <= Len(p) THEN p[i] ELSE q[i - Len(p)]]
  <1>1. /\ N \in Nat /\ N > 0 /\ Len(p) \in Nat /\ Len(q) \in Nat
        /\ DOMAIN p = 1 .. Len(p) /\ DOMAIN q = 1 .. Len(q)
        /\ \A i \in 1 .. Len(p) : p[i] \in Conns
        /\ \A i \in 1 .. Len(q) : q[i] \in Conns
    BY PoolAssumption
  <1>2. \A i \in 1 .. N : ~(i <= Len(p)) => i - Len(p) \in 1 .. Len(q)
    BY <1>1
  <1>3. f \in [1 .. N -> Conns]
    BY <1>1, <1>2
  <1>4. ASSUME NEW i \in 1 .. N, NEW j \in 1 .. N, f[i] = f[j]
        PROVE  i = j
    <2>1. CASE i <= Len(p) /\ j <= Len(p)
      BY <1>1, <1>4, <2>1 DEF IsInjective
    <2>2. CASE i <= Len(p) /\ ~(j <= Len(p))
      <3>1. p[i] \in Range(p) /\ q[j - Len(p)] \in Range(q)
        BY <1>1, <1>2, <2>2 DEF Range
      <3> QED
        BY <1>4, <2>2, <3>1
    <2>3. CASE ~(i <= Len(p)) /\ j <= Len(p)
      <3>1. p[j] \in Range(p) /\ q[i - Len(p)] \in Range(q)
        BY <1>1, <1>2, <2>3 DEF Range
      <3> QED
        BY <1>4, <2>3, <3>1
    <2>4. CASE ~(i <= Len(p)) /\ ~(j <= Len(p))
      <3>1. i - Len(p) = j - Len(p)
        BY <1>1, <1>2, <1>4, <2>4 DEF IsInjective
      <3> QED
        BY <1>1, <3>1
    <2> QED
      BY <2>1, <2>2, <2>3, <2>4
  <1>5. f \in Injection(1 .. N, Conns)
    BY <1>3, <1>4 DEF Injection, IsInjective
  <1>6. /\ IsFiniteSet(1 .. N) /\ Cardinality(1 .. N) = N
        /\ IsFiniteSet(Conns) /\ Cardinality(Conns) = N
    BY <1>1, FS_Interval DEF Conns
  <1>7. f \in Surjection(1 .. N, Conns)
    BY <1>5, <1>6, FS_Injection
  <1>8. ASSUME NEW c \in Conns PROVE c \in Range(p) \cup Range(q)
    <2>1. PICK i \in 1 .. N : f[i] = c
      BY <1>7 DEF Surjection
    <2>2. CASE i <= Len(p)
      BY <1>1, <2>1, <2>2 DEF Range
    <2>3. CASE ~(i <= Len(p))
      BY <1>1, <1>2, <2>1, <2>3 DEF Range
    <2> QED
      BY <2>2, <2>3
  <1>9. Range(p) \cup Range(q) \subseteq Conns
    BY <1>1 DEF Range
  <1> QED
    BY <1>8, <1>9

\* Destruction begins only where the test for it has found every connection
\* parked, and then takes all of them out of service.
LEMMA ServerDestroyCalm ==
    ASSUME NEW sv \in ServerType, SlotInv(sv), Steady(sv), sv.destroyFlag,
           sv.waitingQueue = << >>, AllParked(sv)
    PROVE  Calm(ServerDestroy(sv))
  <1> DEFINE h == ServerDestroy(sv)
  <1>1. /\ sv.connectQueue \in Seq(Conns) /\ sv.unconnectQueue \in Seq(Conns)
        /\ sv.link \in [Conns -> Links]
    BY DEF ServerType
  <1>2. Range(sv.connectQueue) \cup Range(sv.unconnectQueue) = Conns
    <2>1. Range(sv.connectQueue) \cap Range(sv.unconnectQueue) = {}
      <3>1. Range(sv.unconnectQueue) \subseteq Conns
        BY <1>1 DEF Range
      <3> QED
        BY <3>1 DEF SlotInv
    <2>2. Len(sv.connectQueue) + Len(sv.unconnectQueue) = ConnectPerServer
      BY DEF AllParked, Steady
    <2> QED
      BY <1>1, <2>1, <2>2, ListsCover DEF SlotInv
  <1>3. CASE sv.connectQueue = << >>
    <2>1. Range(sv.connectQueue) = {}
      BY <1>3 DEF Range
    <2>2. \A c \in Conns : sv.link[c] = "none"
      BY <1>2, <2>1 DEF SlotInv
    <2>3. /\ h.gone /\ h.destroyFlag /\ h.waitingQueue = << >>
          /\ h.link = sv.link
      BY <1>3 DEF ServerDestroy, ServerDestroyed, ServerType
    <2> QED
      BY <2>2, <2>3 DEF Calm, Draining
  <1>4. CASE sv.connectQueue # << >>
    <2>1. /\ h.destroyFlag /\ h.waitingQueue = << >> /\ h.gone = sv.gone
          /\ h.link = [c \in Conns |-> IF c \in Range(sv.connectQueue)
                                       THEN "closing" ELSE sv.link[c]]
      BY <1>1, <1>4 DEF ServerDestroy, ServerType
    <2>2. ~sv.gone
      BY DEF Steady, Draining
    <2>3. \A c \in Conns : h.link[c] = IF c \in Range(sv.connectQueue)
                                       THEN "closing" ELSE "none"
      BY <1>2, <2>1 DEF SlotInv
    <2>4. PICK d \in Conns : d \in Range(sv.connectQueue)
      <3>1. Head(sv.connectQueue) \in Range(sv.connectQueue)
        BY <1>1, <1>4, TailFacts DEF SlotInv
      <3> QED
        BY <1>2, <3>1
    <2>5. h.link[d] = "closing"
      BY <2>3, <2>4
    <2> HIDE DEF h
    <2>6. Draining(h)
      BY <2>5 DEF Draining
    <2> QED
      BY <2>1, <2>2, <2>3, <2>6 DEF Calm, h
  <1> QED
    BY <1>3, <1>4

LEMMA PutBackConnectCalm ==
    ASSUME NEW sv, NEW c, Loose(sv, c), Steady(sv)
    PROVE  Calm(PutBackConnect(sv, c))
  <1> DEFINE h == PutBackConnect(sv, c)
  <1>1. sv \in ServerType
    BY DEF Loose
  <1>2. CASE sv.waitingQueue # << >>
    <2>1. /\ h.link = sv.link /\ h.gone = sv.gone
          /\ h.connectQueue = sv.connectQueue
          /\ h.freeConnectCount = sv.freeConnectCount
      BY <1>1, <1>2 DEF PutBackConnect, HandOver, WaitingQueueGet, ServerType
    <2> QED
      BY <2>1 DEF Calm, Steady, Draining
  <1>3. CASE sv.waitingQueue = << >>
    <2> DEFINE g == ConnectQueuePut(sv, c)
    <2>1. ServerOK(g)
      BY <1>3, ParkOK
    <2>2. /\ g.link = sv.link /\ g.gone = sv.gone /\ g.waitingQueue = << >>
          /\ g.connectQueue = Append(sv.connectQueue, c)
          /\ g.freeConnectCount = sv.freeConnectCount + 1
      BY <1>1, <1>3 DEF ConnectQueuePut, ServerType
    <2>3. Len(Append(sv.connectQueue, c)) = Len(sv.connectQueue) + 1
      BY <1>1 DEF ServerType, Loose
    <2>4. h = IF g.destroyFlag /\ AllParked(g) THEN ServerDestroy(g) ELSE g
      BY <1>3 DEF PutBackConnect
    <2> HIDE DEF g
    <2>5. Steady(g)
      BY <2>2, <2>3 DEF Steady, Draining
    <2> QED
      BY <2>1, <2>2, <2>4, <2>5, ServerDestroyCalm DEF ServerOK, Calm
  <1> QED
    BY <1>2, <1>3

\* Creating, waiting and giving up in a server that is not being destroyed.
LEMMA CreateNewConnectSteady ==
    ASSUME NEW sv, ServerOK(sv), Steady(sv)
    PROVE  Steady(CreateNewConnect(sv))
  <1>1. sv \in ServerType
    BY DEF ServerOK
  <1>2. CASE sv.unconnectQueue = << >>
    BY <1>2 DEF CreateNewConnect
  <1>3. CASE sv.unconnectQueue # << >>
    <2> DEFINE h == CreateNewConnect(sv)
    <2>1. /\ h.gone = sv.gone /\ h.connectQueue = sv.connectQueue
          /\ h.freeConnectCount = sv.freeConnectCount
          /\ h.link = [sv.link EXCEPT ![Head(sv.unconnectQueue)] = "connecting"]
      BY <1>1, <1>3 DEF CreateNewConnect, UnconnectQueueGet, ServerType
    <2>2. sv.link \in [Conns -> Links]
      BY <1>1 DEF ServerType
    <2>3. \A c \in Conns : h.link[c] \in {sv.link[c], "connecting"}
      BY <2>1, <2>2
    <2> HIDE DEF h
    <2>4. Steady(h)
      BY <2>1, <2>3 DEF Steady, Draining
    <2> QED
      BY <2>4 DEF h
  <1> QED
    BY <1>2, <1>3

LEMMA FetchConnectCalm ==
    ASSUME NEW sv, ServerOK(sv), Steady(sv), NEW sr \in SubReqs
    PROVE  Calm(FetchConnect(sv, sr))
  <1> DEFINE h == FetchConnect(sv, sr)
  <1>1. sv \in ServerType
    BY DEF ServerOK
  <1>2. CASE sv.connectQueue # << >>
    <2>1. /\ h.gone = sv.gone /\ h.link = sv.link
          /\ h.connectQueue = Tail(sv.connectQueue)
          /\ h.freeConnectCount = sv.freeConnectCount - 1
      BY <1>1, <1>2 DEF FetchConnect, HandOver, ConnectQueueGet, ServerType
    <2>2. Len(Tail(sv.connectQueue)) = Len(sv.connectQueue) - 1
      BY <1>1, <1>2 DEF ServerType
    <2> QED
      BY <2>1, <2>2 DEF Calm, Steady, Draining
  <1>3. CASE sv.connectQueue = << >>
    <2> DEFINE g == IF sv.connectCount < ConnectPerServer
                    THEN CreateNewConnect(sv) ELSE sv
    <2>1. Steady(g) /\ g \in ServerType
      BY <1>1, CreateNewConnectSteady, CreateNewConnectOK DEF ServerOK
    <2>2. h = WaitingQueuePut(g, sr)
      BY <1>3 DEF FetchConnect
    <2> HIDE DEF g
    <2>3. /\ h.gone = g.gone /\ h.link = g.link
          /\ h.connectQueue = g.connectQueue
          /\ h.freeConnectCount = g.freeConnectCount
      BY <2>1, <2>2 DEF WaitingQueuePut, ServerType
    <2> QED
      BY <2>1, <2>3 DEF Calm, Steady, Draining
  <1> QED
    BY <1>2, <1>3

LEMMA WaitingQueueRmCalm ==
    ASSUME NEW sv, ServerOK(sv), Steady(sv), NEW sr \in SubReqs
    PROVE  Calm(WaitingQueueRm(sv, sr))
  <1> DEFINE h == WaitingQueueRm(sv, sr)
             g == [sv EXCEPT !.waitingQueue = Unlink(@, sr)]
  <1>1. sv \in ServerType
    BY DEF ServerOK
  <1>2. Unlink(sv.waitingQueue, sr) \in Seq(SubReqs)
    BY <1>1, UnlinkFacts DEF ServerOK, ClaimInv, ServerType
  <1>3. /\ g.gone = sv.gone /\ g.link = sv.link
        /\ g.connectQueue = sv.connectQueue
        /\ g.unconnectQueue = sv.unconnectQueue
        /\ g.inUse = sv.inUse /\ g.toBeDestroyed = sv.toBeDestroyed
        /\ g.freeConnectCount = sv.freeConnectCount
        /\ g \in ServerType
    BY <1>1, <1>2 DEF ServerType
  <1>4. h = IF g.destroyFlag /\ g.waitingQueue = << >> /\ AllParked(g)
            THEN ServerDestroy(g) ELSE g
    BY DEF WaitingQueueRm
  <1> HIDE DEF g
  <1>5. Steady(g) /\ SlotInv(g)
    BY <1>3 DEF ServerOK, Steady, Draining, SlotInv
  <1> QED
    BY <1>3, <1>4, <1>5, ServerDestroyCalm DEF Calm

\* The callback of a connection that pool_destroy closed: the last one of them
\* frees the server.
LEMMA OnConnectDestroyedCalm ==
    ASSUME NEW sv, ServerOK(sv), Calm(sv), NEW c \in Conns,
           sv.link[c] = "closing", ~sv.gone
    PROVE  Calm(OnConnectDestroyed(sv, c))
  <1> DEFINE h == OnConnectDestroyed(sv, c)
             g == [UnconnectQueuePut(ConnectQueueRm(sv, c), c) EXCEPT
                     !.link[c] = "none", !.connectCount = @ - 1]
  <1>1. sv \in ServerType /\ sv.link \in [Conns -> Links]
    BY DEF ServerOK, ServerType
  <1>2. /\ sv.destroyFlag /\ sv.waitingQueue = << >>
        /\ \A d \in Conns : sv.link[d] \in {"none", "closing"}
    BY DEF Calm, Steady, Draining
  <1>3. c \notin sv.inUse
    BY DEF ServerOK, SlotInv
  <1>4. h = IF g.connectCount = 0 THEN ServerDestroyed(g) ELSE g
    <2>1. g.destroyFlag
      BY <1>1, <1>2 DEF UnconnectQueuePut, ConnectQueueRm, ServerType
    <2> QED
      BY <1>3, <2>1 DEF OnConnectDestroyed
  <1>5. /\ g.destroyFlag /\ g.waitingQueue = << >> /\ ~g.gone
        /\ g.link = [sv.link EXCEPT ![c] = "none"]
    BY <1>1, <1>2 DEF UnconnectQueuePut, ConnectQueueRm, ServerType
  <1>6. /\ ServerDestroyed(g).destroyFlag
        /\ ServerDestroyed(g).waitingQueue = << >> /\ ServerDestroyed(g).gone
        /\ ServerDestroyed(g).link = g.link
        /\ ServerDestroyed(g).connectCount = g.connectCount
    BY <1>1, <1>5 DEF ServerDestroyed, UnconnectQueuePut, ConnectQueueRm,
                      ServerType
  <1>7. ServerOK(h)
    BY OnConnectDestroyedOK
  <1> HIDE DEF g
  <1>8. /\ h.destroyFlag /\ h.waitingQueue = << >>
        /\ h.link = [sv.link EXCEPT ![c] = "none"]
        /\ h.gone <=> h.connectCount = 0
    BY <1>4, <1>5, <1>6
  <1> HIDE DEF h
  <1>9. \A d \in Conns : h.link[d] \in {"none", "closing"}
    BY <1>1, <1>2, <1>8
  <1>10. h.connectCount = Cardinality(Established(h))
    BY <1>7 DEF ServerOK, CountInv
  <1>11. Established(h) = {d \in Conns : h.link[d] = "closing"}
    BY <1>9 DEF Established
  <1>12. h.connectCount = 0 <=> Established(h) = {}
    <2>1. IsFiniteSet(Conns)
      BY PoolAssumption, FS_Interval DEF Conns
    <2>2. IsFiniteSet(Established(h))
      BY <2>1, FS_Subset DEF Established
    <2> QED
      BY <1>10, <2>2, FS_EmptySet
  <1>13. Draining(h)
    BY <1>8, <1>11, <1>12 DEF Draining
  <1>14. h.gone => \A d \in Conns : h.link[d] = "none"
    BY <1>8, <1>9, <1>11, <1>12
  <1> QED
    BY <1>8, <1>9, <1>13, <1>14 DEF Calm, h

LEMMA DestroyOrFlagCalm ==
    ASSUME NEW sv, ServerOK(sv), Steady(sv)
    PROVE  Calm(DestroyOrFlag(sv))
  <1> DEFINE g == [sv EXCEPT !.destroyFlag = TRUE]
             h == DestroyOrFlag(sv)
  <1>1. sv \in ServerType
    BY DEF ServerOK
  <1>2. /\ g.gone = sv.gone /\ g.link = sv.link
        /\ g.connectQueue = sv.connectQueue
        /\ g.unconnectQueue = sv.unconnectQueue
        /\ g.waitingQueue = sv.waitingQueue
        /\ g.connectCount = sv.connectCount
        /\ g.inUse = sv.inUse /\ g.toBeDestroyed = sv.toBeDestroyed
        /\ g.freeConnectCount = sv.freeConnectCount
        /\ g.destroyFlag /\ g \in ServerType
    BY <1>1 DEF ServerType
  <1>3. \/ h = g
        \/ h = ServerDestroy(g) /\ AllParked(g) /\ g.waitingQueue = << >>
    BY <1>2 DEF DestroyOrFlag, AllParked
  <1> HIDE DEF g, h
  <1>4. Steady(g) /\ SlotInv(g)
    BY <1>2 DEF ServerOK, Steady, Draining, SlotInv
  <1>5. Calm(h)
    BY <1>2, <1>3, <1>4, ServerDestroyCalm DEF Calm
  <1> QED
    BY <1>5 DEF h

AllCalm == \A s \in Servers : Calm(server[s])

LEMMA UpdateCalm ==
    ASSUME PoolInv, AllCalm, NEW s \in Servers, NEW sv, Calm(sv), Update(s, sv)
    PROVE  AllCalm'
  <1>1. server \in [Servers -> ServerType] /\ server' = [server EXCEPT ![s] = sv]
    BY DEF PoolInv, Update
  <1>2. \A t \in Servers : server'[t] = IF t = s THEN sv ELSE server[t]
    BY <1>1
  <1> QED
    BY <1>2 DEF AllCalm

LEMMA CalmStep ==
    ASSUME Faults \subseteq {"call"}, PoolInv, AllCalm, [Next]_vars
    PROVE  AllCalm'
  <1>0. \A s \in Servers : ServerOK(server[s]) /\ Calm(server[s])
    BY DEF PoolInv, AllCalm
  <1>1. ASSUME NEW s \in Servers, NEW sr \in SubReqs, Fetch(sr, s)
        PROVE  AllCalm'
    <2>1. Steady(server[s]) /\ Update(s, FetchConnect(server[s], sr))
      BY <1>0, <1>1 DEF Fetch, Calm
    <2> QED
      BY <1>0, <2>1, FetchConnectCalm, UpdateCalm
  <1>2. ASSUME NEW s \in Servers, NEW sr \in SubReqs, Abandon(s, sr)
        PROVE  AllCalm'
    <2>1. server[s].waitingQueue # << >>
      <3>1. Range(<< >>) = {}
        BY DEF Range
      <3> QED
        BY <1>2, <3>1 DEF Abandon, Waiting
    <2>2. Steady(server[s]) /\ Update(s, WaitingQueueRm(server[s], sr))
      BY <1>0, <1>2, <2>1 DEF Abandon, Calm
    <2> QED
      BY <1>0, <2>2, WaitingQueueRmCalm, UpdateCalm
  <1>3. ASSUME NEW s \in Servers, NEW c \in Conns, NEW ok \in BOOLEAN,
               Created(s, c, ok)
        PROVE  AllCalm'
    <2> DEFINE sv == server[s]
               g == Connected(sv, c)
    <2>1. /\ ok /\ sv.link[c] = "connecting"
          /\ Update(s, OnConnectCreated(sv, c, ok))
      BY <1>3 DEF Created
    <2>2. Steady(sv) /\ ServerOK(sv) /\ sv \in ServerType
      BY <1>0, <2>1 DEF Calm, ServerOK
    <2>3. OnConnectCreated(sv, c, ok) = PutBackConnect(g, c)
      BY <2>1 DEF OnConnectCreated, Connected
    <2>4. Loose(g, c) /\ g.connectQueue = sv.connectQueue /\ g.gone = sv.gone
      BY <2>1, <2>2, ConnectedLoose
    <2>5. /\ g.freeConnectCount = sv.freeConnectCount
          /\ g.link = [sv.link EXCEPT ![c] = "up"]
          /\ sv.link \in [Conns -> Links]
      BY <2>2 DEF Connected, ServerType
    <2> HIDE DEF g
    <2>6. \A d \in Conns : g.link[d] \in {sv.link[d], "up"}
      BY <2>5
    <2>7. Steady(g)
      BY <2>2, <2>4, <2>5, <2>6 DEF Steady, Draining
    <2>8. Calm(PutBackConnect(g, c))
      BY <2>4, <2>7, PutBackConnectCalm
    <2> QED
      BY <2>1, <2>3, <2>8, UpdateCalm
  <1>4. ASSUME NEW s \in Servers, NEW c \in Conns, Closed(s, c)
        PROVE  AllCalm'
    <2>1. /\ ~server[s].gone /\ server[s].link[c] = "closing"
          /\ Update(s, OnConnectDestroyed(server[s], c))
      BY <1>4 DEF Closed
    <2> QED
      BY <1>0, <2>1, OnConnectDestroyedCalm, UpdateCalm
  <1>5. ASSUME NEW s \in Servers, NEW c \in Conns, NEW err \in BOOLEAN,
               Release(s, c, err)
        PROVE  AllCalm'
    <2> DEFINE sv == server[s]
               g == Released(sv, c)
    <2>1. c \in sv.inUse /\ Update(s, ReleaseConnect(sv, c, err))
      BY <1>5 DEF Release
    <2>2. sv.link[c] \in {"up", "lost"} /\ ServerOK(sv)
      BY <1>0, <2>1 DEF ServerOK, SlotInv
    <2>3. Steady(sv) /\ sv.link[c] = "up" /\ sv \in ServerType
      BY <1>0, <2>2 DEF Calm, Steady, ServerOK
    <2>4. ~err /\ c \notin sv.toBeDestroyed
      BY <1>5, <2>2, <2>3 DEF Release, ServerOK, SlotInv
    <2>5. ReleaseConnect(sv, c, err) = PutBackConnect(g, c)
      BY <2>4 DEF ReleaseConnect, Released
    <2>6. /\ Loose(g, c) /\ g.connectQueue = sv.connectQueue
          /\ g.link = sv.link /\ g.gone = sv.gone
      BY <2>1, <2>2, <2>4, ReleasedFacts
    <2>7. g.freeConnectCount = sv.freeConnectCount
      BY <2>3 DEF Released, ServerType
    <2> HIDE DEF g
    <2>8. Steady(g)
      BY <2>3, <2>6, <2>7 DEF Steady, Draining
    <2>9. Calm(PutBackConnect(g, c))
      BY <2>6, <2>8, PutBackConnectCalm
    <2> QED
      BY <2>1, <2>5, <2>9, UpdateCalm
  <1>6. ASSUME NEW s \in Servers, Monitor(s)
        PROVE  AllCalm'
    <2>1. Steady(server[s]) /\ Update(s, ConnectMonitor(server[s]))
      BY <1>0, <1>6 DEF Monitor, Calm
    <2>2. Calm(ConnectMonitor(server[s]))
      BY <1>0, <2>1, CreateNewConnectSteady DEF ConnectMonitor, Calm
    <2> QED
      BY <2>1, <2>2, UpdateCalm
  <1>7. CASE Destroy
    <2>1. \A s \in Servers : /\ server'[s] = DestroyOrFlag(server[s])
                             /\ Steady(server[s])
      BY <1>0, <1>7 DEF Destroy, Calm
    <2> QED
      BY <1>0, <2>1, DestroyOrFlagCalm DEF AllCalm
  <1>8. CASE UNCHANGED vars
    BY <1>8 DEF vars, AllCalm
  <1>9. ASSUME NEW s \in Servers, NEW c \in Conns
        PROVE  ~LostIdle(s, c) /\ ~LostInUse(s, c)
    BY DEF LostIdle, LostInUse
  <1> QED
    BY <1>1, <1>2, <1>3, <1>4, <1>5, <1>6, <1>7, <1>8, <1>9 DEF Next, Serve

\* Where no connection fails or is given back with an error, pool_destroy keeps
\* the promise of its comment: a server is freed only when no sub-request waits
\* for it or holds one of its connections, and when no callback of the plugin is
\* still to come, whatever order requests, connects and waits that are given up
\* end in after it was called.
THEOREM PoolGoneIsQuiet ==
    ASSUME Faults \subseteq {"call"}
    PROVE  Spec => []GoneIsQuiet
  <1>1. Init => AllCalm
    <2>1. Steady(InitServer)
      BY DEF Steady, Draining, InitServer
    <2> QED
      BY <2>1 DEF Init, AllCalm, Calm
  <1>2. PoolInv /\ AllCalm /\ [Next]_vars => AllCalm'
    BY CalmStep
  <1>3. AllCalm => GoneIsQuiet
    BY DEF AllCalm, Calm, Steady, Draining, GoneIsQuiet
  <1> QED
    BY <1>1, <1>2, <1>3, PoolInvAlways, PTL DEF Spec
=============================================================================
