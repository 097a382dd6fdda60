--------------------------- MODULE RequestProofs ---------------------------
(***************************************************************************)
(* Proofs about Request: requests, sub-requests, connections and plugin    *)
(* calls keep referring to each other correctly, for any number of         *)
(* clients, shards, servers and connections and whatever faults occur.     *)
(***************************************************************************)
EXTENDS Request, PoolProofs

-----------------------------------------------------------------------------
(* The inductive invariant *)

InService(x) == x.state \in {"pool", "backend"}

\* A pool without servers refused it.
Refused(x) == x.state = "before" /\ x.node = None

\* A sub-request knows only servers of the pool of its shard.
Formed(sb) ==
    \A sr \in SubReqs :
        /\ sb[sr].state = "before" => sb[sr].node \in ServersOf[sr[2]] \cup {None}
        /\ InService(sb[sr]) => sb[sr].handle \in ServersOf[sr[2]] \X Conns

\* Waiting queues, holders and plugin calls agree with what the sub-requests
\* themselves record.
Linked(srv, sb, w) ==
    \A s \in Servers, sr \in SubReqs :
        /\ sr \in Range(srv[s].waitingQueue)
             <=> sb[sr].state = "before" /\ sb[sr].node = s
        /\ \A c \in Conns :
            /\ srv[s].holder[c] = sr
                 <=> InService(sb[sr]) /\ sb[sr].handle = <<s, c>>
            /\ w[s][c] = sr
                 <=> sb[sr].state = "pool" /\ sb[sr].handle = <<s, c>>

\* The memory of a sub-request lives as long as it is in its request's list.
Listed ==
    \A r \in Clients, p \in Pools :
        sub[<<r, p>>].state # "freed" <=> r \in active /\ p \in notDone[r]

\* The shards of P that shard_count still counts for r.
Outstanding(sb, P, r) == {p \in P : ~Refused(sb[<<r, p>>])}

Counted ==
    \A r \in active :
        /\ shardCount[r] = Cardinality(Outstanding(sub, notDone[r], r))
        /\ shardCount[r] > 0

Phases ==
    /\ \A r \in active \cup hasError : conn[r] = "processing"
    /\ \A r \in Clients \ active : shardCount[r] = 0 /\ notDone[r] = {}

\* Only a refused backend_call leaves a connection without a user.
NoCallLeak ==
    "call" \notin Faults =>
        /\ \A s \in Servers : Leaked(server[s]) = {}
        /\ \A sr \in SubReqs : sub[sr].state # "backend"

ServersOK ==
    /\ server \in [Servers -> ServerType]
    /\ \A s \in Servers :
        ServerOK(server[s]) /\ ~server[s].destroyFlag /\ ~server[s].gone

ReqInv ==
    /\ ReqTypeOK
    /\ ServersOK
    /\ Formed(sub)
    /\ Linked(server, sub, wire)
    /\ Listed
    /\ Counted
    /\ Phases
    /\ NoCallLeak

-----------------------------------------------------------------------------
(* Handing connections over *)

\* The sub-request that is called back for connection h.
Taker(h) == server'[h[1]].holder[h[2]]

WireType == [Servers -> [Conns -> SubReqs \cup {None}]]

\* Everybody who is called back got one connection; the rest of the memory
\* and of the calls is as the handler leaves them.
LEMMA AcquireFacts ==
    ASSUME NEW subs \in [SubReqs -> SubType], NEW calls \in WireType,
           server' \in [Servers -> ServerType],
           \A g, h \in Acquired : Taker(g) = Taker(h) => g = h,
           ReqOnAcquired(subs, calls)
    PROVE  /\ sub' \in [SubReqs -> SubType]
           /\ wire' \in WireType
           /\ \A h \in Acquired :
                /\ Taker(h) \in SubReqs
                /\ InService(sub'[Taker(h)]) /\ sub'[Taker(h)].handle = h
                /\ wire'[h[1]][h[2]] = IF sub'[Taker(h)].state = "pool"
                                       THEN Taker(h) ELSE calls[h[1]][h[2]]
                /\ "call" \notin Faults => sub'[Taker(h)].state = "pool"
           /\ \A sr \in SubReqs : (\A h \in Acquired : Taker(h) # sr)
                                    => sub'[sr] = subs[sr]
           /\ \A s \in Servers, c \in Conns :
                <<s, c>> \notin Acquired => wire'[s][c] = calls[s][c]
  <1> DEFINE got(sr) == {h \in Acquired : Taker(h) = sr}
  <1>1. PICK refused \in SUBSET Acquired :
          /\ "call" \notin Faults => refused = {}
          /\ sub' = [sr \in SubReqs |->
                IF got(sr) = {} THEN subs[sr]
                ELSE LET h == CHOOSE h \in got(sr) : TRUE
                     IN  [subs[sr] EXCEPT
                            !.handle = h,
                            !.state = IF h \in refused THEN "backend"
                                      ELSE "pool"]]
          /\ wire' = [s \in Servers |-> [c \in Conns |->
                IF <<s, c>> \in Acquired \ refused THEN Taker(<<s, c>>)
                ELSE calls[s][c]]]
    BY DEF ReqOnAcquired, Taker
  <1>2. \A h \in Acquired : /\ h \in Servers \X Conns
                            /\ Taker(h) \in SubReqs
    BY DEF Acquired, Taker, ServerType
  <1>3. \A h \in Acquired :
          sub'[Taker(h)] = [subs[Taker(h)] EXCEPT
                              !.handle = h,
                              !.state = IF h \in refused THEN "backend"
                                        ELSE "pool"]
    <2> SUFFICES ASSUME NEW h \in Acquired
                 PROVE  sub'[Taker(h)] = [subs[Taker(h)] EXCEPT
                              !.handle = h,
                              !.state = IF h \in refused THEN "backend"
                                        ELSE "pool"]
      OBVIOUS
    <2>1. got(Taker(h)) = {h}
      OBVIOUS
    <2>2. (CHOOSE g \in got(Taker(h)) : TRUE) = h
      BY <2>1
    <2> QED
      BY <1>1, <1>2, <2>1, <2>2
  <1>4. \A sr \in SubReqs : (\A h \in Acquired : Taker(h) # sr)
                              => sub'[sr] = subs[sr]
    BY <1>1
  <1>5. sub' \in [SubReqs -> SubType]
    <2>1. \A sr \in SubReqs : sub'[sr] \in SubType
      <3> SUFFICES ASSUME NEW sr \in SubReqs PROVE sub'[sr] \in SubType
        OBVIOUS
      <3>1. CASE \A h \in Acquired : Taker(h) # sr
        BY <1>4, <3>1
      <3>2. CASE \E h \in Acquired : Taker(h) = sr
        <4>1. PICK h \in Acquired : Taker(h) = sr
          BY <3>2
        <4> QED
          BY <1>2, <1>3, <4>1 DEF SubType
      <3> QED
        BY <3>1, <3>2
    <2> QED
      BY <1>1, <2>1
  <1>6. wire' \in WireType
    BY <1>1, <1>2 DEF WireType
  <1>7. \A s \in Servers, c \in Conns :
          <<s, c>> \notin Acquired => wire'[s][c] = calls[s][c]
    BY <1>1
  <1>8. ASSUME NEW h \in Acquired
        PROVE  /\ InService(sub'[Taker(h)]) /\ sub'[Taker(h)].handle = h
               /\ wire'[h[1]][h[2]] = IF sub'[Taker(h)].state = "pool"
                                      THEN Taker(h) ELSE calls[h[1]][h[2]]
               /\ "call" \notin Faults => sub'[Taker(h)].state = "pool"
    <2>1. /\ sub'[Taker(h)].handle = h
          /\ sub'[Taker(h)].state = IF h \in refused THEN "backend" ELSE "pool"
      BY <1>2, <1>3 DEF SubType
    <2>2. h[1] \in Servers /\ h[2] \in Conns /\ h = <<h[1], h[2]>>
      BY <1>2
    <2>3. wire'[h[1]][h[2]] = IF h \in Acquired \ refused THEN Taker(h)
                              ELSE calls[h[1]][h[2]]
      BY <1>1, <2>2
    <2>4. CASE h \in refused
      <3>1. "call" \in Faults
        BY <1>1, <2>4
      <3> QED
        BY <2>1, <2>3, <2>4, <3>1 DEF InService
    <2>5. CASE h \notin refused
      BY <2>1, <2>3, <2>5 DEF InService
    <2> QED
      BY <2>4, <2>5
  <1> QED
    BY <1>2, <1>4, <1>5, <1>6, <1>7, <1>8

\* The links hold after the callbacks if, before them, they held but for those
\* who are called back.
LEMMA AcquireLinks ==
    ASSUME NEW subs \in [SubReqs -> SubType], NEW calls \in WireType,
           server' \in [Servers -> ServerType],
           \A g, h \in Acquired : Taker(g) = Taker(h) => g = h,
           ReqOnAcquired(subs, calls),
           Formed(subs),
           \A h \in Acquired : /\ subs[Taker(h)].state = "before"
                               /\ h[1] \in ServersOf[Taker(h)[2]]
                               /\ \A sr \in SubReqs :
                                    ~(InService(subs[sr]) /\ subs[sr].handle = h),
           \A s \in Servers, sr \in SubReqs :
             sr \in Range(server'[s].waitingQueue)
               <=> /\ subs[sr].state = "before" /\ subs[sr].node = s
                   /\ \A h \in Acquired : Taker(h) # sr,
           \A s \in Servers, c \in Conns, sr \in SubReqs :
             <<s, c>> \notin Acquired =>
               (server'[s].holder[c] = sr
                  <=> InService(subs[sr]) /\ subs[sr].handle = <<s, c>>),
           \A s \in Servers, c \in Conns, sr \in SubReqs :
             calls[s][c] = sr
               <=> subs[sr].state = "pool" /\ subs[sr].handle = <<s, c>>
    PROVE  Formed(sub') /\ Linked(server', sub', wire')
  <1>0. /\ \A h \in Acquired :
             /\ h \in Servers \X Conns
             /\ Taker(h) \in SubReqs
             /\ InService(sub'[Taker(h)]) /\ sub'[Taker(h)].handle = h
             /\ wire'[h[1]][h[2]] = IF sub'[Taker(h)].state = "pool"
                                    THEN Taker(h) ELSE calls[h[1]][h[2]]
        /\ \A sr \in SubReqs : (\A h \in Acquired : Taker(h) # sr)
                                 => sub'[sr] = subs[sr]
        /\ \A s \in Servers, c \in Conns :
             <<s, c>> \notin Acquired => wire'[s][c] = calls[s][c]
    <2>1. Acquired \subseteq Servers \X Conns
      BY DEF Acquired
    <2> QED
      BY <2>1, AcquireFacts
  <1>1. Formed(sub')
    <2> SUFFICES ASSUME NEW sr \in SubReqs
                 PROVE  /\ sub'[sr].state = "before" =>
                             sub'[sr].node \in ServersOf[sr[2]] \cup {None}
                        /\ InService(sub'[sr]) =>
                             sub'[sr].handle \in ServersOf[sr[2]] \X Conns
      BY DEF Formed
    <2>1. CASE \A h \in Acquired : Taker(h) # sr
      BY <1>0, <2>1 DEF Formed
    <2>2. CASE \E h \in Acquired : Taker(h) = sr
      <3>1. PICK h \in Acquired : Taker(h) = sr
        BY <2>2
      <3>2. h = <<h[1], h[2]>> /\ h[2] \in Conns /\ h[1] \in ServersOf[sr[2]]
        BY <1>0, <3>1
      <3>3. InService(sub'[sr]) /\ sub'[sr].handle = h
        BY <1>0, <3>1
      <3> QED
        BY <3>2, <3>3 DEF InService
    <2> QED
      BY <2>1, <2>2
  <1>2. ASSUME NEW s \in Servers, NEW sr \in SubReqs
        PROVE  sr \in Range(server'[s].waitingQueue)
                 <=> sub'[sr].state = "before" /\ sub'[sr].node = s
    <2>1. CASE \A h \in Acquired : Taker(h) # sr
      BY <1>0, <2>1
    <2>2. CASE \E h \in Acquired : Taker(h) = sr
      <3>1. PICK h \in Acquired : Taker(h) = sr
        BY <2>2
      <3>2. InService(sub'[sr])
        BY <1>0, <3>1
      <3> QED
        BY <2>2, <3>2 DEF InService
    <2> QED
      BY <2>1, <2>2
  <1>3. ASSUME NEW s \in Servers, NEW c \in Conns, NEW sr \in SubReqs
        PROVE  /\ server'[s].holder[c] = sr
                    <=> InService(sub'[sr]) /\ sub'[sr].handle = <<s, c>>
               /\ wire'[s][c] = sr
                    <=> sub'[sr].state = "pool" /\ sub'[sr].handle = <<s, c>>
    <2>1. CASE <<s, c>> \in Acquired
      <3> DEFINE x == Taker(<<s, c>>)
      <3>1. server'[s].holder[c] = x
        BY DEF Taker
      <3>2. /\ x \in SubReqs /\ InService(sub'[x]) /\ sub'[x].handle = <<s, c>>
            /\ wire'[s][c] = IF sub'[x].state = "pool" THEN x ELSE calls[s][c]
        BY <1>0, <2>1
      <3>3. ASSUME InService(sub'[sr]), sub'[sr].handle = <<s, c>>
            PROVE  sr = x
        <4>1. CASE \A h \in Acquired : Taker(h) # sr
          BY <1>0, <2>1, <3>3, <4>1
        <4>2. CASE \E h \in Acquired : Taker(h) = sr
          <5>1. PICK h \in Acquired : Taker(h) = sr
            BY <4>2
          <5>2. h = <<s, c>>
            BY <1>0, <3>3, <5>1
          <5> QED
            BY <5>1, <5>2
        <4> QED
          BY <4>1, <4>2
      <3>4. calls[s][c] # sr
        BY <2>1 DEF InService
      <3> HIDE DEF x
      <3>5. server'[s].holder[c] = sr
              <=> InService(sub'[sr]) /\ sub'[sr].handle = <<s, c>>
        BY <3>1, <3>2, <3>3
      <3>6. wire'[s][c] = sr
              <=> sub'[sr].state = "pool" /\ sub'[sr].handle = <<s, c>>
        <4>1. CASE sub'[x].state = "pool"
          BY <3>2, <3>3, <4>1 DEF InService
        <4>2. CASE sub'[x].state # "pool"
          BY <3>2, <3>3, <3>4, <4>2 DEF InService
        <4> QED
          BY <4>1, <4>2
      <3> QED
        BY <3>5, <3>6
    <2>2. CASE <<s, c>> \notin Acquired
      <3>1. wire'[s][c] = calls[s][c]
        BY <1>0, <2>2
      <3>2. CASE \A h \in Acquired : Taker(h) # sr
        <4>1. sub'[sr] = subs[sr]
          BY <1>0, <3>2
        <4> QED
          BY <2>2, <3>1, <4>1
      <3>3. CASE \E h \in Acquired : Taker(h) = sr
        <4>1. PICK h \in Acquired : Taker(h) = sr
          BY <3>3
        <4>2. subs[sr].state = "before"
          BY <4>1
        <4>3. sub'[sr].handle # <<s, c>>
          BY <1>0, <2>2, <4>1
        <4>4. server'[s].holder[c] # sr /\ calls[s][c] # sr
          BY <2>2, <4>2 DEF InService
        <4> QED
          BY <3>1, <4>3, <4>4
      <3> QED
        BY <3>2, <3>3
    <2> QED
      BY <2>1, <2>2
  <1> QED
    BY <1>1, <1>2, <1>3 DEF Linked

\* A handler that changes one server, and frees the sub-requests F.  Connection
\* c, if the server moves it, was with one of those or with nobody.
LEMMA HandStep ==
    ASSUME ReqInv, NEW s \in Servers, NEW c \in Conns, NEW h,
           Update(s, h), ServerOK(h), StaysUp(server[s], h),
           NEW F \in SUBSET SubReqs,
           \A x \in F : /\ sub[x].state = "before" => sub[x].node = None
                        /\ InService(sub[x]) => sub[x].handle = <<s, c>>,
           \/ Drains(server[s], h) /\ F = {}
           \/ /\ \/ Serves(server[s], h, c)
                 \/ Parks(server[s], h, c)
                 \/ Drops(server[s], h, c)
              /\ server[s].holder[c] \in F \cup {None},
           NEW subs, subs = [x \in SubReqs |-> IF x \in F THEN Freed ELSE sub[x]],
           NEW calls, calls = [t \in Servers |-> [d \in Conns |->
                                 IF wire[t][d] \in F THEN None ELSE wire[t][d]]],
           ReqOnAcquired(subs, calls)
    PROVE  /\ sub' \in [SubReqs -> SubType] /\ wire' \in WireType
           /\ ServersOK' /\ NoCallLeak'
           /\ Formed(sub') /\ Linked(server', sub', wire')
           /\ \A x \in F : sub'[x] = Freed
           /\ \A x \in SubReqs \ F :
                \/ sub'[x] = sub[x]
                \/ /\ sub[x].state = "before" /\ sub[x].node # None
                   /\ InService(sub'[x])
  <1>1. /\ server \in [Servers -> ServerType] /\ ServerOK(server[s])
        /\ sub \in [SubReqs -> SubType] /\ wire \in WireType
        /\ Formed(sub) /\ Linked(server, sub, wire)
    BY DEF ReqInv, ServersOK, ReqTypeOK, WireType
  <1>2. /\ server' \in [Servers -> ServerType] /\ server'[s] = h
        /\ \A t \in Servers : t # s => server'[t] = server[t]
    BY <1>1 DEF Update, ServerOK
  <1>3. ServersOK'
    BY <1>2 DEF ServersOK, ReqInv, StaysUp
  <1>4. Leaked(h) \subseteq Leaked(server[s])
    BY <1>1, EffectLeaks
  <1>5. /\ server[s].holder \in [Conns -> SubReqs \cup {None}]
        /\ server[s].waitingQueue \in Seq(SubReqs)
    BY <1>1 DEF ServerType
  <1>6. /\ subs \in [SubReqs -> SubType]
        /\ \A x \in F : subs[x] = Freed
        /\ \A x \in SubReqs \ F : subs[x] = sub[x]
    <2>1. Freed \in SubType
      BY DEF Freed, SubType
    <2> QED
      BY <1>1, <2>1
  <1>7. calls \in WireType
    BY <1>1 DEF WireType
  <1>8. Formed(subs)
    BY <1>1, <1>6 DEF Formed, Freed, InService
  <1>9. \A t \in Servers, d \in Conns, x \in SubReqs :
          calls[t][d] = x <=> subs[x].state = "pool" /\ subs[x].handle = <<t, d>>
    <2> SUFFICES ASSUME NEW t \in Servers, NEW d \in Conns, NEW x \in SubReqs
                 PROVE  calls[t][d] = x
                          <=> subs[x].state = "pool" /\ subs[x].handle = <<t, d>>
      OBVIOUS
    <2>1. wire[t][d] = x <=> sub[x].state = "pool" /\ sub[x].handle = <<t, d>>
      BY <1>1 DEF Linked
    <2>2. calls[t][d] = IF wire[t][d] \in F THEN None ELSE wire[t][d]
      OBVIOUS
    <2>3. subs[x] = IF x \in F THEN Freed ELSE sub[x]
      OBVIOUS
    <2> QED
      BY <2>1, <2>2, <2>3, PoolAssumption DEF Freed
  <1>10. CASE /\ Serves(server[s], h, c)
              /\ server[s].holder[c] \in F \cup {None}
    <2> DEFINE q == server[s].waitingQueue
               a == Head(q)
    <2>1. /\ a \in SubReqs /\ a \in Range(q)
          /\ Range(Tail(q)) = Range(q) \ {a}
      <3>1. q \in Seq(SubReqs) /\ IsInjective(q) /\ q # << >>
        BY <1>1, <1>5, <1>10 DEF ServerOK, ClaimInv, Serves
      <3> HIDE DEF q
      <3>2. PICK S : S = SubReqs
        OBVIOUS
      <3>3. q \in Seq(S)
        BY <3>1, <3>2
      <3> QED
        BY ONLY <3>1, <3>2, <3>3, TailFacts
    <2>2. /\ sub[a].state = "before" /\ sub[a].node = s
          /\ a \notin F /\ subs[a] = sub[a]
          /\ s \in ServersOf[a[2]]
      <3>1. sub[a].state = "before" /\ sub[a].node = s
        BY <1>1, <2>1 DEF Linked
      <3>2. s # None
        BY RequestAssumption
      <3> QED
        BY <1>1, <1>6, <2>1, <3>1, <3>2 DEF Formed
    <2>3. /\ server'[s].holder = [server[s].holder EXCEPT ![c] = a]
          /\ Range(server'[s].waitingQueue) = Range(q) \ {a}
      BY <1>2, <1>10, <2>1 DEF Serves
    <2> HIDE DEF a, q
    <2>4. a # None /\ a # server[s].holder[c]
      BY <1>10, <2>1, <2>2, PoolAssumption
    <2>5. Acquired = {<<s, c>>} /\ Taker(<<s, c>>) = a
      <3>1. Taker(<<s, c>>) = a
        <4>1. Taker(<<s, c>>) = server'[s].holder[c]
          BY DEF Taker
        <4>2. [server[s].holder EXCEPT ![c] = a][c] = a
          BY <1>5
        <4> QED
          BY <2>3, <4>1, <4>2
      <3>2. \A d \in Conns : d # c => server'[s].holder[d] = server[s].holder[d]
        BY <1>5, <2>3
      <3>3. \A t \in Servers, d \in Conns : <<t, d>> \in Acquired
              <=> server'[t].holder[d] \notin {None, server[t].holder[d]}
        BY DEF Acquired
      <3>4. Acquired \subseteq Servers \X Conns
        BY DEF Acquired
      <3>5. \A t \in Servers, d \in Conns :
              <<t, d>> \in Acquired <=> t = s /\ d = c
        <4>1. server'[s].holder[c] = a
          BY <1>5, <2>3
        <4> QED
          BY <1>2, <2>4, <3>2, <3>3, <4>1
      <3> QED
        BY <3>1, <3>4, <3>5
    <2>6. \A x \in SubReqs : ~(InService(subs[x]) /\ subs[x].handle = <<s, c>>)
      <3> SUFFICES ASSUME NEW x \in SubReqs, InService(subs[x]),
                          subs[x].handle = <<s, c>>
                   PROVE  FALSE
        OBVIOUS
      <3>1. x \notin F
        BY <1>6 DEF InService, Freed
      <3>2. server[s].holder[c] = x
        BY <1>1, <1>6, <3>1 DEF Linked
      <3> QED
        BY <1>10, <3>1, <3>2, PoolAssumption
    <2>7. \A t \in Servers, x \in SubReqs :
            x \in Range(server'[t].waitingQueue)
              <=> /\ subs[x].state = "before" /\ subs[x].node = t
                  /\ \A g \in Acquired : Taker(g) # x
      <3> SUFFICES ASSUME NEW t \in Servers, NEW x \in SubReqs
                   PROVE  x \in Range(server'[t].waitingQueue)
                            <=> /\ subs[x].state = "before" /\ subs[x].node = t
                                /\ a # x
        BY <2>5
      <3>1. x \in Range(server[t].waitingQueue)
              <=> sub[x].state = "before" /\ sub[x].node = t
        BY <1>1 DEF Linked
      <3>2. t # None
        BY RequestAssumption
      <3>3. x \in F => ~(sub[x].state = "before" /\ sub[x].node = t)
        BY <3>2
      <3>4. subs[x].state = "before" /\ subs[x].node = t
              <=> sub[x].state = "before" /\ sub[x].node = t
        BY <1>6, <3>3 DEF Freed
      <3>5. CASE t = s
        BY <2>3, <3>1, <3>4, <3>5 DEF q
      <3>6. CASE t # s
        BY <1>2, <2>2, <3>1, <3>4, <3>6
      <3> QED
        BY <3>5, <3>6
    <2>8. \A t \in Servers, d \in Conns, x \in SubReqs :
            <<t, d>> \notin Acquired =>
              (server'[t].holder[d] = x
                 <=> InService(subs[x]) /\ subs[x].handle = <<t, d>>)
      <3> SUFFICES ASSUME NEW t \in Servers, NEW d \in Conns, NEW x \in SubReqs,
                          <<t, d>> # <<s, c>>
                   PROVE  server'[t].holder[d] = x
                            <=> InService(subs[x]) /\ subs[x].handle = <<t, d>>
        BY <2>5
      <3>1. server'[t].holder[d] = server[t].holder[d]
        BY <1>2, <1>5, <2>3
      <3>2. server[t].holder[d] = x
              <=> InService(sub[x]) /\ sub[x].handle = <<t, d>>
        BY <1>1 DEF Linked
      <3>3. x \in F => ~(InService(sub[x]) /\ sub[x].handle = <<t, d>>)
        OBVIOUS
      <3> QED
        BY <1>6, <3>1, <3>2, <3>3 DEF Freed, InService
    <2>9. Formed(sub') /\ Linked(server', sub', wire')
      <3>1. \A g, k \in Acquired : Taker(g) = Taker(k) => g = k
        BY <2>5
      <3>2. \A g \in Acquired : /\ subs[Taker(g)].state = "before"
                                /\ g[1] \in ServersOf[Taker(g)[2]]
                                /\ \A x \in SubReqs :
                                     ~(InService(subs[x]) /\ subs[x].handle = g)
        <4>1. <<s, c>>[1] = s
          OBVIOUS
        <4> QED
          BY ONLY <2>2, <2>5, <2>6, <4>1
      <3>3. server' \in [Servers -> ServerType] /\ ReqOnAcquired(subs, calls)
        BY <1>2
      <3> QED
        BY ONLY <3>1, <3>2, <3>3, <1>6, <1>7, <1>8, <1>9, <2>7, <2>8, AcquireLinks, ZenonT(40)
    <2>10. /\ sub' \in [SubReqs -> SubType] /\ wire' \in WireType
           /\ InService(sub'[a])
           /\ "call" \notin Faults => sub'[a].state = "pool"
           /\ \A x \in SubReqs : x # a => sub'[x] = subs[x]
      <3>1. /\ sub' \in [SubReqs -> SubType] /\ wire' \in WireType
            /\ \A g \in Acquired : /\ InService(sub'[Taker(g)])
                                   /\ "call" \notin Faults =>
                                        sub'[Taker(g)].state = "pool"
            /\ \A x \in SubReqs : (\A g \in Acquired : Taker(g) # x)
                                    => sub'[x] = subs[x]
        BY <1>2, <1>6, <1>7, <2>5, AcquireFacts
      <3> QED
        BY <2>5, <3>1
    <2>11. NoCallLeak'
      <3> SUFFICES ASSUME "call" \notin Faults
                   PROVE  /\ \A t \in Servers : Leaked(server'[t]) = {}
                          /\ \A x \in SubReqs : sub'[x].state # "backend"
        BY DEF NoCallLeak
      <3>1. /\ \A t \in Servers : Leaked(server[t]) = {}
            /\ \A x \in SubReqs : sub[x].state # "backend"
        BY DEF ReqInv, NoCallLeak
      <3>2. \A x \in SubReqs : subs[x].state # "backend"
        BY <1>6, <3>1 DEF Freed
      <3> QED
        BY <1>2, <1>4, <2>10, <3>1, <3>2
    <2>12. s # None
      BY RequestAssumption
    <2> QED
      BY <1>3, <1>6, <2>2, <2>9, <2>10, <2>11, <2>12
  <1>11. CASE \/ Drains(server[s], h) /\ F = {}
              \/ /\ Parks(server[s], h, c) \/ Drops(server[s], h, c)
                 /\ server[s].holder[c] \in F \cup {None}
    <2>1. /\ server'[s].waitingQueue = server[s].waitingQueue
          /\ \A d \in Conns : server'[s].holder[d] =
               IF server[s].holder[d] \in F THEN None ELSE server[s].holder[d]
      <3>1. CASE Drains(server[s], h) /\ F = {}
        BY <1>2, <3>1 DEF Drains
      <3>2. CASE /\ Parks(server[s], h, c) \/ Drops(server[s], h, c)
                 /\ server[s].holder[c] \in F \cup {None}
        <4>1. /\ server'[s].waitingQueue = server[s].waitingQueue
              /\ server'[s].holder = [server[s].holder EXCEPT ![c] = None]
          BY <1>2, <3>2 DEF Parks, Drops
        <4>2. \A d \in Conns : d # c => server[s].holder[d] \notin F
          <5> SUFFICES ASSUME NEW d \in Conns, d # c, server[s].holder[d] \in F
                       PROVE  FALSE
            OBVIOUS
          <5>1. PICK x \in F : server[s].holder[d] = x
            OBVIOUS
          <5>2. InService(sub[x]) /\ sub[x].handle = <<s, d>>
            BY <1>1, <5>1 DEF Linked
          <5> QED
            BY <5>1, <5>2
        <4> QED
          BY <1>5, <3>2, <4>1, <4>2
      <3> QED
        BY <1>11, <3>1, <3>2
    <2>2. Acquired = {}
      BY <1>2, <2>1 DEF Acquired
    <2>3. \A t \in Servers, d \in Conns : server'[t].holder[d] =
            IF server[t].holder[d] \in F THEN None ELSE server[t].holder[d]
      <3> SUFFICES ASSUME NEW t \in Servers, NEW d \in Conns, t # s
                   PROVE  server[t].holder[d] \notin F
        BY <1>2, <2>1
      <3> SUFFICES ASSUME server[t].holder[d] \in F
                   PROVE  FALSE
        OBVIOUS
      <3>1. PICK x \in F : server[t].holder[d] = x
        OBVIOUS
      <3>2. InService(sub[x]) /\ sub[x].handle = <<t, d>>
        BY <1>1, <3>1 DEF Linked
      <3> QED
        BY <3>1, <3>2
    <2>4. \A t \in Servers, x \in SubReqs :
            x \in Range(server'[t].waitingQueue)
              <=> /\ subs[x].state = "before" /\ subs[x].node = t
                  /\ \A g \in Acquired : Taker(g) # x
      <3> SUFFICES ASSUME NEW t \in Servers, NEW x \in SubReqs
                   PROVE  x \in Range(server'[t].waitingQueue)
                            <=> subs[x].state = "before" /\ subs[x].node = t
        BY <2>2
      <3>1. x \in Range(server[t].waitingQueue)
              <=> sub[x].state = "before" /\ sub[x].node = t
        BY <1>1 DEF Linked
      <3>2. t # None
        BY RequestAssumption
      <3>3. x \in F => ~(sub[x].state = "before" /\ sub[x].node = t)
        BY <3>2
      <3>4. subs[x].state = "before" /\ subs[x].node = t
              <=> sub[x].state = "before" /\ sub[x].node = t
        BY <1>6, <3>3 DEF Freed
      <3> QED
        BY <1>2, <2>1, <3>1, <3>4
    <2>5. \A t \in Servers, d \in Conns, x \in SubReqs :
            <<t, d>> \notin Acquired =>
              (server'[t].holder[d] = x
                 <=> InService(subs[x]) /\ subs[x].handle = <<t, d>>)
      <3> SUFFICES ASSUME NEW t \in Servers, NEW d \in Conns, NEW x \in SubReqs
                   PROVE  server'[t].holder[d] = x
                            <=> InService(subs[x]) /\ subs[x].handle = <<t, d>>
        OBVIOUS
      <3>1. server[t].holder[d] = x
              <=> InService(sub[x]) /\ sub[x].handle = <<t, d>>
        BY <1>1 DEF Linked
      <3>2. x # None
        BY PoolAssumption
      <3>3. server'[t].holder[d] = x <=> server[t].holder[d] = x /\ x \notin F
        BY <2>3, <3>2
      <3> QED
        BY <1>6, <3>1, <3>3 DEF Freed, InService
    <2>6. Formed(sub') /\ Linked(server', sub', wire')
      <3>1. \A g, k \in Acquired : Taker(g) = Taker(k) => g = k
        BY <2>2
      <3>2. \A g \in Acquired : /\ subs[Taker(g)].state = "before"
                                /\ g[1] \in ServersOf[Taker(g)[2]]
                                /\ \A x \in SubReqs :
                                     ~(InService(subs[x]) /\ subs[x].handle = g)
        BY <2>2
      <3>3. server' \in [Servers -> ServerType] /\ ReqOnAcquired(subs, calls)
        BY <1>2
      <3> QED
        BY ONLY <3>1, <3>2, <3>3, <1>6, <1>7, <1>8, <1>9, <2>4, <2>5, AcquireLinks, ZenonT(40)
    <2>7. /\ sub' \in [SubReqs -> SubType] /\ wire' \in WireType
          /\ \A x \in SubReqs : sub'[x] = subs[x]
      BY <1>2, <1>6, <1>7, <2>2, AcquireFacts
    <2>8. NoCallLeak'
      <3> SUFFICES ASSUME "call" \notin Faults
                   PROVE  /\ \A t \in Servers : Leaked(server'[t]) = {}
                          /\ \A x \in SubReqs : sub'[x].state # "backend"
        BY DEF NoCallLeak
      <3>1. /\ \A t \in Servers : Leaked(server[t]) = {}
            /\ \A x \in SubReqs : sub[x].state # "backend"
        BY DEF ReqInv, NoCallLeak
      <3>2. \A x \in SubReqs : subs[x].state # "backend"
        BY <1>6, <3>1 DEF Freed
      <3> QED
        BY <1>2, <1>4, <2>7, <3>1, <3>2
    <2> QED
      BY <1>3, <1>6, <2>6, <2>7, <2>8
  <1> QED
    BY <1>10, <1>11

-----------------------------------------------------------------------------
(* The handlers of the plugin's reports and of the monitor timer *)

\* They leave the requests' own records alone.
LEMMA PoolEventOK ==
    ASSUME ReqInv, PoolEvent, NEW s \in Servers, NEW c \in Conns, NEW h,
           Update(s, h), ServerOK(h), StaysUp(server[s], h),
           \/ Drains(server[s], h)
           \/ /\ Serves(server[s], h, c) \/ Parks(server[s], h, c)
              /\ server[s].holder[c] = None
    PROVE  ReqInv'
  <1> DEFINE subs == [x \in SubReqs |-> IF x \in {} THEN Freed ELSE sub[x]]
             calls == [t \in Servers |-> [d \in Conns |->
                         IF wire[t][d] \in {} THEN None ELSE wire[t][d]]]
  <1>1. sub \in [SubReqs -> SubType] /\ wire \in WireType
    BY DEF ReqInv, ReqTypeOK, WireType
  <1>2. subs = sub
    BY <1>1
  <1>3. calls = wire
    BY <1>1 DEF WireType
  <1>4. ReqOnAcquired(subs, calls)
    BY <1>2, <1>3 DEF PoolEvent
  <1>5. PICK F : F = {}
    OBVIOUS
  <1>6. \A x \in F : /\ sub[x].state = "before" => sub[x].node = None
                     /\ InService(sub[x]) => sub[x].handle = <<s, c>>
    BY <1>5
  <1>7. \/ Drains(server[s], h) /\ F = {}
        \/ /\ \/ Serves(server[s], h, c)
              \/ Parks(server[s], h, c)
              \/ Drops(server[s], h, c)
           /\ server[s].holder[c] \in F \cup {None}
    BY <1>5
  <1>8. PICK S : S = subs
    OBVIOUS
  <1>9. PICK W : W = calls
    OBVIOUS
  <1>10. /\ sub' \in [SubReqs -> SubType] /\ wire' \in WireType
         /\ ServersOK' /\ NoCallLeak'
         /\ Formed(sub') /\ Linked(server', sub', wire')
         /\ \A x \in SubReqs :
              \/ sub'[x] = sub[x]
              \/ /\ sub[x].state = "before" /\ sub[x].node # None
                 /\ InService(sub'[x])
    <2>1. /\ F \in SUBSET SubReqs
          /\ S = [x \in SubReqs |-> IF x \in F THEN Freed ELSE sub[x]]
          /\ W = [t \in Servers |-> [d \in Conns |->
                    IF wire[t][d] \in F THEN None ELSE wire[t][d]]]
          /\ ReqOnAcquired(S, W)
      BY <1>4, <1>5, <1>8, <1>9
    <2> HIDE DEF subs, calls
    <2>2. SubReqs \ F = SubReqs
      BY <1>5
    <2> QED
      <3>1. /\ sub' \in [SubReqs -> SubType] /\ wire' \in WireType
            /\ ServersOK' /\ NoCallLeak'
            /\ Formed(sub') /\ Linked(server', sub', wire')
            /\ \A x \in SubReqs \ F :
                 \/ sub'[x] = sub[x]
                 \/ /\ sub[x].state = "before" /\ sub[x].node # None
                    /\ InService(sub'[x])
        BY <1>6, <1>7, <2>1, HandStep
      <3> QED
        BY <2>2, <3>1
  <1> HIDE DEF subs, calls
  <1>11. UNCHANGED << conn, hasError, active, shardCount, notDone, crashed >>
    BY DEF PoolEvent
  <1>12. ReqTypeOK'
    BY <1>10, <1>11 DEF ReqInv, ReqTypeOK, TypeOK, ServersOK, WireType
  <1>13. \A x \in SubReqs : /\ sub'[x].state = "freed" <=> sub[x].state = "freed"
                            /\ Refused(sub'[x]) <=> Refused(sub[x])
    BY <1>10 DEF InService, Refused
  <1>14. \A r \in Clients, p \in Pools : <<r, p>> \in SubReqs
    BY RequestAssumption
  <1>15. Listed'
    BY <1>11, <1>13, <1>14 DEF ReqInv, Listed
  <1>16. Counted'
    <2> SUFFICES ASSUME NEW r \in active
                 PROVE  Outstanding(sub', notDone[r], r)
                          = Outstanding(sub, notDone[r], r)
      BY <1>11 DEF Counted, ReqInv
    <2>1. \A p \in notDone[r] : p \in Pools /\ r \in Clients
      BY DEF ReqInv, ReqTypeOK
    <2> QED
      BY <1>13, <1>14, <2>1 DEF Outstanding
  <1>17. Phases'
    BY <1>11 DEF ReqInv, Phases
  <1> QED
    BY <1>10, <1>12, <1>15, <1>16, <1>17 DEF ReqInv

LEMMA ConnCreatedOK ==
    ASSUME ReqInv, NEW s \in Servers, NEW c \in Conns, NEW ok \in BOOLEAN,
           ConnCreated(s, c, ok)
    PROVE  ReqInv'
  <1> DEFINE h == OnConnectCreated(server[s], c, ok)
  <1>1. /\ PoolEvent /\ Update(s, h) /\ server[s].link[c] = "connecting"
    BY DEF ConnCreated, Created
  <1>2. ServerOK(server[s])
    BY DEF ReqInv, ServersOK
  <1>3. ServerOK(h) /\ StaysUp(server[s], h)
    BY <1>1, <1>2, OnConnectCreatedOK, OnConnectCreatedEffect
  <1>4. \/ Serves(server[s], h, c) \/ Parks(server[s], h, c)
        \/ Drains(server[s], h)
    BY <1>1, <1>2, OnConnectCreatedEffect
  <1>5. server[s].holder[c] = None
    BY <1>1, <1>2 DEF ServerOK, SlotInv, ClaimInv
  <1> HIDE DEF h
  <1> QED
    BY <1>1, <1>3, <1>4, <1>5, PoolEventOK

LEMMA ConnDestroyedOK ==
    ASSUME ReqInv, NEW s \in Servers, NEW c \in Conns,
           ConnLost(s, c) \/ ConnClosed(s, c)
    PROVE  ReqInv'
  <1> DEFINE h == OnConnectDestroyed(server[s], c)
  <1>1. /\ PoolEvent /\ Update(s, h) /\ server[s].link[c] \in {"up", "closing"}
    BY DEF ConnLost, ConnClosed, LostIdle, LostInUse, Closed
  <1>2. ServerOK(server[s])
    BY DEF ReqInv, ServersOK
  <1>3. ServerOK(h) /\ StaysUp(server[s], h) /\ Drains(server[s], h)
    BY <1>1, <1>2, OnConnectDestroyedOK, OnConnectDestroyedEffect
  <1> HIDE DEF h
  <1> QED
    BY <1>1, <1>3, PoolEventOK

LEMMA MonitorTimerOK ==
    ASSUME ReqInv, NEW s \in Servers, MonitorTimer(s)
    PROVE  ReqInv'
  <1> DEFINE h == ConnectMonitor(server[s])
  <1>1. PoolEvent /\ Update(s, h)
    BY DEF MonitorTimer, Monitor
  <1>2. ServerOK(server[s])
    BY DEF ReqInv, ServersOK
  <1>3. ServerOK(h)
    BY <1>2, CreateNewConnectOK DEF ConnectMonitor
  <1>4. Drains(server[s], h) /\ StaysUp(server[s], h)
    BY <1>2, ConnectMonitorEffect
  <1>5. 0 \in Conns
    BY PoolAssumption DEF Conns
  <1> HIDE DEF h
  <1> QED
    BY <1>1, <1>3, <1>4, <1>5, PoolEventOK

-----------------------------------------------------------------------------
(* The client side *)

\* Handlers that touch nothing but the client connection.
LEMMA ClientStepOK ==
    ASSUME ReqInv, NEW r \in Clients,
           Accept(r) \/ ClientError(r) \/ Reject(r) \/ Probe(r)
    PROVE  ReqInv'
  <1>1. /\ conn \in [Clients -> {"closed", "reading", "processing"}]
        /\ hasError \subseteq Clients /\ active \subseteq Clients
        /\ shardCount \in [Clients -> 0 .. Cardinality(Pools)]
        /\ notDone \in [Clients -> SUBSET Pools]
        /\ Phases
    BY DEF ReqInv, ReqTypeOK
  <1>2. /\ UNCHANGED << server, active, shardCount, notDone, sub, wire, crashed >>
        /\ conn' \in [Clients -> {"closed", "reading", "processing"}]
        /\ hasError' \subseteq Clients
        /\ \A q \in active \cup hasError' : conn'[q] = "processing"
    <2>1. CASE Accept(r)
      BY <1>1, <2>1 DEF Accept, Phases
    <2>2. CASE ClientError(r)
      BY <1>1, <2>2 DEF ClientError, Phases
    <2>3. CASE Reject(r)
      <3>1. r \notin active /\ r \notin hasError
        BY <1>1, <2>3 DEF Reject, Phases
      <3>2. /\ active \ {r} = active /\ hasError \ {r} = hasError
            /\ shardCount[r] = 0 /\ notDone[r] = {}
        BY <1>1, <3>1 DEF Phases
      <3>3. /\ [shardCount EXCEPT ![r] = 0] = shardCount
            /\ [notDone EXCEPT ![r] = {}] = notDone
        BY <1>1, <3>2
      <3>4. conn' = [conn EXCEPT ![r] = "reading"] /\ hasError' = hasError
        BY <2>3, <3>1, <3>2 DEF Reject, ReqDone, ServerProcessDone
      <3> QED
        BY <1>1, <2>3, <3>1, <3>2, <3>3, <3>4 DEF Reject, ReqDone, Phases
    <2>4. CASE Probe(r)
      BY <1>1, <2>4 DEF Probe, Phases
    <2> QED
      BY <2>1, <2>2, <2>3, <2>4
  <1>3. ReqTypeOK' /\ ServersOK' /\ NoCallLeak' /\ Listed' /\ Counted'
    BY <1>2 DEF ReqInv, ReqTypeOK, TypeOK, ServersOK, NoCallLeak, Listed, Counted
  <1>4. Phases'
    BY <1>1, <1>2 DEF Phases
  <1>5. Formed(sub') /\ Linked(server', sub', wire')
    BY <1>2 DEF ReqInv
  <1> QED
    BY <1>3, <1>4, <1>5 DEF ReqInv

-----------------------------------------------------------------------------
(* The answer of the plugin *)

\* What the handler finds.
LEMMA ReplyFacts ==
    ASSUME ReqInv, NEW s \in Servers, NEW c \in Conns, wire[s][c] # None
    PROVE  LET sr == wire[s][c]
           IN  /\ sr \in SubReqs /\ sr[1] \in Clients /\ sr[2] \in Pools
               /\ sr = <<sr[1], sr[2]>>
               /\ sub[sr].state = "pool" /\ sub[sr].handle = <<s, c>>
               /\ server[s].holder[c] = sr /\ c \in server[s].inUse
               /\ sr[1] \in active /\ sr[2] \in notDone[sr[1]]
               /\ sr[2] \in Outstanding(sub, notDone[sr[1]], sr[1])
  <1> DEFINE sr == wire[s][c]
  <1>1. sr \in SubReqs
    BY DEF ReqInv, ReqTypeOK
  <1>2. sr[1] \in Clients /\ sr[2] \in Pools /\ sr = <<sr[1], sr[2]>>
    BY <1>1, RequestAssumption
  <1>3. /\ sub[sr].state = "pool" /\ sub[sr].handle = <<s, c>>
        /\ server[s].holder[c] = sr
    BY <1>1 DEF ReqInv, Linked, InService
  <1>4. c \in server[s].inUse
    BY <1>1, <1>3, PoolAssumption DEF ReqInv, ServersOK, ServerOK, ClaimInv
  <1> HIDE DEF sr
  <1>5. sr[1] \in active /\ sr[2] \in notDone[sr[1]]
    BY <1>2, <1>3 DEF ReqInv, Listed
  <1>6. sr[2] \in Outstanding(sub, notDone[sr[1]], sr[1])
    BY <1>2, <1>3, <1>5 DEF Outstanding, Refused
  <1> QED
    BY <1>1, <1>2, <1>3, <1>4, <1>5, <1>6 DEF sr

\* When one shard is still to come, no other sub-request of r waits or has a
\* connection.
LEMMA LastOne ==
    ASSUME ReqInv, NEW r \in active, shardCount[r] = 1,
           NEW p \in Outstanding(sub, notDone[r], r)
    PROVE  \A q \in Pools : q # p => \/ sub[<<r, q>>].state = "freed"
                                     \/ Refused(sub[<<r, q>>])
  <1>1. Cardinality(Outstanding(sub, notDone[r], r)) = 1
    BY DEF ReqInv, Counted
  <1>2. IsFiniteSet(Outstanding(sub, notDone[r], r))
    <2>1. Outstanding(sub, notDone[r], r) \subseteq Pools
      BY DEF Outstanding, ReqInv, ReqTypeOK
    <2> QED
      BY <2>1, FS_Subset, RequestAssumption
  <1>3. Outstanding(sub, notDone[r], r) = {p}
    BY <1>1, <1>2, FS_Singleton
  <1>4. r \in Clients
    BY DEF ReqInv, ReqTypeOK
  <1> QED
    BY <1>3, <1>4 DEF Outstanding, ReqInv, Listed

\* Nobody is forgotten where nobody of r holds.
LEMMA NothingForgotten ==
    ASSUME NEW sv \in ServerType, NEW r,
           \A d \in Conns : sv.holder[d] \notin SubsOf(r)
    PROVE  ForgetHolder(sv, r) = sv
  <1>1. sv.holder \in [Conns -> SubReqs \cup {None}]
    BY DEF ServerType
  <1>2. [d \in Conns |-> IF sv.holder[d] \in SubsOf(r) THEN None
                         ELSE sv.holder[d]] = sv.holder
    BY <1>1
  <1>3. ForgetHolder(sv, r) = [sv EXCEPT !.holder = sv.holder]
    BY <1>2 DEF ForgetHolder
  <1> QED
    BY <1>3 DEF ServerType

LEMMA BackendReplyOK ==
    ASSUME ReqInv, NEW s \in Servers, NEW c \in Conns, NEW err \in BOOLEAN,
           BackendReply(s, c, err)
    PROVE  ReqInv'
  <1> DEFINE sr == wire[s][c]
             r == sr[1]
             h == ReleaseConnect(server[s], c, err)
             F == IF LastShard(r) THEN SubsOf(r) ELSE {sr}
             subs == IF LastShard(r) THEN FreeSubs(sub, r)
                     ELSE [sub EXCEPT ![sr] = Freed]
             calls == [wire EXCEPT ![s][c] = None]
  <1>1. /\ sr # None
        /\ server' = [t \in Servers |->
             LET sv == IF t = s THEN h ELSE server[t]
             IN  IF LastShard(r) THEN ForgetHolder(sv, r) ELSE sv]
        /\ ReqOnAcquired(subs, calls)
        /\ IF LastShard(r)
           THEN ReqDone(r)
           ELSE /\ notDone' = [notDone EXCEPT ![r] = @ \ {sr[2]}]
                /\ shardCount' = [shardCount EXCEPT ![r] = @ - 1]
                /\ UNCHANGED << conn, hasError, active >>
        /\ UNCHANGED crashed
    BY DEF BackendReply
  <1>2. /\ sr \in SubReqs /\ r \in Clients /\ sr[2] \in Pools
        /\ sr = <<r, sr[2]>>
        /\ sub[sr].state = "pool" /\ sub[sr].handle = <<s, c>>
        /\ server[s].holder[c] = sr /\ c \in server[s].inUse
        /\ r \in active /\ sr[2] \in notDone[r]
        /\ sr[2] \in Outstanding(sub, notDone[r], r)
    BY <1>1, ReplyFacts
  <1>3. /\ server \in [Servers -> ServerType] /\ ServerOK(server[s])
        /\ sub \in [SubReqs -> SubType] /\ wire \in WireType
        /\ Linked(server, sub, wire)
    BY DEF ReqInv, ServersOK, ReqTypeOK, WireType
  <1>4. ServerOK(h) /\ StaysUp(server[s], h)
    BY <1>2, <1>3, ReleaseConnectOK, ReleaseConnectEffect
  <1>5. \/ Serves(server[s], h, c) \/ Parks(server[s], h, c)
        \/ Drops(server[s], h, c)
    BY <1>2, <1>3, ReleaseConnectEffect
  <1> HIDE DEF sr, r, h
  <1>6. /\ F \in SUBSET SubReqs /\ sr \in F
        /\ \A x \in F : /\ sub[x].state = "before" => sub[x].node = None
                        /\ InService(sub[x]) => x = sr
    <2>1. CASE LastShard(r)
      <3>1. F = SubsOf(r)
        BY <2>1
      <3>2. \A q \in Pools : q # sr[2] => \/ sub[<<r, q>>].state = "freed"
                                          \/ Refused(sub[<<r, q>>])
        BY <1>2, <2>1, LastOne DEF LastShard
      <3>3. \A x \in SubsOf(r) : /\ x = <<r, x[2]>> /\ x[2] \in Pools
                                 /\ x \in SubReqs
        BY <1>2, RequestAssumption DEF SubsOf
      <3>4. sr \in SubsOf(r)
        BY <1>2 DEF SubsOf
      <3>5. ASSUME NEW x \in SubsOf(r), x # sr
            PROVE  sub[x].state = "freed" \/ Refused(sub[x])
        BY <1>2, <3>2, <3>3, <3>5
      <3> QED
        BY <1>2, <3>1, <3>3, <3>4, <3>5 DEF Refused, InService
    <2>2. CASE ~LastShard(r)
      BY <1>2, <2>2 DEF InService
    <2> QED
      BY <2>1, <2>2
  <1>7. subs = [x \in SubReqs |-> IF x \in F THEN Freed ELSE sub[x]]
    <2>1. CASE LastShard(r)
      BY <2>1 DEF FreeSubs
    <2>2. CASE ~LastShard(r)
      BY <1>2, <1>3, <2>2
    <2> QED
      BY <2>1, <2>2
  <1> HIDE DEF F
  <1>8. calls = [t \in Servers |-> [d \in Conns |->
                   IF wire[t][d] \in F THEN None ELSE wire[t][d]]]
    <2>1. ASSUME NEW t \in Servers, NEW d \in Conns
          PROVE  wire[t][d] \in F <=> t = s /\ d = c
      <3>1. wire[s][c] \in F
        BY <1>6 DEF sr
      <3>2. ASSUME wire[t][d] \in F
            PROVE  t = s /\ d = c
        <4>1. PICK x \in F : wire[t][d] = x
          BY <3>2
        <4>2. sub[x].state = "pool" /\ sub[x].handle = <<t, d>>
          BY <1>3, <1>6, <4>1 DEF Linked
        <4>3. x = sr
          BY <1>6, <4>2 DEF InService
        <4> QED
          BY <1>2, <4>2, <4>3
      <3> QED
        BY <3>1, <3>2
    <2> QED
      BY <1>3, <2>1 DEF WireType
  <1>9. Update(s, h)
    <2>1. \A t \in Servers, d \in Conns : <<t, d>> # <<s, c>> =>
            server[t].holder[d] \notin F
      <3> SUFFICES ASSUME NEW t \in Servers, NEW d \in Conns, NEW x \in F,
                          server[t].holder[d] = x
                   PROVE  <<t, d>> = <<s, c>>
        OBVIOUS
      <3>1. InService(sub[x]) /\ sub[x].handle = <<t, d>>
        BY <1>3, <1>6 DEF Linked
      <3> QED
        BY <1>2, <1>6, <3>1
    <2>2. \A d \in Conns : h.holder[d] \notin F
      <3>0. server[s].holder \in [Conns -> SubReqs \cup {None}]
        BY <1>3 DEF ServerType
      <3>1. /\ \A d \in Conns : d # c => h.holder[d] = server[s].holder[d]
            /\ \/ h.holder[c] = None
               \/ /\ server[s].waitingQueue # << >>
                  /\ h.holder[c] = Head(server[s].waitingQueue)
        BY <1>5, <3>0 DEF Serves, Parks, Drops
      <3>2. None \notin F
        BY <1>6, PoolAssumption
      <3>3. ASSUME server[s].waitingQueue # << >>
            PROVE  Head(server[s].waitingQueue) \notin F
        <4>1. server[s].waitingQueue \in Seq(SubReqs)
          BY <1>3 DEF ServerType
        <4> DEFINE a == Head(server[s].waitingQueue)
        <4>2. a \in SubReqs /\ a \in Range(server[s].waitingQueue)
          BY <3>3, <4>1 DEF Range
        <4> HIDE DEF a
        <4>3. sub[a].state = "before" /\ sub[a].node = s
          BY <1>3, <4>2 DEF Linked
        <4>4. s # None
          BY RequestAssumption
        <4>5. a \notin F
          BY <1>6, <4>3, <4>4
        <4> QED
          BY <4>5 DEF a
      <3> QED
        BY <2>1, <3>1, <3>2, <3>3
    <2>3. CASE LastShard(r)
      <3>1. F = SubsOf(r)
        BY <2>3 DEF F
      <3>2. ForgetHolder(h, r) = h
        BY <1>4, <2>2, <3>1, NothingForgotten DEF ServerOK
      <3>3. \A t \in Servers : t # s => ForgetHolder(server[t], r) = server[t]
        BY <1>3, <2>1, <3>1, NothingForgotten
      <3> QED
        BY <1>1, <1>3, <2>3, <3>2, <3>3 DEF Update
    <2>4. CASE ~LastShard(r)
      BY <1>1, <1>3, <2>4 DEF Update
    <2> QED
      BY <2>3, <2>4
  <1>10. PICK S : S = subs
    OBVIOUS
  <1>11. PICK W : W = calls
    OBVIOUS
  <1>12. /\ S = [x \in SubReqs |-> IF x \in F THEN Freed ELSE sub[x]]
         /\ W = [t \in Servers |-> [d \in Conns |->
                   IF wire[t][d] \in F THEN None ELSE wire[t][d]]]
         /\ ReqOnAcquired(S, W)
    BY <1>1, <1>7, <1>8, <1>10, <1>11
  <1> HIDE DEF subs, calls
  <1>13. /\ sub' \in [SubReqs -> SubType] /\ wire' \in WireType
         /\ ServersOK' /\ NoCallLeak'
         /\ Formed(sub') /\ Linked(server', sub', wire')
         /\ \A x \in F : sub'[x] = Freed
         /\ \A x \in SubReqs \ F :
              \/ sub'[x] = sub[x]
              \/ /\ sub[x].state = "before" /\ sub[x].node # None
                 /\ InService(sub'[x])
    <2>1. \A x \in F : /\ sub[x].state = "before" => sub[x].node = None
                       /\ InService(sub[x]) => sub[x].handle = <<s, c>>
      BY <1>2, <1>6
    <2>2. server[s].holder[c] \in F \cup {None}
      BY <1>2, <1>6
    <2>3. F \in SUBSET SubReqs
      BY <1>6
    <2> QED
      BY <1>4, <1>5, <1>9, <1>12, <2>1, <2>2, <2>3, HandStep
  <1>14. \A x \in SubReqs \ F : /\ sub'[x].state = "freed" <=> sub[x].state = "freed"
                                /\ Refused(sub'[x]) <=> Refused(sub[x])
    BY <1>13 DEF InService, Refused
  <1>15. \A q \in Clients, p \in Pools :
           /\ <<q, p>> \in SubReqs
           /\ <<q, p>> \in F <=> q = r /\ (LastShard(r) \/ p = sr[2])
    <2>1. \A q \in Clients, p \in Pools : <<q, p>> \in SubReqs
      BY RequestAssumption
    <2>2. \A q \in Clients, p \in Pools :
            <<q, p>> \in F <=> q = r /\ (LastShard(r) \/ p = sr[2])
      BY <1>2 DEF F, SubsOf
    <2> QED
      BY <2>1, <2>2
  <1>16. /\ shardCount \in [Clients -> 0 .. Cardinality(Pools)]
         /\ notDone \in [Clients -> SUBSET Pools]
         /\ conn \in [Clients -> {"closed", "reading", "processing"}]
         /\ hasError \subseteq Clients /\ active \subseteq Clients
         /\ Phases /\ Listed /\ Counted /\ crashed \in BOOLEAN
    BY DEF ReqInv, ReqTypeOK
  <1>17. \A q \in active : q # r =>
           Outstanding(sub', notDone[q], q) = Outstanding(sub, notDone[q], q)
    BY <1>14, <1>15, <1>16 DEF Outstanding
  <1>18. CASE LastShard(r)
    <2>1. /\ active' = active \ {r}
          /\ shardCount' = [shardCount EXCEPT ![r] = 0]
          /\ notDone' = [notDone EXCEPT ![r] = {}]
          /\ conn' = [conn EXCEPT ![r] = IF r \in hasError THEN "closed"
                                         ELSE "reading"]
          /\ hasError' = hasError \ {r} /\ crashed' = crashed
      BY <1>1, <1>18 DEF ReqDone, ServerProcessDone
    <2>2. Cardinality(Pools) \in Nat
      BY RequestAssumption, FS_CardinalityType
    <2>3. ReqTypeOK'
      <3>1. shardCount' \in [Clients -> 0 .. Cardinality(Pools)]
        <4>1. 0 \in 0 .. Cardinality(Pools)
          BY <2>2
        <4> QED
          BY <1>16, <2>1, <4>1
      <3>2. notDone' \in [Clients -> SUBSET Pools]
        BY <1>16, <2>1
      <3>3. /\ conn' \in [Clients -> {"closed", "reading", "processing"}]
            /\ hasError' \subseteq Clients /\ active' \subseteq Clients
        BY <1>16, <2>1
      <3> QED
        BY <1>13, <1>16, <2>1, <3>1, <3>2, <3>3
        DEF ReqTypeOK, TypeOK, ServersOK, WireType
    <2>4. Listed'
      <3> SUFFICES ASSUME NEW q \in Clients, NEW p \in Pools
                   PROVE  sub'[<<q, p>>].state # "freed"
                            <=> q \in active' /\ p \in notDone'[q]
        BY DEF Listed
      <3>1. sub[<<q, p>>].state # "freed" <=> q \in active /\ p \in notDone[q]
        BY <1>16 DEF Listed
      <3>2. CASE <<q, p>> \in F
        BY <1>2, <1>13, <1>15, <1>16, <1>18, <2>1, <3>2 DEF Freed
      <3>3. CASE <<q, p>> \notin F
        <4>1. sub'[<<q, p>>].state # "freed" <=> sub[<<q, p>>].state # "freed"
          BY <1>14, <1>15, <3>3
        <4>2. ~(q = r /\ (LastShard(r) \/ p = sr[2]))
          BY <1>15, <3>3
        <4> QED
          BY <1>2, <1>16, <1>18, <2>1, <3>1, <4>1, <4>2
      <3> QED
        BY <3>2, <3>3
    <2>5. Counted'
      <3>1. \A q \in active' :
              /\ q \in active /\ q # r
              /\ shardCount'[q] = shardCount[q] /\ notDone'[q] = notDone[q]
        BY <1>16, <2>1
      <3> QED
        BY <1>16, <1>17, <3>1 DEF Counted
    <2>6. Phases'
      BY <1>2, <1>16, <2>1 DEF Phases
    <2> QED
      BY <1>13, <2>3, <2>4, <2>5, <2>6 DEF ReqInv
  <1>19. CASE ~LastShard(r)
    <2>1. /\ notDone' = [notDone EXCEPT ![r] = @ \ {sr[2]}]
          /\ shardCount' = [shardCount EXCEPT ![r] = @ - 1]
          /\ UNCHANGED << conn, hasError, active, crashed >>
      BY <1>1, <1>19
    <2>2. /\ Cardinality(Pools) \in Nat /\ shardCount[r] \in Nat
          /\ shardCount[r] > 1
      BY <1>2, <1>16, <1>19, RequestAssumption, FS_CardinalityType
      DEF Counted, LastShard
    <2>3. ReqTypeOK'
      <3>1. shardCount' \in [Clients -> 0 .. Cardinality(Pools)]
        BY <1>2, <1>16, <2>1, <2>2
      <3>2. notDone' \in [Clients -> SUBSET Pools]
        BY <1>2, <1>16, <2>1
      <3> QED
        BY <1>13, <1>16, <2>1, <3>1, <3>2
        DEF ReqTypeOK, TypeOK, ServersOK, WireType
    <2>4. Listed'
      <3> SUFFICES ASSUME NEW q \in Clients, NEW p \in Pools
                   PROVE  sub'[<<q, p>>].state # "freed"
                            <=> q \in active' /\ p \in notDone'[q]
        BY DEF Listed
      <3>1. sub[<<q, p>>].state # "freed" <=> q \in active /\ p \in notDone[q]
        BY <1>16 DEF Listed
      <3>2. CASE <<q, p>> \in F
        BY <1>2, <1>13, <1>15, <1>16, <1>19, <2>1, <3>2 DEF Freed
      <3>3. CASE <<q, p>> \notin F
        <4>1. sub'[<<q, p>>].state # "freed" <=> sub[<<q, p>>].state # "freed"
          BY <1>14, <1>15, <3>3
        <4>2. ~(q = r /\ (LastShard(r) \/ p = sr[2]))
          BY <1>15, <3>3
        <4> QED
          BY <1>2, <1>16, <1>19, <2>1, <3>1, <4>1, <4>2
      <3> QED
        BY <3>2, <3>3
    <2>5. Counted'
      <3>1. \A q \in active : q # r =>
              shardCount'[q] = shardCount[q] /\ notDone'[q] = notDone[q]
        BY <1>16, <2>1
      <3>2. Outstanding(sub', notDone'[r], r)
              = Outstanding(sub, notDone[r], r) \ {sr[2]}
        BY <1>2, <1>14, <1>15, <1>16, <1>19, <2>1 DEF Outstanding
      <3>3. IsFiniteSet(Outstanding(sub, notDone[r], r))
        <4>1. Outstanding(sub, notDone[r], r) \subseteq Pools
          BY <1>2, <1>16 DEF Outstanding
        <4> QED
          BY <4>1, FS_Subset, RequestAssumption
      <3>4. Cardinality(Outstanding(sub', notDone'[r], r))
              = Cardinality(Outstanding(sub, notDone[r], r)) - 1
        <4>1. PICK O : O = Outstanding(sub, notDone[r], r)
          OBVIOUS
        <4>2. PICK p : p = sr[2]
          OBVIOUS
        <4>3. IsFiniteSet(O) /\ p \in O
          BY <1>2, <3>3, <4>1, <4>2
        <4>4. Cardinality(O \ {p}) = Cardinality(O) - 1
          BY ONLY <4>3, FS_RemoveElement
        <4> QED
          BY <3>2, <4>1, <4>2, <4>4
      <3>5. shardCount'[r] = shardCount[r] - 1
        BY <1>2, <1>16, <2>1
      <3>6. /\ shardCount'[r] = Cardinality(Outstanding(sub', notDone'[r], r))
            /\ shardCount'[r] > 0
        BY <1>2, <1>16, <2>2, <3>4, <3>5 DEF Counted
      <3> QED
        BY <1>16, <1>17, <2>1, <3>1, <3>6 DEF Counted
    <2>6. Phases'
      BY <1>2, <1>16, <2>1 DEF Phases
    <2> QED
      BY <1>13, <2>3, <2>4, <2>5, <2>6 DEF ReqInv
  <1> QED
    BY <1>18, <1>19

-----------------------------------------------------------------------------
(* The request timer *)

\* Freeing a request leaves a server in order.
LEMMA ForgetHolderOK ==
    ASSUME NEW sv, ServerOK(sv), NEW r \in Clients
    PROVE  LET h == ForgetHolder(sv, r)
           IN  /\ ServerOK(h)
               /\ h.waitingQueue = sv.waitingQueue
               /\ h.destroyFlag = sv.destroyFlag /\ h.gone = sv.gone
               /\ \A d \in Conns : h.holder[d] =
                    IF sv.holder[d] \in SubsOf(r) THEN None ELSE sv.holder[d]
  <1> DEFINE h == ForgetHolder(sv, r)
  <1>1. sv \in ServerType /\ sv.holder \in [Conns -> SubReqs \cup {None}]
    BY DEF ServerOK, ServerType
  <1>2. /\ h.connectQueue = sv.connectQueue
        /\ h.unconnectQueue = sv.unconnectQueue
        /\ h.waitingQueue = sv.waitingQueue
        /\ h.connectCount = sv.connectCount
        /\ h.freeConnectCount = sv.freeConnectCount
        /\ h.destroyFlag = sv.destroyFlag
        /\ h.gone = sv.gone
        /\ h.inUse = sv.inUse
        /\ h.toBeDestroyed = sv.toBeDestroyed
        /\ h.link = sv.link
        /\ h.holder = [d \in Conns |-> IF sv.holder[d] \in SubsOf(r) THEN None
                                       ELSE sv.holder[d]]
    BY <1>1 DEF ForgetHolder, ServerType
  <1>3. h \in ServerType
    <2>1. [d \in Conns |-> IF sv.holder[d] \in SubsOf(r) THEN None
                           ELSE sv.holder[d]] \in [Conns -> SubReqs \cup {None}]
      BY <1>1
    <2> QED
      BY <1>1, <2>1 DEF ForgetHolder, ServerType
  <1> HIDE DEF h
  <1>4. SlotInv(h) /\ WaitInv(h)
    BY <1>2 DEF ServerOK, SlotInv, WaitInv
  <1>5. CountInv(h)
    BY <1>2 DEF ServerOK, CountInv, Established
  <1>6. ClaimInv(h)
    <2>1. None \notin Range(sv.waitingQueue)
      BY <1>1, PoolAssumption DEF Range, ServerType
    <2>2. \A d \in Conns : \/ h.holder[d] = None
                           \/ h.holder[d] = sv.holder[d]
      BY <1>2
    <2> QED
      BY <1>2, <2>1, <2>2 DEF ServerOK, ClaimInv
  <1> QED
    BY <1>2, <1>3, <1>4, <1>5, <1>6 DEF ServerOK, h

\* A sub-request of r that waits or holds at s is the one whose shard s serves.
LEMMA AtServer ==
    ASSUME ReqInv, NEW r \in active, NEW s \in Servers, NEW x \in SubsOf(r),
           \/ x \in Range(server[s].waitingQueue)
           \/ \E d \in Conns : server[s].holder[d] = x
    PROVE  /\ x \in SubReqs /\ x = <<r, x[2]>>
           /\ {p \in notDone[r] : s \in ServersOf[p]} = {x[2]}
  <1>1. r \in Clients /\ notDone[r] \subseteq Pools
    BY DEF ReqInv, ReqTypeOK
  <1>2. x \in SubReqs /\ x = <<r, x[2]>> /\ x[2] \in Pools
    BY <1>1, RequestAssumption DEF SubsOf
  <1>3. s \in ServersOf[x[2]] /\ sub[x].state # "freed"
    <2>1. CASE x \in Range(server[s].waitingQueue)
      <3>1. sub[x].state = "before" /\ sub[x].node = s
        BY <1>2, <2>1 DEF ReqInv, Linked
      <3>2. s # None
        BY RequestAssumption
      <3> QED
        BY <1>2, <3>1, <3>2 DEF ReqInv, Formed
    <2>2. CASE \E d \in Conns : server[s].holder[d] = x
      <3>1. PICK d \in Conns : server[s].holder[d] = x
        BY <2>2
      <3>2. InService(sub[x]) /\ sub[x].handle = <<s, d>>
        BY <1>2, <3>1 DEF ReqInv, Linked
      <3>3. <<s, d>> \in ServersOf[x[2]] \X Conns
        BY <1>2, <3>2 DEF ReqInv, Formed
      <3> QED
        BY <3>2, <3>3 DEF InService
    <2> QED
      BY <2>1, <2>2
  <1>4. x[2] \in notDone[r]
    BY <1>1, <1>2, <1>3 DEF ReqInv, Listed
  <1>5. \A p \in notDone[r] : s \in ServersOf[p] => p = x[2]
    BY <1>1, <1>2, <1>3, RequestAssumption
  <1> QED
    BY <1>2, <1>3, <1>4, <1>5

\* The shards of r that s serves, and s after their cleanup.
ListedAt(r, s) == {p \in notDone[r] : s \in ServersOf[p]}

CleanedUp(r, s) ==
    IF ListedAt(r, s) = {} THEN server[s]
    ELSE TimeoutCleanup(server[s], s, <<r, CHOOSE p \in ListedAt(r, s) : TRUE>>)

\* What the timer makes of a server: everybody of r is gone from it.
LEMMA TimeoutServer ==
    ASSUME ReqInv, NEW r \in active, NEW s \in Servers
    PROVE  LET h == ForgetHolder(CleanedUp(r, s), r)
           IN  /\ ServerOK(h) /\ StaysUp(server[s], h)
               /\ \A x \in SubReqs : x \in Range(h.waitingQueue)
                    <=> x \in Range(server[s].waitingQueue) /\ x \notin SubsOf(r)
               /\ \A d \in Conns : h.holder[d] =
                    IF server[s].holder[d] \in SubsOf(r) THEN None
                    ELSE server[s].holder[d]
               /\ "call" \notin Faults => Leaked(h) = {}
  <1> DEFINE sv == server[s]
             L == ListedAt(r, s)
             g == CleanedUp(r, s)
             h == ForgetHolder(g, r)
  <1>1. /\ ServerOK(sv) /\ sv \in ServerType
        /\ sv.holder \in [Conns -> SubReqs \cup {None}]
        /\ r \in Clients
    BY DEF ReqInv, ReqTypeOK, ServersOK, ServerType
  <1>2. \A x \in SubsOf(r) :
          \/ x \in Range(sv.waitingQueue)
          \/ \E d \in Conns : sv.holder[d] = x
          => x \in SubReqs /\ x = <<r, x[2]>> /\ L = {x[2]}
    BY AtServer DEF ListedAt
  <1>3. "call" \notin Faults => /\ Leaked(sv) = {}
                                /\ \A x \in SubReqs : sub[x].state # "backend"
    BY DEF ReqInv, NoCallLeak
  <1>4. \A x \in SubReqs :
          /\ x \in Range(sv.waitingQueue)
               <=> sub[x].state = "before" /\ sub[x].node = s
          /\ \A d \in Conns : sv.holder[d] = x
               <=> InService(sub[x]) /\ sub[x].handle = <<s, d>>
    BY DEF ReqInv, Linked
  <1>5. g = IF L = {} THEN sv
            ELSE TimeoutCleanup(sv, s, <<r, CHOOSE p \in L : TRUE>>)
    BY DEF CleanedUp
  <1>6. L = {p \in notDone[r] : s \in ServersOf[p]}
    BY DEF ListedAt
  <1> HIDE DEF sv, L, g
  \* It is enough to know what became of the one that is there.
  <1>7. SUFFICES /\ ServerOK(g) /\ StaysUp(sv, g)
                 /\ \A x \in SubReqs : x \in Range(g.waitingQueue)
                      <=> x \in Range(sv.waitingQueue) /\ x \notin SubsOf(r)
                 /\ \A d \in Conns :
                      \/ g.holder[d] = sv.holder[d]
                      \/ g.holder[d] = None /\ sv.holder[d] \in SubsOf(r)
                 /\ "call" \notin Faults =>
                      /\ Leaked(g) = {}
                      /\ \A d \in Conns : g.holder[d] \notin SubsOf(r)
    <2>1. /\ ServerOK(h)
          /\ h.waitingQueue = g.waitingQueue
          /\ h.destroyFlag = g.destroyFlag /\ h.gone = g.gone
          /\ \A d \in Conns : h.holder[d] =
               IF g.holder[d] \in SubsOf(r) THEN None ELSE g.holder[d]
      <3>1. ServerOK(g) /\ r \in Clients
        BY <1>1, <1>7
      <3> QED
        BY ONLY <3>1, ForgetHolderOK
    <2>2. "call" \notin Faults => Leaked(h) = {}
      <3>1. g \in ServerType
        BY <1>7 DEF ServerOK
      <3> QED
        BY <1>7, <3>1, NothingForgotten
    <2>3. \A d \in Conns : h.holder[d] =
            IF sv.holder[d] \in SubsOf(r) THEN None ELSE sv.holder[d]
      BY <1>7, <2>1
    <2> HIDE DEF h
    <2> QED
      BY <1>7, <2>1, <2>2, <2>3 DEF StaysUp, sv, h, g
  <1>8. CASE L = {}
    <2>1. g = sv
      BY <1>5, <1>8
    <2>2. \A x \in SubsOf(r) : /\ x \notin Range(sv.waitingQueue)
                               /\ \A d \in Conns : sv.holder[d] # x
      BY <1>2, <1>8
    <2> QED
      BY <1>1, <1>3, <2>1, <2>2 DEF StaysUp
  <1>9. CASE L # {}
    <2> DEFINE p == CHOOSE q \in L : TRUE
               x == <<r, p>>
    <2>1. p \in L
      BY <1>9
    <2>2. g = TimeoutCleanup(sv, s, x)
      BY <1>5, <1>9
    <2>3. \A y \in SubsOf(r) :
            \/ y \in Range(sv.waitingQueue)
            \/ \E d \in Conns : sv.holder[d] = y
            => y = x
      BY <1>2, <2>1
    <2>4. x \in SubReqs /\ x \in SubsOf(r)
      <3>1. p \in Pools
        BY <1>1, <1>6, <2>1 DEF ReqInv, ReqTypeOK
      <3> HIDE DEF p
      <3> QED
        BY <1>1, <3>1, RequestAssumption DEF SubsOf
    <2> HIDE DEF x, p
    <2>5. CASE sub[x].state = "before" /\ sub[x].node = s
      <3>1. g = WaitingQueueRm(sv, x)
        BY <2>2, <2>5 DEF TimeoutCleanup
      <3>2. x \in Range(sv.waitingQueue)
        BY <1>4, <2>4, <2>5
      <3>3. /\ g.waitingQueue = Unlink(sv.waitingQueue, x)
            /\ g.holder = sv.holder /\ g.inUse = sv.inUse
            /\ StaysUp(sv, g) /\ ServerOK(g)
        BY <1>1, <3>1, <3>2, WaitingQueueRmEffect, WaitingQueueRmOK
      <3>4. Range(g.waitingQueue) = Range(sv.waitingQueue) \ {x}
        <4>1. sv.waitingQueue \in Seq(SubReqs) /\ IsInjective(sv.waitingQueue)
          BY <1>1 DEF ServerOK, ServerType, ClaimInv
        <4>2. PICK S : S = SubReqs
          OBVIOUS
        <4>3. Range(Unlink(sv.waitingQueue, x)) = Range(sv.waitingQueue) \ {x}
          BY ONLY <4>1, <4>2, UnlinkFacts
        <4> QED
          BY <3>3, <4>3
      <3>5. \A d \in Conns : sv.holder[d] \notin SubsOf(r)
        BY <1>4, <2>3, <2>4, <2>5 DEF InService
      <3>6. Leaked(g) = Leaked(sv)
        BY <3>3 DEF Leaked
      <3> QED
        BY <1>3, <2>3, <2>4, <3>3, <3>4, <3>5, <3>6
    <2>6. CASE sub[x].state = "pool" /\ sub[x].handle[1] = s
      <3>1. PICK c \in Conns : sub[x].handle = <<s, c>>
        <4>1. sub[x].handle \in ServersOf[x[2]] \X Conns
          BY <2>4, <2>6 DEF ReqInv, Formed, InService
        <4> QED
          BY <2>6, <4>1
      <3>2. g = ReleaseConnect(sv, c, TRUE)
        <4>1. g = ReleaseConnect(sv, sub[x].handle[2], TRUE)
          BY <2>2, <2>6 DEF TimeoutCleanup
        <4>2. sub[x].handle[2] = c
          BY <3>1
        <4> QED
          BY <4>1, <4>2
      <3>3. sv.holder[c] = x /\ c \in sv.inUse
        <4>1. sv.holder[c] = x
          BY <1>4, <2>4, <2>6, <3>1 DEF InService
        <4> QED
          BY <1>1, <2>4, <4>1, PoolAssumption DEF ServerOK, ClaimInv
      <3>4. ServerOK(g) /\ StaysUp(sv, g) /\ Drops(sv, g, c)
        BY <1>1, <3>2, <3>3, ReleaseConnectOK, ReleaseConnectEffect
      <3>5. x \notin Range(sv.waitingQueue)
        BY <1>4, <2>4, <2>6
      <3>6. \A d \in Conns : d # c => sv.holder[d] \notin SubsOf(r)
        <4> SUFFICES ASSUME NEW d \in Conns, sv.holder[d] \in SubsOf(r)
                     PROVE  d = c
          OBVIOUS
        <4>1. sv.holder[d] = x
          BY <2>3
        <4>2. sub[x].handle = <<s, d>>
          BY <1>4, <2>4, <4>1
        <4> QED
          BY <3>1, <4>2
      <3>7. Leaked(g) \subseteq Leaked(sv)
        BY <1>1, <3>4, EffectLeaks
      <3>8. g.holder = [sv.holder EXCEPT ![c] = None]
            /\ g.waitingQueue = sv.waitingQueue
        BY <3>4 DEF Drops
      <3>9. None \notin SubsOf(r)
        BY <1>1, PoolAssumption, RequestAssumption DEF SubsOf
      <3>10. \A d \in Conns : /\ d # c => g.holder[d] = sv.holder[d]
                              /\ d = c => g.holder[d] = None
        BY <1>1, <3>8
      <3> QED
        BY <1>3, <2>3, <2>4, <3>3, <3>4, <3>5, <3>6, <3>7, <3>8, <3>9, <3>10
    <2>7. CASE /\ ~(sub[x].state = "before" /\ sub[x].node = s)
               /\ ~(sub[x].state = "pool" /\ sub[x].handle[1] = s)
      <3>1. g = sv
        BY <2>2, <2>7 DEF TimeoutCleanup
      <3>2. \A y \in SubsOf(r) : y \notin Range(sv.waitingQueue)
        BY <1>4, <2>3, <2>4, <2>7
      <3>3. ASSUME "call" \notin Faults, NEW d \in Conns, sv.holder[d] \in SubsOf(r)
            PROVE  FALSE
        <4>1. sv.holder[d] = x
          BY <2>3, <3>3
        <4>2. InService(sub[x]) /\ sub[x].handle = <<s, d>>
          BY <1>4, <2>4, <4>1
        <4>3. sub[x].state # "backend"
          BY <1>3, <2>4, <3>3
        <4> QED
          BY <2>7, <4>2, <4>3 DEF InService
      <3> QED
        BY <1>1, <1>3, <3>1, <3>2, <3>3 DEF StaysUp
    <2> QED
      BY <2>5, <2>6, <2>7
  <1> QED
    BY <1>8, <1>9

LEMMA ReqTimeoutOK ==
    ASSUME ReqInv, NEW r \in Clients, ReqTimeout(r)
    PROVE  ReqInv'
  <1> DEFINE sent == {sub[<<r, p>>].handle :
                        p \in {q \in notDone[r] : sub[<<r, q>>].state = "pool"}}
  <1>1. /\ r \in active
        /\ server' = [s \in Servers |-> ForgetHolder(CleanedUp(r, s), r)]
        /\ sub' = FreeSubs(sub, r)
        /\ wire' = [s \in Servers |-> [c \in Conns |->
             IF <<s, c>> \in sent THEN None ELSE wire[s][c]]]
        /\ ReqDone(r)
        /\ UNCHANGED crashed
    BY DEF ReqTimeout, CleanedUp, ListedAt
  <1>2. /\ sub \in [SubReqs -> SubType] /\ wire \in WireType
        /\ Formed(sub) /\ Linked(server, sub, wire)
        /\ shardCount \in [Clients -> 0 .. Cardinality(Pools)]
        /\ notDone \in [Clients -> SUBSET Pools]
        /\ conn \in [Clients -> {"closed", "reading", "processing"}]
        /\ hasError \subseteq Clients /\ active \subseteq Clients
        /\ Phases /\ Listed /\ Counted /\ crashed \in BOOLEAN
    BY DEF ReqInv, ReqTypeOK, WireType
  <1>3. ASSUME NEW s \in Servers
        PROVE  /\ ServerOK(server'[s]) /\ StaysUp(server[s], server'[s])
               /\ \A x \in SubReqs : x \in Range(server'[s].waitingQueue)
                    <=> x \in Range(server[s].waitingQueue) /\ x \notin SubsOf(r)
               /\ \A d \in Conns : server'[s].holder[d] =
                    IF server[s].holder[d] \in SubsOf(r) THEN None
                    ELSE server[s].holder[d]
               /\ "call" \notin Faults => Leaked(server'[s]) = {}
    BY <1>1, TimeoutServer
  <1>4. /\ \A x \in SubReqs : x \in SubsOf(r) => sub'[x] = Freed
        /\ \A x \in SubReqs : x \notin SubsOf(r) => sub'[x] = sub[x]
        /\ sub' \in [SubReqs -> SubType]
    <2>1. Freed \in SubType
      BY DEF Freed, SubType
    <2> QED
      BY <1>1, <1>2, <2>1 DEF FreeSubs
  <1>5. \A s \in Servers, c \in Conns :
          <<s, c>> \in sent <=> wire[s][c] \in SubsOf(r)
    <2> SUFFICES ASSUME NEW s \in Servers, NEW c \in Conns
                 PROVE  <<s, c>> \in sent <=> wire[s][c] \in SubsOf(r)
      OBVIOUS
    <2>1. ASSUME <<s, c>> \in sent
          PROVE  wire[s][c] \in SubsOf(r)
      <3>1. PICK p \in notDone[r] : /\ sub[<<r, p>>].state = "pool"
                                    /\ sub[<<r, p>>].handle = <<s, c>>
        BY <2>1
      <3>2. p \in Pools /\ <<r, p>> \in SubReqs
        BY <1>2, RequestAssumption
      <3>3. wire[s][c] = <<r, p>>
        BY <1>2, <3>1, <3>2 DEF Linked
      <3> QED
        BY <3>2, <3>3 DEF SubsOf
    <2>2. ASSUME wire[s][c] \in SubsOf(r)
          PROVE  <<s, c>> \in sent
      <3>1. PICK p \in Pools : wire[s][c] = <<r, p>>
        BY <2>2 DEF SubsOf
      <3>2. <<r, p>> \in SubReqs
        BY RequestAssumption
      <3>3. sub[<<r, p>>].state = "pool" /\ sub[<<r, p>>].handle = <<s, c>>
        BY <1>2, <3>1, <3>2 DEF Linked
      <3>4. p \in notDone[r]
        BY <1>2, <3>3 DEF Listed
      <3> QED
        BY <3>3, <3>4
    <2> QED
      BY <2>1, <2>2
  <1> HIDE DEF sent
  <1>6. /\ wire' \in WireType
        /\ \A s \in Servers, c \in Conns :
             wire'[s][c] = IF wire[s][c] \in SubsOf(r) THEN None ELSE wire[s][c]
    BY <1>1, <1>2, <1>5 DEF WireType
  <1>7. ServersOK' /\ NoCallLeak'
    <2>1. server' \in [Servers -> ServerType]
      BY <1>1, <1>3 DEF ServerOK
    <2>2. ServersOK'
      BY <1>3, <2>1 DEF ServersOK, StaysUp, ReqInv
    <2>3. NoCallLeak'
      <3> SUFFICES ASSUME "call" \notin Faults
                   PROVE  /\ \A s \in Servers : Leaked(server'[s]) = {}
                          /\ \A x \in SubReqs : sub'[x].state # "backend"
        BY DEF NoCallLeak
      <3>1. \A x \in SubReqs : sub[x].state # "backend"
        BY DEF ReqInv, NoCallLeak
      <3> QED
        BY <1>3, <1>4, <3>1 DEF Freed
    <2> QED
      BY <2>2, <2>3
  <1>8. Formed(sub')
    BY <1>2, <1>4 DEF Formed, Freed, InService
  <1>9. Linked(server', sub', wire')
    <2> SUFFICES ASSUME NEW s \in Servers, NEW x \in SubReqs
                 PROVE  /\ x \in Range(server'[s].waitingQueue)
                             <=> sub'[x].state = "before" /\ sub'[x].node = s
                        /\ \A c \in Conns :
                            /\ server'[s].holder[c] = x
                                 <=> InService(sub'[x]) /\ sub'[x].handle = <<s, c>>
                            /\ wire'[s][c] = x
                                 <=> /\ sub'[x].state = "pool"
                                     /\ sub'[x].handle = <<s, c>>
      BY DEF Linked
    <2>1. x # None
      BY PoolAssumption
    <2>2. CASE x \in SubsOf(r)
      BY <1>3, <1>4, <1>6, <2>1, <2>2 DEF Freed, InService
    <2>3. CASE x \notin SubsOf(r)
      <3>1. sub'[x] = sub[x]
        BY <1>4, <2>3
      <3>2. /\ x \in Range(server[s].waitingQueue)
                 <=> sub[x].state = "before" /\ sub[x].node = s
            /\ \A c \in Conns :
                /\ server[s].holder[c] = x
                     <=> InService(sub[x]) /\ sub[x].handle = <<s, c>>
                /\ wire[s][c] = x
                     <=> sub[x].state = "pool" /\ sub[x].handle = <<s, c>>
        BY <1>2 DEF Linked
      <3>3. \A c \in Conns : /\ server'[s].holder[c] = x
                                  <=> server[s].holder[c] = x
                             /\ wire'[s][c] = x <=> wire[s][c] = x
        BY <1>3, <1>6, <2>1, <2>3
      <3> QED
        BY <1>3, <2>3, <3>1, <3>2, <3>3
    <2> QED
      BY <2>2, <2>3
  <1>10. /\ active' = active \ {r}
         /\ shardCount' = [shardCount EXCEPT ![r] = 0]
         /\ notDone' = [notDone EXCEPT ![r] = {}]
         /\ conn' = [conn EXCEPT ![r] = IF r \in hasError THEN "closed"
                                        ELSE "reading"]
         /\ hasError' = hasError \ {r} /\ crashed' = crashed
    BY <1>1 DEF ReqDone, ServerProcessDone
  <1>11. ReqTypeOK'
    <2>1. 0 \in 0 .. Cardinality(Pools)
      <3>1. Cardinality(Pools) \in Nat
        BY RequestAssumption, FS_CardinalityType
      <3> QED
        BY <3>1
    <2>2. shardCount' \in [Clients -> 0 .. Cardinality(Pools)]
      BY <1>2, <1>10, <2>1
    <2>3. /\ notDone' \in [Clients -> SUBSET Pools]
          /\ conn' \in [Clients -> {"closed", "reading", "processing"}]
          /\ hasError' \subseteq Clients /\ active' \subseteq Clients
      BY <1>2, <1>10
    <2> QED
      BY <1>2, <1>4, <1>6, <1>7, <1>10, <2>2, <2>3
      DEF ReqTypeOK, TypeOK, ServersOK, WireType
  <1>12. \A q \in Clients, p \in Pools :
           /\ <<q, p>> \in SubReqs
           /\ <<q, p>> \in SubsOf(r) <=> q = r
    BY RequestAssumption DEF SubsOf
  <1>13. Listed'
    <2> SUFFICES ASSUME NEW q \in Clients, NEW p \in Pools
                 PROVE  sub'[<<q, p>>].state # "freed"
                          <=> q \in active' /\ p \in notDone'[q]
      BY DEF Listed
    <2>1. sub[<<q, p>>].state # "freed" <=> q \in active /\ p \in notDone[q]
      BY <1>2 DEF Listed
    <2>2. CASE q = r
      BY <1>4, <1>10, <1>12, <2>2 DEF Freed
    <2>3. CASE q # r
      BY <1>2, <1>4, <1>10, <1>12, <2>1, <2>3
    <2> QED
      BY <2>2, <2>3
  <1>14. Counted'
    <2> SUFFICES ASSUME NEW q \in active, q # r
                 PROVE  /\ shardCount'[q] = Cardinality(Outstanding(sub', notDone'[q], q))
                        /\ shardCount'[q] > 0
      BY <1>10 DEF Counted
    <2>1. q \in Clients /\ notDone[q] \subseteq Pools
      BY <1>2
    <2>2. notDone'[q] = notDone[q] /\ shardCount'[q] = shardCount[q]
      BY <1>2, <1>10, <2>1
    <2>3. Outstanding(sub', notDone[q], q) = Outstanding(sub, notDone[q], q)
      BY <1>4, <1>12, <2>1 DEF Outstanding
    <2> QED
      BY <1>2, <2>2, <2>3 DEF Counted
  <1>15. Phases'
    BY <1>2, <1>10 DEF Phases
  <1> QED
    BY <1>7, <1>8, <1>9, <1>11, <1>13, <1>14, <1>15 DEF ReqInv

-----------------------------------------------------------------------------
(* A new request *)

\* A server that is asked for a connection by a sub-request it does not know.
LEMMA AskedServer ==
    ASSUME ReqInv, NEW s \in Servers, NEW x \in SubReqs, sub[x].state = "freed"
    PROVE  LET h == FetchConnect(server[s], x)
           IN  /\ ServerOK(h) /\ StaysUp(server[s], h)
               /\ Leaked(h) \subseteq Leaked(server[s])
               /\ \/ \E c \in Conns :
                       /\ server[s].holder[c] = None
                       /\ h.holder = [server[s].holder EXCEPT ![c] = x]
                       /\ Range(h.waitingQueue) = Range(server[s].waitingQueue)
                  \/ /\ h.holder = server[s].holder
                     /\ Range(h.waitingQueue)
                          = Range(server[s].waitingQueue) \cup {x}
  <1> DEFINE h == FetchConnect(server[s], x)
  <1>1. ServerOK(server[s]) /\ server[s] \in ServerType
    BY DEF ReqInv, ServersOK
  <1>2. /\ x \notin Range(server[s].waitingQueue)
        /\ \A c \in Conns : server[s].holder[c] # x
    BY DEF ReqInv, Linked, InService
  <1>3. x \notin Users(server[s])
    <2>1. server[s].inUse \subseteq Conns
      BY <1>1 DEF ServerType
    <2> QED
      BY <1>2, <2>1 DEF Users
  <1>4. ServerOK(h) /\ StaysUp(server[s], h)
    BY <1>1, <1>3, FetchConnectOK, FetchConnectEffect
  <1>5. \/ \E c \in Conns : Takes(server[s], h, c, x)
        \/ Joins(server[s], h, x)
    BY <1>1, FetchConnectEffect
  <1> HIDE DEF h
  <1>6. Leaked(h) \subseteq Leaked(server[s])
    BY <1>1, <1>5, EffectLeaks
  <1>7. ASSUME NEW c \in Conns, Takes(server[s], h, c, x)
        PROVE  /\ server[s].holder[c] = None
               /\ h.holder = [server[s].holder EXCEPT ![c] = x]
               /\ Range(h.waitingQueue) = Range(server[s].waitingQueue)
    BY <1>1, <1>7 DEF Takes, ServerOK, SlotInv, ClaimInv
  <1>8. ASSUME Joins(server[s], h, x)
        PROVE  /\ h.holder = server[s].holder
               /\ Range(h.waitingQueue) = Range(server[s].waitingQueue) \cup {x}
    <2>1. /\ server[s].waitingQueue \in Seq(SubReqs)
          /\ IsInjective(server[s].waitingQueue)
      BY <1>1 DEF ServerOK, ServerType, ClaimInv
    <2>2. PICK S : S = SubReqs
      OBVIOUS
    <2>3. Range(Append(server[s].waitingQueue, x))
            = Range(server[s].waitingQueue) \cup {x}
      BY ONLY <1>2, <2>1, <2>2, x \in SubReqs, AppendFacts
    <2> QED
      BY <1>8, <2>3 DEF Joins
  <1> QED
    BY <1>4, <1>5, <1>6, <1>7, <1>8 DEF h

LEMMA ReadDoneOK ==
    ASSUME ReqInv, NEW r \in Clients, NEW P \in SUBSET Pools, P # {},
           NEW target \in [Served(P) -> Servers], ReadDone(r, P, target)
    PROVE  ReqInv'
  <1> DEFINE served == Served(P)
             asked(s) == {p \in served : target[p] = s}
             subs == [sr \in SubReqs |->
                       IF sr \in {r} \X P
                       THEN [state  |-> "before",
                             node   |-> IF /\ sr[2] \in served
                                           /\ sr \in Range(server'[target[sr[2]]]
                                                            .waitingQueue)
                                        THEN target[sr[2]] ELSE None,
                             handle |-> None]
                       ELSE sub[sr]]
  <1>1. CASE served = {}
    <2>1. Reject(r)
      BY <1>1 DEF ReadDone, Reject
    <2> QED
      BY <2>1, ClientStepOK
  <1>2. CASE served # {}
    <2>1. /\ conn[r] = "reading"
          /\ \A p \in served : target[p] \in BalanceServer(server, ServersOf[p])
          /\ server' = [s \in Servers |->
               IF asked(s) = {} THEN server[s]
               ELSE FetchConnect(server[s],
                                 <<r, CHOOSE p \in asked(s) : TRUE>>)]
          /\ conn' = [conn EXCEPT ![r] = "processing"]
          /\ active' = active \cup {r}
          /\ shardCount' = [shardCount EXCEPT ![r] = Cardinality(served)]
          /\ notDone' = [notDone EXCEPT ![r] = P]
          /\ hasError' = hasError /\ crashed' = crashed
          /\ ReqOnAcquired(subs, wire)
      BY <1>2 DEF ReadDone
    <2>2. /\ sub \in [SubReqs -> SubType] /\ wire \in WireType
          /\ Formed(sub) /\ Linked(server, sub, wire)
          /\ shardCount \in [Clients -> 0 .. Cardinality(Pools)]
          /\ notDone \in [Clients -> SUBSET Pools]
          /\ conn \in [Clients -> {"closed", "reading", "processing"}]
          /\ hasError \subseteq Clients /\ active \subseteq Clients
          /\ Phases /\ Listed /\ Counted /\ crashed \in BOOLEAN
          /\ server \in [Servers -> ServerType]
      BY DEF ReqInv, ReqTypeOK, WireType, ServersOK
    <2>3. r \notin active
      BY <2>1, <2>2 DEF Phases
    <2>4. \A p \in Pools : /\ <<r, p>> \in SubReqs
                           /\ sub[<<r, p>>].state = "freed"
      BY <2>2, <2>3, RequestAssumption DEF Listed
    <2>5. served \subseteq P /\ \A p \in served : target[p] \in ServersOf[p]
      <3>1. \A S : BalanceServer(server, S) \subseteq S
        BY DEF BalanceServer
      <3> QED
        BY <2>1, <3>1 DEF Served
    <2>6. \A p \in served : asked(target[p]) = {p}
      <3>1. \A p \in served, q \in served : target[p] = target[q] => p = q
        BY <2>5, RequestAssumption
      <3> QED
        BY <3>1
    <2>7. /\ \A p \in served :
               server'[target[p]] = FetchConnect(server[target[p]], <<r, p>>)
          /\ \A s \in Servers : (\A p \in served : target[p] # s)
                                  => server'[s] = server[s]
      <3>1. ASSUME NEW p \in served
            PROVE  server'[target[p]] = FetchConnect(server[target[p]], <<r, p>>)
        <4>1. target[p] \in Servers /\ asked(target[p]) = {p}
          BY <2>6
        <4>2. (CHOOSE q \in asked(target[p]) : TRUE) = p
          BY <4>1
        <4> HIDE DEF asked, served
        <4> QED
          BY <2>1, <4>1, <4>2
      <3>2. ASSUME NEW s \in Servers, \A p \in served : target[p] # s
            PROVE  server'[s] = server[s]
        <4>1. asked(s) = {}
          BY <3>2
        <4> HIDE DEF asked, served
        <4> QED
          BY <2>1, <4>1
      <3> QED
        BY <3>1, <3>2
    \* Each sub-request that asks is given a connection or queued.
    <2>8. ASSUME NEW p \in served
          PROVE  LET s == target[p] IN
                 /\ ServerOK(server'[s]) /\ StaysUp(server[s], server'[s])
                 /\ Leaked(server'[s]) \subseteq Leaked(server[s])
                 /\ \/ \E c \in Conns :
                         /\ server[s].holder[c] = None
                         /\ server'[s].holder
                              = [server[s].holder EXCEPT ![c] = <<r, p>>]
                         /\ Range(server'[s].waitingQueue)
                              = Range(server[s].waitingQueue)
                    \/ /\ server'[s].holder = server[s].holder
                       /\ Range(server'[s].waitingQueue)
                            = Range(server[s].waitingQueue) \cup {<<r, p>>}
      <3>1. target[p] \in Servers /\ p \in Pools
        BY <2>5
      <3>2. server'[target[p]] = FetchConnect(server[target[p]], <<r, p>>)
        BY <2>7
      <3>3. <<r, p>> \in SubReqs /\ sub[<<r, p>>].state = "freed"
        BY <2>4, <3>1
      <3>4. PICK s \in Servers : s = target[p]
        BY <3>1
      <3>5. PICK x \in SubReqs : x = <<r, p>>
        BY <3>3
      <3>6. ReqInv /\ sub[x].state = "freed"
        BY <3>3, <3>5
      <3>7. LET h == FetchConnect(server[s], x)
            IN  /\ ServerOK(h) /\ StaysUp(server[s], h)
                /\ Leaked(h) \subseteq Leaked(server[s])
                /\ \/ \E c \in Conns :
                        /\ server[s].holder[c] = None
                        /\ h.holder = [server[s].holder EXCEPT ![c] = x]
                        /\ Range(h.waitingQueue) = Range(server[s].waitingQueue)
                   \/ /\ h.holder = server[s].holder
                      /\ Range(h.waitingQueue)
                           = Range(server[s].waitingQueue) \cup {x}
        BY ONLY <3>6, AskedServer
      <3> QED
        BY <3>2, <3>4, <3>5, <3>7
    <2> HIDE DEF served, asked
    <2>9. ASSUME NEW s \in Servers
          PROVE  /\ ServerOK(server'[s]) /\ StaysUp(server[s], server'[s])
                 /\ Leaked(server'[s]) \subseteq Leaked(server[s])
      <3>1. CASE \E p \in served : target[p] = s
        BY <2>8, <3>1
      <3>2. CASE \A p \in served : target[p] # s
        <4>1. server'[s] = server[s]
          BY <2>7, <3>2
        <4> QED
          BY <4>1 DEF ReqInv, ServersOK, StaysUp
      <3> QED
        BY <3>1, <3>2
    <2>10. server' \in [Servers -> ServerType] /\ ServersOK'
      <3>1. server' \in [Servers -> ServerType]
        BY <2>1, <2>9 DEF ServerOK
      <3> QED
        BY <2>9, <3>1 DEF ServersOK, StaysUp, ReqInv
    <2>11. /\ server \in [Servers -> ServerType]
           /\ \A s \in Servers :
                server[s].holder \in [Conns -> SubReqs \cup {None}]
      BY <2>2 DEF ServerType
    <2>12. \A s \in Servers, c \in Conns : <<s, c>> \in Acquired
             <=> server'[s].holder[c] \notin {None, server[s].holder[c]}
      BY DEF Acquired
    \* What was handed over went to one of those that asked.
    <2>13. ASSUME NEW s \in Servers, NEW c \in Conns, <<s, c>> \in Acquired
           PROVE  \E p \in served :
                    /\ target[p] = s
                    /\ Taker(<<s, c>>) = <<r, p>>
                    /\ server[s].holder[c] = None
                    /\ \A d \in Conns : d # c =>
                         server'[s].holder[d] = server[s].holder[d]
                    /\ Range(server'[s].waitingQueue)
                         = Range(server[s].waitingQueue)
      <3>1. server'[s].holder[c] \notin {None, server[s].holder[c]}
        BY <2>12, <2>13
      <3>2. PICK p \in served : target[p] = s
        <4>1. ~ \A p \in served : target[p] # s
          BY <2>7, <3>1
        <4> QED
          BY <4>1
      <3>3. PICK d \in Conns :
              /\ server[s].holder[d] = None
              /\ server'[s].holder = [server[s].holder EXCEPT ![d] = <<r, p>>]
              /\ Range(server'[s].waitingQueue) = Range(server[s].waitingQueue)
        <4>1. server'[s].holder # server[s].holder
          BY <3>1
        <4> QED
          BY <2>8, <3>2, <4>1
      <3>4. d = c
        BY <2>11, <3>1, <3>3
      <3>5. server'[s].holder[c] = <<r, p>>
        BY <2>11, <3>3, <3>4
      <3>6. Taker(<<s, c>>) = <<r, p>>
        BY <3>5 DEF Taker
      <3>7. \A e \in Conns : e # c =>
              server'[s].holder[e] = server[s].holder[e]
        BY <2>11, <3>3, <3>4
      <3> QED
        BY <3>2, <3>3, <3>4, <3>6, <3>7
    <2>14. ASSUME NEW p \in served
           PROVE  LET s == target[p] IN
                  \/ /\ \E c \in Conns : /\ <<s, c>> \in Acquired
                                         /\ Taker(<<s, c>>) = <<r, p>>
                     /\ Range(server'[s].waitingQueue)
                          = Range(server[s].waitingQueue)
                  \/ /\ server'[s].holder = server[s].holder
                     /\ Range(server'[s].waitingQueue)
                          = Range(server[s].waitingQueue) \cup {<<r, p>>}
      <3>1. target[p] \in Servers
        BY <2>5 DEF served
      <3>2. PICK s \in Servers : s = target[p]
        BY <3>1
      <3>3. CASE \E c \in Conns :
                   /\ server[s].holder[c] = None
                   /\ server'[s].holder = [server[s].holder EXCEPT ![c] = <<r, p>>]
                   /\ Range(server'[s].waitingQueue)
                        = Range(server[s].waitingQueue)
        <4>1. PICK c \in Conns :
                /\ server[s].holder[c] = None
                /\ server'[s].holder = [server[s].holder EXCEPT ![c] = <<r, p>>]
                /\ Range(server'[s].waitingQueue) = Range(server[s].waitingQueue)
          BY <3>3
        <4>2. server'[s].holder[c] = <<r, p>>
          BY <2>11, <4>1
        <4>3. <<r, p>> # None
          <5>1. <<r, p>> \in SubReqs
            BY <2>4, <2>5
          <5> QED
            BY <5>1, PoolAssumption
        <4>4. <<s, c>> \in Acquired /\ Taker(<<s, c>>) = <<r, p>>
          BY <2>12, <4>1, <4>2, <4>3 DEF Taker
        <4> QED
          BY <3>2, <4>1, <4>4
      <3> QED
        BY <2>8, <3>2, <3>3
    <2>15. /\ \A p \in P :
                /\ subs[<<r, p>>].state = "before"
                /\ subs[<<r, p>>].handle = None
                /\ subs[<<r, p>>].node =
                     IF /\ p \in served
                        /\ <<r, p>> \in Range(server'[target[p]].waitingQueue)
                     THEN target[p] ELSE None
           /\ \A x \in SubReqs : x \notin {r} \X P => subs[x] = sub[x]
           /\ subs \in [SubReqs -> SubType]
      <3>1. \A p \in P : <<r, p>> \in SubReqs /\ <<r, p>> \in {r} \X P
        BY <2>4
      <3>2. \A x \in {r} \X P : x[2] \in P /\ x = <<r, x[2]>>
        OBVIOUS
      <3>3. \A p \in served : target[p] \in Servers
        BY <2>5 DEF served
      <3>4. subs \in [SubReqs -> SubType]
        BY <2>2, <3>2, <3>3 DEF SubType
      <3> QED
        BY <3>1, <3>4
    <2> HIDE DEF subs
    <2>16. \A s \in Servers : s # None
      BY RequestAssumption
    <2>17. /\ Acquired \subseteq Servers \X Conns
           /\ \A h \in Acquired : h = <<h[1], h[2]>>
      BY DEF Acquired
    <2>18. \A g, h \in Acquired : Taker(g) = Taker(h) => g = h
      <3> SUFFICES ASSUME NEW s \in Servers, NEW c \in Conns,
                          NEW t \in Servers, NEW d \in Conns,
                          <<s, c>> \in Acquired, <<t, d>> \in Acquired,
                          Taker(<<s, c>>) = Taker(<<t, d>>)
                   PROVE  s = t /\ c = d
        BY <2>17
      <3>1. PICK p \in served :
              /\ target[p] = s /\ Taker(<<s, c>>) = <<r, p>>
              /\ \A e \in Conns : e # c =>
                   server'[s].holder[e] = server[s].holder[e]
        BY <2>13
      <3>2. PICK q \in served : target[q] = t /\ Taker(<<t, d>>) = <<r, q>>
        BY <2>13
      <3>3. s = t
        BY <3>1, <3>2
      <3> QED
        BY <2>12, <3>1, <3>3
    <2>19. \A h \in Acquired :
             /\ subs[Taker(h)].state = "before"
             /\ h[1] \in ServersOf[Taker(h)[2]]
             /\ \A x \in SubReqs : ~(InService(subs[x]) /\ subs[x].handle = h)
      <3> SUFFICES ASSUME NEW s \in Servers, NEW c \in Conns,
                          <<s, c>> \in Acquired
                   PROVE  /\ subs[Taker(<<s, c>>)].state = "before"
                          /\ s \in ServersOf[Taker(<<s, c>>)[2]]
                          /\ \A x \in SubReqs :
                               ~(InService(subs[x]) /\ subs[x].handle = <<s, c>>)
        BY <2>17
      <3>1. PICK p \in served : /\ target[p] = s
                                /\ Taker(<<s, c>>) = <<r, p>>
                                /\ server[s].holder[c] = None
        BY <2>13
      <3>2. <<r, p>>[2] = p /\ p \in P /\ s \in ServersOf[p]
        BY <2>5, <3>1
      <3>3. ASSUME NEW x \in SubReqs, InService(subs[x]),
                   subs[x].handle = <<s, c>>
            PROVE  FALSE
        <4>1. x \notin {r} \X P
          BY <2>15, <3>3 DEF InService
        <4>2. server[s].holder[c] = x
          BY <2>2, <2>15, <3>3, <4>1 DEF Linked
        <4> QED
          BY <3>1, <4>2, PoolAssumption
      <3> QED
        BY <2>15, <3>1, <3>2, <3>3
    \* The others' places in the waiting queues are as before.
    <2>20. ASSUME NEW s \in Servers, NEW x \in SubReqs, x \notin {r} \X P
           PROVE  x \in Range(server'[s].waitingQueue)
                    <=> x \in Range(server[s].waitingQueue)
      <3>1. CASE \E p \in served : target[p] = s
        <4>1. PICK p \in served : target[p] = s
          BY <3>1
        <4>2. x # <<r, p>>
          BY <2>5, <2>20
        <4> QED
          BY <2>14, <4>1, <4>2
      <3>2. CASE \A p \in served : target[p] # s
        BY <2>7, <3>2
      <3> QED
        BY <3>1, <3>2
    \* r's own are in the queue of the server they asked, or in none.
    <2>21. ASSUME NEW s \in Servers, NEW p \in P,
                  <<r, p>> \in Range(server'[s].waitingQueue)
           PROVE  /\ p \in served /\ target[p] = s
                  /\ server'[s].holder = server[s].holder
      <3>1. <<r, p>> \notin Range(server[s].waitingQueue)
        BY <2>2, <2>4 DEF Linked
      <3>2. PICK q \in served : target[q] = s
        <4>1. ~ \A q \in served : target[q] # s
          BY <2>7, <2>21, <3>1
        <4> QED
          BY <4>1
      <3>3. /\ server'[s].holder = server[s].holder
            /\ <<r, p>> = <<r, q>>
        BY <2>14, <2>21, <3>1, <3>2
      <3> QED
        BY <3>2, <3>3
    <2>22. \A s \in Servers, x \in SubReqs :
             x \in Range(server'[s].waitingQueue)
               <=> /\ subs[x].state = "before" /\ subs[x].node = s
                   /\ \A h \in Acquired : Taker(h) # x
      <3> SUFFICES ASSUME NEW s \in Servers, NEW x \in SubReqs
                   PROVE  x \in Range(server'[s].waitingQueue)
                            <=> /\ subs[x].state = "before" /\ subs[x].node = s
                                /\ \A h \in Acquired : Taker(h) # x
        OBVIOUS
      <3>1. CASE x \notin {r} \X P
        <4>1. \A h \in Acquired : Taker(h) # x
          <5> SUFFICES ASSUME NEW t \in Servers, NEW c \in Conns,
                              <<t, c>> \in Acquired
                       PROVE  Taker(<<t, c>>) # x
            BY <2>17
          <5>1. PICK p \in served : Taker(<<t, c>>) = <<r, p>>
            BY <2>13
          <5> QED
            BY <2>5, <3>1, <5>1
        <4>2. subs[x] = sub[x]
          BY <2>15, <3>1
        <4>3. x \in Range(server[s].waitingQueue)
                <=> sub[x].state = "before" /\ sub[x].node = s
          BY <2>2 DEF Linked
        <4> QED
          BY <2>20, <3>1, <4>1, <4>2, <4>3
      <3>2. CASE x \in {r} \X P
        <4>1. PICK p \in P : x = <<r, p>>
          BY <3>2
        <4>2. ASSUME x \in Range(server'[s].waitingQueue)
              PROVE  /\ subs[x].state = "before" /\ subs[x].node = s
                     /\ \A h \in Acquired : Taker(h) # x
          <5>1. /\ p \in served /\ target[p] = s
                /\ server'[s].holder = server[s].holder
            BY <2>21, <4>1, <4>2
          <5>2. subs[x].state = "before" /\ subs[x].node = s
            BY <2>15, <4>1, <4>2, <5>1
          <5>3. ASSUME NEW t \in Servers, NEW c \in Conns,
                       <<t, c>> \in Acquired, Taker(<<t, c>>) = x
                PROVE  FALSE
            <6>1. PICK q \in served : target[q] = t /\ <<r, q>> = x
              BY <2>13, <5>3
            <6>2. t = s
              BY <4>1, <5>1, <6>1
            <6> QED
              BY <2>12, <5>1, <5>3, <6>2
          <5> QED
            BY <2>17, <5>2, <5>3
        <4>3. ASSUME subs[x].node = s
              PROVE  x \in Range(server'[s].waitingQueue)
          BY <2>15, <2>16, <4>1, <4>3
        <4> QED
          BY <4>2, <4>3
      <3> QED
        BY <3>1, <3>2
    <2>23. \A s \in Servers, c \in Conns, x \in SubReqs :
             <<s, c>> \notin Acquired =>
               (server'[s].holder[c] = x
                  <=> InService(subs[x]) /\ subs[x].handle = <<s, c>>)
      <3> SUFFICES ASSUME NEW s \in Servers, NEW c \in Conns, NEW x \in SubReqs,
                          <<s, c>> \notin Acquired
                   PROVE  server'[s].holder[c] = x
                            <=> InService(subs[x]) /\ subs[x].handle = <<s, c>>
        OBVIOUS
      <3>1. server[s].holder[c] = x
              <=> InService(sub[x]) /\ sub[x].handle = <<s, c>>
        BY <2>2 DEF Linked
      <3>2. server'[s].holder[c] = x <=> server[s].holder[c] = x
        <4>1. server'[s].holder[c] \in {None, server[s].holder[c]}
          BY <2>12
        <4>2. \/ server'[s].holder[c] = server[s].holder[c]
              \/ server[s].holder[c] = None
          <5>1. CASE \E p \in served : target[p] = s
            <6>1. PICK p \in served : target[p] = s
              BY <5>1
            <6>2. CASE server'[s].holder = server[s].holder
              BY <6>2
            <6>3. CASE \E d \in Conns : <<s, d>> \in Acquired
              BY <2>13, <6>3
            <6> QED
              BY <2>14, <6>1, <6>2, <6>3
          <5>2. CASE \A p \in served : target[p] # s
            BY <2>7, <5>2
          <5> QED
            BY <5>1, <5>2
        <4>3. server[s].holder[c] = None => server'[s].holder[c] = None
          BY <4>1
        <4> QED
          BY <4>2, <4>3
      <3>3. CASE x \notin {r} \X P
        BY <2>15, <3>1, <3>2, <3>3
      <3>4. CASE x \in {r} \X P
        <4>1. PICK p \in P : x = <<r, p>>
          BY <3>4
        <4>2. subs[x].state = "before" /\ sub[x].state = "freed"
          BY <2>4, <2>15, <4>1
        <4> QED
          BY <3>1, <3>2, <4>2 DEF InService
      <3> QED
        BY <3>3, <3>4
    <2>24. \A s \in Servers, c \in Conns, x \in SubReqs :
             wire[s][c] = x
               <=> subs[x].state = "pool" /\ subs[x].handle = <<s, c>>
      <3> SUFFICES ASSUME NEW s \in Servers, NEW c \in Conns, NEW x \in SubReqs
                   PROVE  wire[s][c] = x
                            <=> subs[x].state = "pool" /\ subs[x].handle = <<s, c>>
        OBVIOUS
      <3>1. wire[s][c] = x <=> sub[x].state = "pool" /\ sub[x].handle = <<s, c>>
        BY <2>2 DEF Linked
      <3>2. CASE x \notin {r} \X P
        BY <2>15, <3>1, <3>2
      <3>3. CASE x \in {r} \X P
        <4>1. PICK p \in P : x = <<r, p>>
          BY <3>3
        <4>2. subs[x].state = "before" /\ sub[x].state = "freed"
          BY <2>4, <2>15, <4>1
        <4> QED
          BY <3>1, <4>2
      <3> QED
        BY <3>2, <3>3
    <2>25. Formed(subs)
      <3> SUFFICES ASSUME NEW x \in SubReqs
                   PROVE  /\ subs[x].state = "before" =>
                               subs[x].node \in ServersOf[x[2]] \cup {None}
                          /\ InService(subs[x]) =>
                               subs[x].handle \in ServersOf[x[2]] \X Conns
        BY DEF Formed
      <3>1. CASE x \notin {r} \X P
        BY <2>2, <2>15, <3>1 DEF Formed
      <3>2. CASE x \in {r} \X P
        <4>1. PICK p \in P : x = <<r, p>>
          BY <3>2
        <4>2. subs[x].node \in ServersOf[p] \cup {None}
          BY <2>5, <2>15, <4>1
        <4>3. x[2] = p /\ ~InService(subs[x])
          BY <2>15, <4>1 DEF InService
        <4> QED
          BY <4>2, <4>3
      <3> QED
        BY <3>1, <3>2
    <2>26. Formed(sub') /\ Linked(server', sub', wire')
      <3>1. PICK S : S = subs
        OBVIOUS
      <3>2. PICK W : W = wire
        OBVIOUS
      <3>3. /\ S \in [SubReqs -> SubType] /\ W \in WireType
            /\ server' \in [Servers -> ServerType] /\ ReqOnAcquired(S, W)
        BY <2>1, <2>2, <2>10, <2>15, <3>1, <3>2
      <3>4. \A s \in Servers, c \in Conns, x \in SubReqs :
              W[s][c] = x <=> S[x].state = "pool" /\ S[x].handle = <<s, c>>
        BY <2>24, <3>1, <3>2
      <3>5. /\ Formed(S)
            /\ \A h \in Acquired :
                 /\ S[Taker(h)].state = "before"
                 /\ h[1] \in ServersOf[Taker(h)[2]]
                 /\ \A x \in SubReqs : ~(InService(S[x]) /\ S[x].handle = h)
            /\ \A s \in Servers, x \in SubReqs :
                 x \in Range(server'[s].waitingQueue)
                   <=> /\ S[x].state = "before" /\ S[x].node = s
                       /\ \A h \in Acquired : Taker(h) # x
            /\ \A s \in Servers, c \in Conns, x \in SubReqs :
                 <<s, c>> \notin Acquired =>
                   (server'[s].holder[c] = x
                      <=> InService(S[x]) /\ S[x].handle = <<s, c>>)
        BY <2>19, <2>22, <2>23, <2>25, <3>1
      <3> QED
        BY ONLY <2>18, <3>3, <3>4, <3>5, AcquireLinks, ZenonT(40)
    <2>27. /\ sub' \in [SubReqs -> SubType] /\ wire' \in WireType
           /\ \A h \in Acquired : /\ InService(sub'[Taker(h)])
                                  /\ "call" \notin Faults =>
                                       sub'[Taker(h)].state = "pool"
           /\ \A x \in SubReqs : (\A h \in Acquired : Taker(h) # x)
                                   => sub'[x] = subs[x]
      BY <2>1, <2>2, <2>10, <2>15, <2>18, AcquireFacts
    \* The others are not called back; of r's own, exactly those that no server
    \* was asked for are left refused.
    <2>28. \A x \in SubReqs : x \notin {r} \X P => sub'[x] = sub[x]
      <3> SUFFICES ASSUME NEW x \in SubReqs, x \notin {r} \X P
                   PROVE  \A h \in Acquired : Taker(h) # x
        BY <2>15, <2>27
      <3> SUFFICES ASSUME NEW t \in Servers, NEW c \in Conns,
                          <<t, c>> \in Acquired
                   PROVE  Taker(<<t, c>>) # x
        BY <2>17
      <3>1. PICK p \in served : Taker(<<t, c>>) = <<r, p>>
        BY <2>13
      <3> QED
        BY <2>5, <3>1
    <2>29. ASSUME NEW p \in P
           PROVE  /\ sub'[<<r, p>>].state # "freed"
                  /\ Refused(sub'[<<r, p>>]) <=> p \notin served
      <3>0. <<r, p>> \in SubReqs
        BY <2>4
      <3>1. CASE \E h \in Acquired : Taker(h) = <<r, p>>
        <4>1. PICK h \in Acquired : Taker(h) = <<r, p>>
          BY <3>1
        <4>2. PICK q \in served : Taker(h) = <<r, q>>
          BY <2>13, <2>17
        <4>3. p \in served
          BY <4>1, <4>2
        <4>4. InService(sub'[<<r, p>>])
          BY <2>27, <4>1
        <4> QED
          BY <4>3, <4>4 DEF InService, Refused
      <3>2. CASE \A h \in Acquired : Taker(h) # <<r, p>>
        <4>1. sub'[<<r, p>>] = subs[<<r, p>>]
          BY <2>27, <3>0, <3>2
        <4>2. p \in served => <<r, p>> \in Range(server'[target[p]].waitingQueue)
          BY <2>14, <3>2
        <4>3. p \in served => target[p] # None
          BY <2>5, <2>16 DEF served
        <4>4. subs[<<r, p>>].node = None <=> p \notin served
          BY <2>15, <4>2, <4>3
        <4> QED
          BY <2>15, <4>1, <4>4 DEF Refused
      <3> QED
        BY <3>1, <3>2
    <2>30. NoCallLeak'
      <3> SUFFICES ASSUME "call" \notin Faults
                   PROVE  /\ \A s \in Servers : Leaked(server'[s]) = {}
                          /\ \A x \in SubReqs : sub'[x].state # "backend"
        BY DEF NoCallLeak
      <3>1. /\ \A s \in Servers : Leaked(server[s]) = {}
            /\ \A x \in SubReqs : sub[x].state # "backend"
        BY DEF ReqInv, NoCallLeak
      <3>2. ASSUME NEW x \in SubReqs
            PROVE  sub'[x].state # "backend"
        <4>1. subs[x].state # "backend"
          <5>1. CASE x \in {r} \X P
            BY <2>15, <5>1
          <5>2. CASE x \notin {r} \X P
            BY <2>15, <3>1, <5>2
          <5> QED
            BY <5>1, <5>2
        <4> QED
          BY <2>27, <4>1
      <3> QED
        BY <2>9, <3>1, <3>2
    <2>31. /\ Cardinality(Pools) \in Nat /\ IsFiniteSet(served)
           /\ Cardinality(served) \in 0 .. Cardinality(Pools)
           /\ Cardinality(served) > 0
      <3>1. served \subseteq Pools
        BY <2>5
      <3>2. /\ IsFiniteSet(served) /\ Cardinality(served) <= Cardinality(Pools)
            /\ Cardinality(Pools) \in Nat /\ Cardinality(served) \in Nat
        BY <3>1, RequestAssumption, FS_Subset, FS_CardinalityType
      <3>3. Cardinality(served) # 0
        BY <1>2, <3>2, FS_EmptySet DEF served
      <3> QED
        BY <3>2, <3>3
    <2>32. ReqTypeOK'
      <3>1. shardCount' \in [Clients -> 0 .. Cardinality(Pools)]
        BY <2>1, <2>2, <2>31
      <3>2. /\ notDone' \in [Clients -> SUBSET Pools]
            /\ conn' \in [Clients -> {"closed", "reading", "processing"}]
            /\ hasError' \subseteq Clients /\ active' \subseteq Clients
        BY <2>1, <2>2
      <3> QED
        BY <2>1, <2>2, <2>10, <2>27, <3>1, <3>2
        DEF ReqTypeOK, TypeOK, WireType
    <2>33. \A q \in Clients, p \in Pools :
             /\ <<q, p>> \in SubReqs
             /\ <<q, p>> \in {r} \X P <=> q = r /\ p \in P
      BY RequestAssumption
    <2>34. Listed'
      <3> SUFFICES ASSUME NEW q \in Clients, NEW p \in Pools
                   PROVE  sub'[<<q, p>>].state # "freed"
                            <=> q \in active' /\ p \in notDone'[q]
        BY DEF Listed
      <3>1. CASE q = r
        <4>1. q \in active' /\ notDone'[q] = P
          BY <2>1, <2>2, <3>1
        <4>2. p \notin P => sub'[<<q, p>>].state = "freed"
          BY <2>4, <2>28, <2>33, <3>1
        <4> QED
          BY <2>29, <3>1, <4>1, <4>2
      <3>2. CASE q # r
        <4>1. sub'[<<q, p>>] = sub[<<q, p>>]
          BY <2>28, <2>33, <3>2
        <4>2. notDone'[q] = notDone[q] /\ (q \in active' <=> q \in active)
          BY <2>1, <2>2, <3>2
        <4> QED
          BY <2>2, <4>1, <4>2 DEF Listed
      <3> QED
        BY <3>1, <3>2
    <2>35. Counted'
      <3> SUFFICES ASSUME NEW q \in active'
                   PROVE  /\ shardCount'[q]
                               = Cardinality(Outstanding(sub', notDone'[q], q))
                          /\ shardCount'[q] > 0
        BY DEF Counted
      <3>1. q \in Clients
        BY <2>1, <2>2
      <3>2. CASE q = r
        <4>1. notDone'[q] = P /\ shardCount'[q] = Cardinality(served)
          BY <2>1, <2>2, <3>2
        <4>2. Outstanding(sub', P, r) = served
          BY <2>5, <2>29 DEF Outstanding
        <4> QED
          BY <2>31, <3>2, <4>1, <4>2
      <3>3. CASE q # r
        <4>1. /\ notDone'[q] = notDone[q] /\ shardCount'[q] = shardCount[q]
              /\ q \in active /\ notDone[q] \subseteq Pools
          BY <2>1, <2>2, <3>1, <3>3
        <4>2. Outstanding(sub', notDone[q], q) = Outstanding(sub, notDone[q], q)
          BY <2>28, <2>33, <3>1, <3>3, <4>1 DEF Outstanding
        <4> QED
          BY <2>2, <4>1, <4>2 DEF Counted
      <3> QED
        BY <3>2, <3>3
    <2>36. Phases'
      BY <2>1, <2>2 DEF Phases
    <2> QED
      BY <2>10, <2>26, <2>30, <2>32, <2>34, <2>35, <2>36 DEF ReqInv
  <1> QED
    BY <1>1, <1>2

-----------------------------------------------------------------------------
(* The theorems *)

LEMMA ReqInvInit == ReqInit => ReqInv
  <1> SUFFICES ASSUME ReqInit PROVE ReqInv
    OBVIOUS
  <1>1. /\ server = [s \in Servers |-> InitServer]
        /\ conn = [q \in Clients |-> "closed"]
        /\ hasError = {} /\ active = {}
        /\ shardCount = [q \in Clients |-> 0]
        /\ notDone = [q \in Clients |-> {}]
        /\ sub = [x \in SubReqs |-> Freed]
        /\ wire = [s \in Servers |-> [c \in Conns |-> None]]
        /\ crashed = FALSE
    BY DEF ReqInit, Init
  <1>2. /\ ServerOK(InitServer) /\ Leaked(InitServer) = {}
        /\ InitServer.destroyFlag = FALSE /\ InitServer.gone = FALSE
        /\ InitServer.waitingQueue = << >>
        /\ InitServer.holder = [c \in Conns |-> None]
    BY InitServerOK DEF InitServer, Leaked
  <1>3. ServersOK
    BY <1>1, <1>2 DEF ServersOK, ServerOK
  <1>4. Freed \in SubType /\ 0 \in 0 .. Cardinality(Pools)
    <2>1. Cardinality(Pools) \in Nat
      BY RequestAssumption, FS_CardinalityType
    <2> QED
      BY <2>1 DEF Freed, SubType
  <1>5. ReqTypeOK
    BY <1>1, <1>3, <1>4 DEF ReqTypeOK, TypeOK, ServersOK
  <1>6. Formed(sub)
    BY <1>1 DEF Formed, Freed, InService
  <1>7. Linked(server, sub, wire)
    <2>1. Range(<< >>) = {}
      BY DEF Range
    <2> QED
      BY <1>1, <1>2, <2>1, PoolAssumption DEF Linked, Freed, InService
  <1>8. Listed
    <2>1. \A q \in Clients, p \in Pools : <<q, p>> \in SubReqs
      BY RequestAssumption
    <2> QED
      BY <1>1, <2>1 DEF Listed, Freed
  <1>9. Counted /\ Phases
    BY <1>1 DEF Counted, Phases
  <1>10. NoCallLeak
    BY <1>1, <1>2 DEF NoCallLeak, Freed
  <1> QED
    BY <1>3, <1>5, <1>6, <1>7, <1>8, <1>9, <1>10 DEF ReqInv

LEMMA ReqInvStep == ReqInv /\ [ReqNext]_reqVars => ReqInv'
  <1> SUFFICES ASSUME ReqInv, [ReqNext]_reqVars
               PROVE  ReqInv'
    OBVIOUS
  <1>1. ASSUME NEW r \in Clients, ReqTimeoutNull(r)
        PROVE  ReqInv'
    <2>1. /\ UNCHANGED << server, conn, hasError, active, shardCount, notDone,
                          sub, wire >>
          /\ crashed' \in BOOLEAN
      BY <1>1 DEF ReqTimeoutNull
    <2> QED
      BY <2>1 DEF ReqInv, ReqTypeOK, TypeOK, ServersOK, NoCallLeak, Listed,
                  Counted, Phases
  <1>2. CASE UNCHANGED reqVars
    BY <1>2 DEF reqVars, ReqInv, ReqTypeOK, TypeOK, ServersOK, NoCallLeak,
                Listed, Counted, Phases
  <1>3. CASE ReqNext
    <2>1. CASE \E r \in Clients :
                 Accept(r) \/ ClientError(r) \/ Reject(r) \/ Probe(r)
      BY <2>1, ClientStepOK
    <2>2. CASE \E r \in Clients : \E P \in (SUBSET Pools) \ {{}} :
                 \E target \in [Served(P) -> Servers] : ReadDone(r, P, target)
      <3>1. PICK r \in Clients, P \in (SUBSET Pools) \ {{}} :
              \E target \in [Served(P) -> Servers] : ReadDone(r, P, target)
        BY <2>2, Zenon
      <3>2. PICK target \in [Served(P) -> Servers] : ReadDone(r, P, target)
        BY <3>1, Zenon
      <3>3. P \in SUBSET Pools /\ P # {}
        BY ONLY P \in (SUBSET Pools) \ {{}}, Zenon
      <3>4. ReqInv
        OBVIOUS
      <3> QED
        BY ONLY <3>2, <3>3, <3>4, r \in Clients,
                target \in [Served(P) -> Servers], ReadDoneOK, Zenon
    <2>3. CASE \E r \in Clients : ReqTimeout(r) \/ ReqTimeoutNull(r)
      BY <1>1, <2>3, ReqTimeoutOK
    <2>4. CASE \E s \in Servers : MonitorTimer(s)
      BY <2>4, MonitorTimerOK
    <2>5. CASE \E s \in Servers, c \in Conns :
                 \/ \E ok \in BOOLEAN : ConnCreated(s, c, ok)
                 \/ ConnLost(s, c)
                 \/ ConnClosed(s, c)
                 \/ \E err \in BOOLEAN : BackendReply(s, c, err)
      BY <2>5, ConnCreatedOK, ConnDestroyedOK, BackendReplyOK
    <2> QED
      BY <1>3, <2>1, <2>2, <2>3, <2>4, <2>5 DEF ReqNext
  <1> QED
    BY <1>2, <1>3

LEMMA ReqInvAlways == ReqSpec => []ReqInv
  BY ReqInvInit, ReqInvStep, PTL DEF ReqSpec

\* When the plugin answers, everything its answer refers to is still there and
\* belongs together (req_on_shard_done), whichever requests timed out, whichever
\* clients left and whichever calls the plugin refused meanwhile.
THEOREM ReplyAlwaysFinds == ReqSpec => []ReplyFindsSubReq
  <1>1. ReqInv => ReplyFindsSubReq
    <2> SUFFICES ASSUME ReqInv PROVE ReplyFindsSubReq
      OBVIOUS
    <2>1. \A r \in active : conn[r] = "processing"
      BY DEF ReqInv, Phases
    <2> QED
      BY <2>1, ReplyFacts DEF ReplyFindsSubReq
  <1> QED
    BY <1>1, ReqInvAlways, PTL

\* The waiting queues of the pools and the sub-requests that wait are the same
\* (_pool_waiting_queue_rm through pool_waiting_node): none is called back after
\* it was freed, and none is forgotten.
THEOREM WaitersAlwaysAlive == ReqSpec => []WaitersAlive
  <1>1. ReqInv => WaitersAlive
    <2> SUFFICES ASSUME ReqInv, NEW s \in Servers
                 PROVE  Waiting(s) = {x \in SubReqs :
                                        sub[x].state = "before" /\ sub[x].node = s}
      BY DEF WaitersAlive
    <2>1. Waiting(s) \subseteq SubReqs
      <3>1. server[s].waitingQueue \in Seq(SubReqs)
        BY DEF ReqInv, ServersOK, ServerType
      <3> QED
        BY <3>1 DEF Waiting, Range
    <2>2. \A x \in SubReqs : x \in Waiting(s)
            <=> sub[x].state = "before" /\ sub[x].node = s
      BY DEF ReqInv, Linked, Waiting
    <2> QED
      BY <2>1, <2>2
  <1> QED
    BY <1>1, ReqInvAlways, PTL

\* shard_count is exact, so that the answer goes out with the last shard, not
\* before and not never (req_on_shard_done).
THEOREM ShardsAlwaysAccounted == ReqSpec => []ShardsAccounted
  <1>1. ReqInv => ShardsAccounted
    <2> SUFFICES ASSUME ReqInv PROVE ShardsAccounted
      OBVIOUS
    <2>1. ReqTypeOK
      BY DEF ReqInv
    <2>2. ASSUME NEW r \in active
          PROVE  /\ shardCount[r] = Cardinality({p \in notDone[r] :
                      ~ (/\ sub[<<r, p>>].state = "before"
                         /\ sub[<<r, p>>].node = None)})
                 /\ shardCount[r] > 0
      BY DEF ReqInv, Counted, Outstanding, Refused
    <2>3. \A r \in active, p \in Pools :
            sub[<<r, p>>].state # "freed" <=> p \in notDone[r]
      BY <2>1 DEF ReqInv, Listed, ReqTypeOK
    <2> QED
      BY <2>1, <2>2, <2>3 DEF ShardsAccounted
  <1> QED
    BY <1>1, ReqInvAlways, PTL

\* As long as the plugin refuses no call, a request that ends, in whatever way,
\* leaves no connection behind in use (req_cleanup, req_timeout); with a refused
\* call it does, as the run refused shows.
THEOREM ConnectionsComeBack ==
    ASSUME "call" \notin Faults
    PROVE  ReqSpec => []NoLeak
  <1>1. ReqInv => NoLeak
    <2> SUFFICES ASSUME ReqInv, NEW s \in Servers, NEW c \in server[s].inUse
                 PROVE  /\ server[s].holder[c] # None
                        /\ sub[server[s].holder[c]].state # "freed"
      BY DEF NoLeak
    <2>1. /\ c \in Conns
          /\ server[s].holder[c] \in SubReqs \cup {None}
      BY DEF ReqInv, ServersOK, ServerType
    <2>2. server[s].holder[c] # None
      BY DEF ReqInv, NoCallLeak, Leaked
    <2>3. InService(sub[server[s].holder[c]])
      BY <2>1, <2>2 DEF ReqInv, Linked
    <2> QED
      BY <2>2, <2>3 DEF InService
  <1> QED
    BY <1>1, ReqInvAlways, PTL

\* A client connection takes one request at a time and is never freed under it:
\* server_process_done finds it processing and acts on the error that was noted
\* meanwhile (connection_event_cb, error_cb).
THEOREM RequestKeepsConnLife == ReqSpec => ImplementsConnLife
  <1>1. ReqInit => Life!CLInit
    BY DEF ReqInit, Life!CLInit
  <1>2. ReqInv /\ [ReqNext]_reqVars => [Life!CLNext]_(Life!clvars)
    <2> SUFFICES ASSUME ReqInv, [ReqNext]_reqVars
                 PROVE  Life!CLNext \/ UNCHANGED Life!clvars
      OBVIOUS
    <2>1. /\ conn \in [Clients -> {"closed", "reading", "processing"}]
          /\ active \subseteq Clients
          /\ \A q \in active \cup hasError : conn[q] = "processing"
      BY DEF ReqInv, ReqTypeOK, Phases
    <2>2. ASSUME NEW r \in Clients, conn[r] = "reading", ReqDone(r)
          PROVE  UNCHANGED << conn, hasError >>
      <3>1. r \notin hasError
        BY <2>1, <2>2
      <3> QED
        BY <2>1, <2>2, <3>1 DEF ReqDone, ServerProcessDone
    <2>3. ASSUME NEW r \in active, ReqDone(r)
          PROVE  Life!CLNext
      <3>1. r \in Clients /\ Life!Finish(r)
        BY <2>1, <2>3 DEF ReqDone, ServerProcessDone, Life!Finish
      <3> QED
        BY <3>1 DEF Life!CLNext
    <2>4. ASSUME NEW r \in Clients, Accept(r)
          PROVE  Life!CLNext
      <3>1. Life!Open(r)
        BY <2>4 DEF Accept, Life!Open
      <3> QED
        BY <3>1 DEF Life!CLNext
    <2>5. ASSUME NEW r \in Clients, ClientError(r)
          PROVE  Life!CLNext
      <3>1. Life!Fail(r)
        BY <2>5 DEF ClientError, Life!Fail
      <3> QED
        BY <3>1 DEF Life!CLNext
    <2>6. ASSUME NEW r \in Clients, conn[r] = "reading",
                 conn' = [conn EXCEPT ![r] = "processing"], UNCHANGED hasError
          PROVE  Life!CLNext
      <3>1. Life!Take(r)
        BY <2>6 DEF Life!Take
      <3> QED
        BY <3>1 DEF Life!CLNext
    <2>7. ASSUME NEW r \in Clients, NEW P, NEW target, ReadDone(r, P, target)
          PROVE  Life!CLNext \/ UNCHANGED << conn, hasError >>
      BY <2>2, <2>6, <2>7 DEF ReadDone
    <2>8. ASSUME NEW s \in Servers, NEW c \in Conns, NEW err \in BOOLEAN,
                 BackendReply(s, c, err)
          PROVE  Life!CLNext \/ UNCHANGED << conn, hasError >>
      <3>1. wire[s][c][1] \in active
        BY <2>8, ReplyFacts DEF BackendReply
      <3> QED
        BY <2>3, <2>8, <3>1 DEF BackendReply
    <2>9. CASE ReqNext
      <3>1. CASE \E r \in Clients :
                   Accept(r) \/ ClientError(r) \/ Reject(r) \/ Probe(r)
        BY <2>2, <2>4, <2>5, <2>6, <3>1 DEF Reject, Probe, Life!clvars
      <3>2. CASE \E r \in Clients : \E P \in (SUBSET Pools) \ {{}} :
                   \E target \in [Served(P) -> Servers] : ReadDone(r, P, target)
        BY <2>7, <3>2 DEF Life!clvars
      <3>3. CASE \E r \in Clients : ReqTimeout(r) \/ ReqTimeoutNull(r)
        BY <2>3, <3>3 DEF ReqTimeout, ReqTimeoutNull, Life!clvars
      <3>4. CASE \E s \in Servers : MonitorTimer(s)
        BY <3>4 DEF MonitorTimer, PoolEvent, Life!clvars
      <3>5. CASE \E s \in Servers, c \in Conns :
                   \/ \E ok \in BOOLEAN : ConnCreated(s, c, ok)
                   \/ ConnLost(s, c)
                   \/ ConnClosed(s, c)
                   \/ \E err \in BOOLEAN : BackendReply(s, c, err)
        BY <2>8, <3>5
        DEF ConnCreated, ConnLost, ConnClosed, PoolEvent, Life!clvars
      <3> QED
        BY <2>9, <3>1, <3>2, <3>3, <3>4, <3>5 DEF ReqNext
    <2>10. CASE UNCHANGED reqVars
      BY <2>10 DEF reqVars, Life!clvars
    <2> QED
      BY <2>9, <2>10
  <1> QED
    BY <1>1, <1>2, ReqInvAlways, PTL DEF ReqSpec, ImplementsConnLife, Life!CLSpec

-----------------------------------------------------------------------------
(* Requests and their pools: what a handler does to the servers of one pool  *)
(* is one call of the pool, made as Pool assumes.                            *)

\* Nothing of pool p but its server s is touched.
OnlyAt(p, s) == \A t \in ServersOf[p] \ {s} : server'[t] = server[t]

\* The functions of pool.cpp are the same for every pool.
LEMMA SameFunctions ==
    ASSUME NEW p \in Pools
    PROVE  /\ PoolOf(p)!Conns = Conns
           /\ \A sv, sr : PoolOf(p)!FetchConnect(sv, sr) = FetchConnect(sv, sr)
           /\ \A sv, sr : PoolOf(p)!WaitingQueueRm(sv, sr) = WaitingQueueRm(sv, sr)
           /\ \A sv, c, ok :
                PoolOf(p)!OnConnectCreated(sv, c, ok) = OnConnectCreated(sv, c, ok)
           /\ \A sv, c :
                PoolOf(p)!OnConnectDestroyed(sv, c) = OnConnectDestroyed(sv, c)
           /\ \A sv, c, err :
                PoolOf(p)!ReleaseConnect(sv, c, err) = ReleaseConnect(sv, c, err)
           /\ \A sv : PoolOf(p)!ConnectMonitor(sv) = ConnectMonitor(sv)
           /\ \A sv : PoolOf(p)!MayDrift(sv) <=> MayDrift(sv)
           /\ \A srv, S : PoolOf(p)!BalanceServer(srv, S) = BalanceServer(srv, S)
  <1>1. PoolOf(p)!Conns = Conns
    BY DEF PoolOf!Conns, Conns
  <1>2. \A sv : PoolOf(p)!CreateNewConnect(sv) = CreateNewConnect(sv)
    BY DEF PoolOf!CreateNewConnect, CreateNewConnect,
           PoolOf!UnconnectQueueGet, UnconnectQueueGet
  <1>3. \A sv : PoolOf(p)!ConnectMonitor(sv) = ConnectMonitor(sv)
    BY <1>2 DEF PoolOf!ConnectMonitor, ConnectMonitor,
                PoolOf!LowConnectPerServer, LowConnectPerServer
  <1>4. \A sv, c, sr : PoolOf(p)!HandOver(sv, c, sr) = HandOver(sv, c, sr)
    BY DEF PoolOf!HandOver, HandOver
  <1>5. \A sv, sr : PoolOf(p)!FetchConnect(sv, sr) = FetchConnect(sv, sr)
    BY <1>2, <1>4 DEF PoolOf!FetchConnect, FetchConnect,
       PoolOf!ConnectQueueGet, ConnectQueueGet,
       PoolOf!WaitingQueuePut, WaitingQueuePut
  <1>6. \A sv : PoolOf(p)!ServerDestroy(sv) = ServerDestroy(sv)
    BY DEF PoolOf!ServerDestroy, ServerDestroy,
       PoolOf!ServerDestroyed, ServerDestroyed,
       PoolOf!Conns, Conns, PoolOf!Range, Range
  <1>7. \A sv : PoolOf(p)!AllParked(sv) <=> AllParked(sv)
    BY DEF PoolOf!AllParked, AllParked
  <1>9. \A sv, sr : PoolOf(p)!WaitingQueueRm(sv, sr) = WaitingQueueRm(sv, sr)
    BY <1>6, <1>7 DEF PoolOf!WaitingQueueRm, WaitingQueueRm,
       PoolOf!Unlink, Unlink
  <1>10. \A sv, c : PoolOf(p)!PutBackConnect(sv, c) = PutBackConnect(sv, c)
    BY <1>4, <1>6, <1>7 DEF PoolOf!PutBackConnect, PutBackConnect,
       PoolOf!WaitingQueueGet, WaitingQueueGet,
       PoolOf!ConnectQueuePut, ConnectQueuePut
  <1>11. \A sv, c, ok :
           PoolOf(p)!OnConnectCreated(sv, c, ok) = OnConnectCreated(sv, c, ok)
    BY <1>6, <1>7, <1>10 DEF PoolOf!OnConnectCreated, OnConnectCreated,
       PoolOf!UnconnectQueuePut, UnconnectQueuePut
  <1>12. \A sv, c :
           PoolOf(p)!OnConnectDestroyed(sv, c) = OnConnectDestroyed(sv, c)
    BY DEF PoolOf!OnConnectDestroyed, OnConnectDestroyed,
       PoolOf!Unlink, Unlink,
       PoolOf!ConnectQueueRm, ConnectQueueRm,
       PoolOf!UnconnectQueuePut, UnconnectQueuePut,
       PoolOf!ServerDestroyed, ServerDestroyed
  <1>13. \A sv, c, err :
           PoolOf(p)!ReleaseConnect(sv, c, err) = ReleaseConnect(sv, c, err)
    BY <1>10 DEF PoolOf!ReleaseConnect, ReleaseConnect
  <1>14. \A sv : PoolOf(p)!MayDrift(sv) <=> MayDrift(sv)
    BY DEF PoolOf!MayDrift, MayDrift, PoolOf!Conns, Conns,
       PoolOf!Cardinality, Cardinality
  <1>15. \A srv, S : PoolOf(p)!BalanceServer(srv, S) = BalanceServer(srv, S)
    BY DEF PoolOf!BalanceServer, BalanceServer
  <1> QED
    BY <1>1, <1>3, <1>5, <1>9, <1>11, <1>12, <1>13, <1>14, <1>15

\* One server of the pool is updated.
Own(p) == [s \in ServersOf[p] |-> server[s]]

LEMMA UpdateInPool ==
    ASSUME NEW p \in Pools, NEW s \in ServersOf[p], OnlyAt(p, s)
    PROVE  Own(p)' = [Own(p) EXCEPT ![s] = server'[s]] /\ Own(p)[s] = server[s]
  BY DEF OnlyAt, Own

\* What the balancing may choose depends on the servers of the pool only.
LEMMA SameChoice ==
    ASSUME NEW p \in Pools
    PROVE  BalanceServer(Own(p), ServersOf[p])
             = BalanceServer(server, ServersOf[p])
  <1>1. \A s \in ServersOf[p] : Own(p)[s].connectCount = server[s].connectCount
    BY DEF Own
  <1>2. /\ {s \in ServersOf[p] : Own(p)[s].connectCount \notin {0, ConnectPerServer}}
            = {s \in ServersOf[p] : server[s].connectCount \notin {0, ConnectPerServer}}
        /\ {s \in ServersOf[p] : Own(p)[s].connectCount # 0}
            = {s \in ServersOf[p] : server[s].connectCount # 0}
    BY <1>1
  <1> QED
    BY <1>2 DEF BalanceServer

LEMMA UntouchedPool ==
    ASSUME NEW p \in Pools, \A s \in ServersOf[p] : server'[s] = server[s]
    PROVE  UNCHANGED PoolOf(p)!vars
  BY DEF PoolOf!vars

LEMMA FetchInPool ==
    ASSUME NEW p \in Pools, NEW s \in ServersOf[p], OnlyAt(p, s),
           NEW sr \in SubReqs,
           \A t \in ServersOf[p] : /\ ~server[t].destroyFlag
                                   /\ sr \notin Waiting(t) \cup Holding(t),
           s \in BalanceServer(server, ServersOf[p]),
           server'[s] = FetchConnect(server[s], sr)
    PROVE  PoolOf(p)!Serve
  <1>1. PoolOf(p)!Quiet(sr)
    BY DEF PoolOf!Quiet, PoolOf!Waiting, PoolOf!Holding, Waiting, Holding,
           PoolOf!Range, Range
  <1>2. Own(p)' = [Own(p) EXCEPT ![s] = PoolOf(p)!FetchConnect(Own(p)[s], sr)]
    BY SameFunctions, UpdateInPool
  <1>3. s \in PoolOf(p)!BalanceServer(Own(p), ServersOf[p])
    BY SameFunctions, SameChoice
  <1>4. PoolOf(p)!Fetch(sr, s)
    BY <1>1, <1>2, <1>3 DEF PoolOf!Fetch, PoolOf!Update, Own
  <1> QED
    BY <1>4 DEF PoolOf!Serve

LEMMA AbandonInPool ==
    ASSUME NEW p \in Pools, NEW s \in ServersOf[p], OnlyAt(p, s),
           NEW sr \in SubReqs, ~server[s].gone, sr \in Waiting(s),
           server'[s] = WaitingQueueRm(server[s], sr)
    PROVE  PoolOf(p)!Serve
  <1>1. Own(p)' = [Own(p) EXCEPT ![s] = PoolOf(p)!WaitingQueueRm(Own(p)[s], sr)]
    BY SameFunctions, UpdateInPool
  <1>2. sr \in PoolOf(p)!Waiting(s)
    BY DEF PoolOf!Waiting, Waiting, PoolOf!Range, Range
  <1>3. PoolOf(p)!Abandon(s, sr)
    BY <1>1, <1>2 DEF PoolOf!Abandon, PoolOf!Update, Own
  <1> QED
    BY <1>3 DEF PoolOf!Serve

LEMMA ReleaseInPool ==
    ASSUME NEW p \in Pools, NEW s \in ServersOf[p], OnlyAt(p, s),
           NEW c \in Conns, NEW err \in BOOLEAN,
           ~server[s].gone, c \in server[s].inUse,
           err => \/ server[s].link[c] = "lost"
                  \/ "use" \in Faults /\ MayDrift(server[s]),
           server'[s] = ReleaseConnect(server[s], c, err)
    PROVE  PoolOf(p)!Serve
  <1>1. Own(p)' = [Own(p) EXCEPT ![s] = PoolOf(p)!ReleaseConnect(Own(p)[s], c, err)]
    BY SameFunctions, UpdateInPool
  <1>2. PoolOf(p)!MayDrift(server[s]) <=> MayDrift(server[s])
    BY SameFunctions
  <1>3. PoolOf(p)!Release(s, c, err)
    BY <1>1, <1>2 DEF PoolOf!Release, PoolOf!Update, Own
  <1> QED
    BY <1>3, SameFunctions DEF PoolOf!Serve

\* The plugin's reports and the timer are the pool's own.
LEMMA EventInPool ==
    ASSUME server \in [Servers -> ServerType], NEW p \in Pools,
           NEW s \in Servers,
           \/ Monitor(s)
           \/ \E c \in Conns : \/ \E ok \in BOOLEAN : Created(s, c, ok)
                               \/ LostIdle(s, c) \/ LostInUse(s, c)
                               \/ Closed(s, c)
    PROVE  UNCHANGED PoolOf(p)!vars \/ PoolOf(p)!Serve
  <1>1. PICK h : server' = [server EXCEPT ![s] = h]
    BY DEF Monitor, Created, LostIdle, LostInUse, Closed, Update
  <1>2. /\ ServersOf[p] \subseteq Servers
        /\ \A t \in Servers \ {s} : server'[t] = server[t]
    BY <1>1, RequestAssumption
  <1>3. CASE s \notin ServersOf[p]
    BY <1>2, <1>3, UntouchedPool
  <1>4. CASE s \in ServersOf[p]
    <2>1. /\ Own(p)' = [Own(p) EXCEPT ![s] = server'[s]]
          /\ Own(p)[s] = server[s]
      BY <1>2, <1>4, UpdateInPool DEF OnlyAt
    <2>3. CASE Monitor(s)
      <3>1. Own(p)' = [Own(p) EXCEPT ![s] = PoolOf(p)!ConnectMonitor(Own(p)[s])]
        BY <2>1, <2>3, SameFunctions DEF Monitor, Update
      <3>3. PoolOf(p)!Monitor(s)
        BY <1>4, <2>3, <3>1 DEF Monitor, PoolOf!Monitor,
            PoolOf!Update, Own
      <3> QED
        BY <1>4, <3>3 DEF PoolOf!Serve
    <2>4. ASSUME NEW c \in Conns, NEW ok \in BOOLEAN, Created(s, c, ok)
          PROVE  PoolOf(p)!Serve
      <3>0. server'[s] = OnConnectCreated(server[s], c, ok)
        BY <2>4 DEF Created, Update
      <3>1. PoolOf(p)!OnConnectCreated(Own(p)[s], c, ok) = server'[s]
        BY <2>1, <3>0, SameFunctions
      <3>4. Own(p)' = [Own(p) EXCEPT ![s] = PoolOf(p)!OnConnectCreated(Own(p)[s], c, ok)]
        BY <2>1, <3>1, Zenon
      <3>3. PoolOf(p)!Created(s, c, ok)
        BY <1>4, <2>4, <3>4 DEF Created, PoolOf!Created,
            PoolOf!Update, Own
      <3> QED
        BY <1>4, <3>3, SameFunctions DEF PoolOf!Serve
    <2>5. ASSUME NEW c \in Conns, LostIdle(s, c)
          PROVE  PoolOf(p)!Serve
      <3>0. server'[s] = OnConnectDestroyed(server[s], c)
        BY <2>5 DEF LostIdle, Update
      <3>1. PoolOf(p)!OnConnectDestroyed(Own(p)[s], c) = server'[s]
        BY <2>1, <3>0, SameFunctions
      <3>4. Own(p)' = [Own(p) EXCEPT ![s] = PoolOf(p)!OnConnectDestroyed(Own(p)[s], c)]
        BY <2>1, <3>1, Zenon
      <3>3. PoolOf(p)!LostIdle(s, c)
        BY <1>4, <2>5, <3>4 DEF LostIdle, PoolOf!LostIdle,
            PoolOf!Update, Own
      <3> QED
        BY <1>4, <3>3, SameFunctions DEF PoolOf!Serve
    <2>6. ASSUME NEW c \in Conns, LostInUse(s, c)
          PROVE  PoolOf(p)!Serve
      <3>0. server'[s] = OnConnectDestroyed(server[s], c)
        BY <2>6 DEF LostInUse, Update
      <3>1. PoolOf(p)!OnConnectDestroyed(Own(p)[s], c) = server'[s]
        BY <2>1, <3>0, SameFunctions
      <3>4. Own(p)' = [Own(p) EXCEPT ![s] = PoolOf(p)!OnConnectDestroyed(Own(p)[s], c)]
        BY <2>1, <3>1, Zenon
      <3>2. PoolOf(p)!MayDrift(server[s]) <=> MayDrift(server[s])
        BY SameFunctions
      <3>3. PoolOf(p)!LostInUse(s, c)
        BY <1>4, <2>6, <3>4, <3>2 DEF LostInUse, PoolOf!LostInUse,
            PoolOf!Update, Own
      <3> QED
        BY <1>4, <3>3, SameFunctions DEF PoolOf!Serve
    <2>7. ASSUME NEW c \in Conns, Closed(s, c)
          PROVE  PoolOf(p)!Serve
      <3>0. server'[s] = OnConnectDestroyed(server[s], c)
        BY <2>7 DEF Closed, Update
      <3>1. PoolOf(p)!OnConnectDestroyed(Own(p)[s], c) = server'[s]
        BY <2>1, <3>0, SameFunctions
      <3>4. Own(p)' = [Own(p) EXCEPT ![s] = PoolOf(p)!OnConnectDestroyed(Own(p)[s], c)]
        BY <2>1, <3>1, Zenon
      <3>3. PoolOf(p)!Closed(s, c)
        BY <1>4, <2>7, <3>4 DEF Closed, PoolOf!Closed,
            PoolOf!Update, Own
      <3> QED
        BY <1>4, <3>3, SameFunctions DEF PoolOf!Serve
    <2> QED
      BY <2>3, <2>4, <2>5, <2>6, <2>7
  <1> QED
    BY <1>3, <1>4

\* A step of the request, as the pools see it.
PoolsKept ==
    \A p \in Served(Pools) : UNCHANGED PoolOf(p)!vars \/ PoolOf(p)!Serve

LEMMA UntouchedPools ==
    ASSUME server' = server
    PROVE  PoolsKept
  BY UntouchedPool DEF PoolsKept, Served

\* A new request asks each of its pools once, for a sub-request that nobody
\* knows.
LEMMA ReadDoneKept ==
    ASSUME ReqInv, NEW r \in Clients, NEW P \in SUBSET Pools,
           NEW target \in [Served(P) -> Servers], ReadDone(r, P, target)
    PROVE  PoolsKept
  <1> DEFINE served == Served(P)
             asked(s) == {p \in served : target[p] = s}
  <1>1. CASE served = {}
    BY <1>1, UntouchedPools DEF ReadDone
  <1>2. CASE served # {}
    <2>1. /\ conn[r] = "reading"
          /\ \A p \in served : target[p] \in BalanceServer(server, ServersOf[p])
          /\ server' = [s \in Servers |->
               IF asked(s) = {} THEN server[s]
               ELSE FetchConnect(server[s],
                                 <<r, CHOOSE p \in asked(s) : TRUE>>)]
      BY <1>2 DEF ReadDone
    <2>2. \A p \in Pools : <<r, p>> \in SubReqs /\ sub[<<r, p>>].state = "freed"
      <3>1. r \notin active
        BY <2>1 DEF ReqInv, Phases
      <3> QED
        BY <3>1, RequestAssumption DEF ReqInv, Listed
    <2>3. /\ served \subseteq Pools
          /\ \A p \in served : target[p] \in ServersOf[p]
      <3>1. \A S : BalanceServer(server, S) \subseteq S
        BY DEF BalanceServer
      <3> QED
        BY <2>1, <3>1 DEF Served
    <2>4. \A p \in Pools : \A t \in ServersOf[p] : t \in Servers
      BY RequestAssumption
    <2>5. \A p \in Pools : \A t \in ServersOf[p], q \in served :
            target[q] = t => q = p
      BY <2>3, RequestAssumption
    <2>6. ASSUME NEW p \in Pools, NEW t \in ServersOf[p],
                 p \notin served \/ target[p] # t
          PROVE  server'[t] = server[t]
      <3>1. asked(t) = {}
        BY <2>5, <2>6
      <3> HIDE DEF asked, served
      <3> QED
        BY <2>1, <2>4, <3>1
    <2>7. ASSUME NEW p \in served
          PROVE  PoolOf(p)!Serve
      <3>1. p \in Pools /\ target[p] \in ServersOf[p] /\ target[p] \in Servers
        BY <2>3, <2>4
      <3>2. asked(target[p]) = {p}
        BY <2>5, <3>1
      <3>3. (CHOOSE q \in asked(target[p]) : TRUE) = p
        BY <3>2
      <3> HIDE DEF asked
      <3>4. server'[target[p]] = FetchConnect(server[target[p]], <<r, p>>)
        BY <2>1, <3>1, <3>2, <3>3
      <3>5. OnlyAt(p, target[p])
        BY <2>6, <3>1 DEF OnlyAt
      <3>6. ASSUME NEW t \in ServersOf[p]
            PROVE  /\ ~server[t].destroyFlag
                   /\ <<r, p>> \notin Waiting(t) \cup Holding(t)
        <4>1. t \in Servers /\ <<r, p>> \in SubReqs
              /\ sub[<<r, p>>].state = "freed"
          BY <2>2, <2>4, <3>1
        <4>2. /\ <<r, p>> \notin Range(server[t].waitingQueue)
              /\ \A d \in Conns : server[t].holder[d] # <<r, p>>
          BY <4>1 DEF ReqInv, Linked, InService
        <4>3. server[t].inUse \subseteq Conns /\ ~server[t].destroyFlag
          BY <4>1 DEF ReqInv, ServersOK, ServerType
        <4> QED
          BY <4>2, <4>3 DEF Waiting, Holding
      <3>7. /\ <<r, p>> \in SubReqs
            /\ target[p] \in BalanceServer(server, ServersOf[p])
        BY <2>1, <2>2, <3>1
      <3>8. PICK s \in ServersOf[p] : s = target[p]
        BY <3>1
      <3>9. PICK x \in SubReqs : x = <<r, p>>
        BY <3>7
      <3> QED
        BY <3>1, <3>4, <3>5, <3>6, <3>7, <3>8, <3>9, FetchInPool
    <2> QED
      BY <2>6, <2>7, UntouchedPool DEF PoolsKept, Served
  <1> QED
    BY <1>1, <1>2

\* An answer releases the connection that it came over, and no other.
LEMMA BackendReplyKept ==
    ASSUME ReqInv, NEW s \in Servers, NEW c \in Conns, NEW err \in BOOLEAN,
           BackendReply(s, c, err)
    PROVE  PoolsKept
  <1> DEFINE sr == wire[s][c]
             r == sr[1]
             h == ReleaseConnect(server[s], c, err)
  <1>1. /\ sr # None
        /\ err => \/ server[s].link[c] = "lost"
                  \/ "use" \in Faults /\ MayDrift(server[s])
        /\ server' = [t \in Servers |->
             LET sv == IF t = s THEN h ELSE server[t]
             IN  IF LastShard(r) THEN ForgetHolder(sv, r) ELSE sv]
    BY DEF BackendReply
  <1>2. /\ sr \in SubReqs /\ r \in Clients /\ sr[2] \in Pools
        /\ sr = <<r, sr[2]>>
        /\ sub[sr].state = "pool" /\ sub[sr].handle = <<s, c>>
        /\ server[s].holder[c] = sr /\ c \in server[s].inUse
        /\ r \in active
        /\ sr[2] \in Outstanding(sub, notDone[r], r)
    BY <1>1, ReplyFacts
  <1>3. /\ \A t \in Servers : server[t] \in ServerType
        /\ ServerOK(server[s]) /\ ~server[s].gone
        /\ Linked(server, sub, wire)
    BY DEF ReqInv, ServersOK
  <1>4. ServerOK(h) /\ h \in ServerType
    BY <1>2, <1>3, ReleaseConnectOK DEF ServerOK
  <1>5. \/ Serves(server[s], h, c) \/ Parks(server[s], h, c)
        \/ Drops(server[s], h, c)
    BY <1>2, <1>3, ReleaseConnectEffect
  <1> HIDE DEF sr, r, h
  <1>6. server'[s] = h /\ \A t \in Servers \ {s} : server'[t] = server[t]
    <2>1. CASE ~LastShard(r)
      BY <1>1, <2>1
    <2>2. CASE LastShard(r)
      <3>1. \A q \in Pools : q # sr[2] => \/ sub[<<r, q>>].state = "freed"
                                          \/ Refused(sub[<<r, q>>])
        BY <1>2, <2>2, LastOne DEF LastShard
      <3>2. \A x \in SubsOf(r) : x = <<r, x[2]>> /\ x[2] \in Pools /\ x \in SubReqs
        BY <1>2, RequestAssumption DEF SubsOf
      <3>3. \A x \in SubsOf(r) : x # sr => \/ sub[x].state = "freed"
                                           \/ Refused(sub[x])
        BY <1>2, <3>1, <3>2
      <3>4. ASSUME NEW t \in Servers, NEW d \in Conns, ~(t = s /\ d = c)
            PROVE  server[t].holder[d] \notin SubsOf(r)
        <4>1. SUFFICES ASSUME server[t].holder[d] \in SubsOf(r)
                       PROVE  FALSE
          OBVIOUS
        <4>2. PICK x \in SubReqs : x = server[t].holder[d] /\ x \in SubsOf(r)
          BY <3>2, <4>1
        <4>3. InService(sub[x]) /\ sub[x].handle = <<t, d>>
          BY <1>3, <4>2 DEF Linked
        <4>4. x = sr
          BY <3>3, <4>2, <4>3 DEF InService, Refused
        <4> QED
          BY <1>2, <3>4, <4>3, <4>4
      <3>5. \A d \in Conns : h.holder[d] \notin SubsOf(r)
        <4>1. /\ server[s].holder \in [Conns -> SubReqs \cup {None}]
              /\ server[s].waitingQueue \in Seq(SubReqs)
          BY <1>3 DEF ServerType
        <4>2. ASSUME NEW x \in SubsOf(r) PROVE x \notin Range(server[s].waitingQueue)
          <5>1. \/ sub[x].state # "before" \/ sub[x].node = None
            BY <1>2, <3>3 DEF Refused
          <5>2. s # None /\ x \in SubReqs
            BY <3>2, RequestAssumption
          <5> QED
            BY <1>3, <5>1, <5>2 DEF Linked
        <4>3. None \notin SubsOf(r)
          BY <3>2, PoolAssumption
        <4>4. ASSUME server[s].waitingQueue # << >>
              PROVE  Head(server[s].waitingQueue) \in Range(server[s].waitingQueue)
          BY <4>1, <4>4 DEF Range
        <4>5. \A d \in Conns : d # c => server[s].holder[d] \notin SubsOf(r)
          BY <3>4
        <4> QED
          BY <1>5, <4>1, <4>2, <4>3, <4>4, <4>5 DEF Serves, Parks, Drops
      <3>6. ForgetHolder(h, r) = h
        BY <1>4, <3>5, NothingForgotten
      <3>7. \A t \in Servers \ {s} : ForgetHolder(server[t], r) = server[t]
        BY <1>3, <3>4, NothingForgotten
      <3> QED
        BY <1>1, <2>2, <3>6, <3>7
    <2> QED
      BY <2>1, <2>2
  <1>7. ASSUME NEW p \in Pools
        PROVE  UNCHANGED PoolOf(p)!vars \/ PoolOf(p)!Serve
    <2>1. ServersOf[p] \subseteq Servers
      BY RequestAssumption
    <2>2. CASE s \notin ServersOf[p]
      BY <1>6, <2>1, <2>2, UntouchedPool
    <2>3. CASE s \in ServersOf[p]
      <3>1. OnlyAt(p, s)
        BY <1>6, <2>1 DEF OnlyAt
      <3>2. server'[s] = ReleaseConnect(server[s], c, err)
        BY <1>6 DEF h
      <3> QED
        BY <1>1, <1>2, <1>3, <2>3, <3>1, <3>2, ReleaseInPool
    <2> QED
      BY <2>2, <2>3
  <1> QED
    BY <1>7 DEF PoolsKept, Served

\* The timer takes each sub-request of r from where it is, and finds it there.
LEMMA ReqTimeoutKept ==
    ASSUME "call" \notin Faults, "use" \in Faults,
           ReqInv, NEW r \in Clients, ReqTimeout(r)
    PROVE  PoolsKept
  <1> DEFINE sent == {sub[<<r, p>>].handle :
                        p \in {q \in notDone[r] : sub[<<r, q>>].state = "pool"}}
  <1>1. /\ r \in active
        /\ \A p \in notDone[r] :
             sub[<<r, p>>].state = "before" => sub[<<r, p>>].node # None
        /\ \A g \in sent : \/ server[g[1]].link[g[2]] = "lost"
                           \/ MayDrift(server[g[1]])
        /\ server' = [s \in Servers |-> ForgetHolder(CleanedUp(r, s), r)]
    BY DEF ReqTimeout, CleanedUp, ListedAt
  <1>2. /\ \A t \in Servers : /\ server[t] \in ServerType
                              /\ ServerOK(server[t]) /\ ~server[t].gone
        /\ Linked(server, sub, wire) /\ Formed(sub) /\ Listed
        /\ sub \in [SubReqs -> SubType] /\ notDone[r] \subseteq Pools
        /\ \A x \in SubReqs : sub[x].state # "backend"
    BY DEF ReqInv, ServersOK, ReqTypeOK, NoCallLeak
  <1>3. ASSUME NEW p \in Pools
        PROVE  UNCHANGED PoolOf(p)!vars \/ PoolOf(p)!Serve
    <2> DEFINE x == <<r, p>>
    <2>1. /\ ServersOf[p] \subseteq Servers /\ x \in SubReqs
          /\ x \in SubsOf(r) /\ None \notin Servers
      BY RequestAssumption DEF SubsOf
    <2>2. ASSUME NEW t \in ServersOf[p], NEW y \in SubsOf(r),
                 \E d \in Conns : server[t].holder[d] = y
          PROVE  y = x
      <3>1. y = <<r, y[2]>> /\ ListedAt(r, t) = {y[2]}
        BY <1>1, <2>1, <2>2, AtServer DEF ListedAt
      <3>2. y[2] \in notDone[r] /\ t \in ServersOf[y[2]]
        BY <3>1 DEF ListedAt
      <3> QED
        BY <1>2, <2>1, <3>1, <3>2, RequestAssumption
    <2>3. ASSUME NEW t \in ServersOf[p], NEW d \in Conns,
                 server[t].holder[d] \in SubsOf(r)
          PROVE  sub[x].state = "pool" /\ sub[x].handle = <<t, d>>
      <3>1. server[t].holder[d] = x
        BY <2>2, <2>3
      <3>2. InService(sub[x]) /\ sub[x].handle = <<t, d>>
        BY <1>2, <2>1, <3>1 DEF Linked
      <3> QED
        BY <1>2, <2>1, <3>2 DEF InService
    <2>4. \A t \in ServersOf[p] :
            CleanedUp(r, t) = IF p \in notDone[r]
                              THEN TimeoutCleanup(server[t], t, x)
                              ELSE server[t]
      <3>1. ASSUME NEW t \in ServersOf[p]
            PROVE  ListedAt(r, t) = IF p \in notDone[r] THEN {p} ELSE {}
        BY <1>2, <2>1, RequestAssumption DEF ListedAt
      <3>2. (CHOOSE q \in {p} : TRUE) = p
        OBVIOUS
      <3> QED
        BY <3>1, <3>2 DEF CleanedUp
    <2>5. p \in notDone[r] <=> sub[x].state # "freed"
      BY <1>1, <1>2 DEF Listed
    <2>6. sub[x].state \in {"freed", "before", "pool"}
      BY <1>2, <2>1 DEF SubType
    <2>7. \A t \in ServersOf[p] : server'[t] = ForgetHolder(CleanedUp(r, t), r)
      BY <1>1, <2>1
    <2>8. ASSUME NEW t \in ServersOf[p], CleanedUp(r, t) = server[t],
                 ~(sub[x].state = "pool" /\ sub[x].handle[1] = t)
          PROVE  server'[t] = server[t]
      <3>1. \A d \in Conns : server[t].holder[d] \notin SubsOf(r)
        <4>1. \A d \in Conns : <<t, d>>[1] = t
          OBVIOUS
        <4> QED
          BY <2>3, <2>8, <4>1
      <3>2. ForgetHolder(server[t], r) = server[t]
        BY <1>2, <2>1, <3>1, NothingForgotten
      <3> QED
        BY <2>7, <2>8, <3>2
    <2>9. CASE sub[x].state = "freed"
      <3>1. \A t \in ServersOf[p] : server'[t] = server[t]
        BY <2>4, <2>5, <2>8, <2>9
      <3> QED
        BY <3>1, UntouchedPool
    <2>10. CASE sub[x].state = "before"
      <3>1. sub[x].node # None
        BY <1>1, <2>5, <2>10
      <3>2. sub[x].node \in ServersOf[p]
        BY <1>2, <2>1, <2>10, <3>1 DEF Formed
      <3>3. PICK s \in ServersOf[p] : s = sub[x].node
        BY <3>2
      <3>4. s \in Servers /\ x \in Waiting(s)
        BY <1>2, <2>1, <2>10, <3>3 DEF Linked, Waiting
      <3>5. \A t \in ServersOf[p] : CleanedUp(r, t) =
              IF t = s THEN WaitingQueueRm(server[t], x) ELSE server[t]
        BY <2>4, <2>5, <2>10, <3>3 DEF TimeoutCleanup
      <3>6. OnlyAt(p, s)
        BY <2>8, <2>10, <3>5 DEF OnlyAt
      <3>7. server'[s] = WaitingQueueRm(server[s], x)
        <4> DEFINE h == WaitingQueueRm(server[s], x)
        <4>1. h \in ServerType /\ h.holder = server[s].holder
          BY <1>2, <2>1, <3>4, WaitingQueueRmOK, WaitingQueueRmEffect
          DEF ServerOK, Waiting
        <4>2. \A d \in Conns : server[s].holder[d] \notin SubsOf(r)
          BY <2>3, <2>10
        <4>3. ForgetHolder(h, r) = h
          BY <4>1, <4>2, NothingForgotten
        <4> QED
          BY <2>7, <3>5, <4>3
      <3>8. ~server[s].gone
        BY <1>2, <3>4
      <3> QED
        BY <2>1, <3>4, <3>6, <3>7, <3>8, AbandonInPool
    <2>11. CASE sub[x].state = "pool"
      <3>1. sub[x].handle \in ServersOf[p] \X Conns
        BY <1>2, <2>1, <2>11 DEF Formed, InService
      <3>2. PICK s \in ServersOf[p], c \in Conns : sub[x].handle = <<s, c>>
        BY <3>1
      <3>3. sub[x].handle[1] = s /\ sub[x].handle[2] = c
        BY <3>2
      <3>4. s \in Servers /\ ServerOK(server[s]) /\ ~server[s].gone
        BY <1>2, <2>1
      <3>5. server[s].holder[c] = x /\ c \in server[s].inUse
        <4>1. server[s].holder[c] = x
          BY <1>2, <2>1, <2>11, <3>2, <3>4 DEF Linked, InService
        <4> QED
          BY <2>1, <3>4, <4>1, PoolAssumption DEF ServerOK, ClaimInv
      <3>6. server[s].link[c] = "lost" \/ MayDrift(server[s])
        <4>1. sub[x].handle \in sent
          BY <2>5, <2>11
        <4> QED
          BY <1>1, <3>3, <4>1
      <3>7. \A t \in ServersOf[p] : CleanedUp(r, t) =
              IF t = s THEN ReleaseConnect(server[t], c, TRUE) ELSE server[t]
        BY <2>4, <2>5, <2>11, <3>3 DEF TimeoutCleanup
      <3>8. OnlyAt(p, s)
        BY <2>8, <3>3, <3>7 DEF OnlyAt
      <3>9. server'[s] = ReleaseConnect(server[s], c, TRUE)
        <4> DEFINE h == ReleaseConnect(server[s], c, TRUE)
        <4>1. /\ h \in ServerType
              /\ h.holder = [server[s].holder EXCEPT ![c] = None]
          <5>1. ServerOK(h) /\ Drops(server[s], h, c)
            BY <3>4, <3>5, ReleaseConnectOK, ReleaseConnectEffect
          <5> QED
            BY <5>1 DEF ServerOK, Drops
        <4>2. server[s].holder \in [Conns -> SubReqs \cup {None}]
          BY <1>2, <3>4 DEF ServerType
        <4>3. \A d \in Conns \ {c} : server[s].holder[d] \notin SubsOf(r)
          <5>1. \A d \in Conns : <<s, d>> = <<s, c>> => d = c
            OBVIOUS
          <5> QED
            BY <2>3, <3>2, <5>1
        <4>4. None \notin SubsOf(r)
          BY PoolAssumption, RequestAssumption DEF SubsOf
        <4>5. ForgetHolder(h, r) = h
          BY <4>1, <4>2, <4>3, <4>4, NothingForgotten
        <4> QED
          BY <2>7, <3>7, <4>5
      <3> QED
        BY <3>4, <3>5, <3>6, <3>8, <3>9, ReleaseInPool
    <2> QED
      BY <2>6, <2>9, <2>10, <2>11
  <1> QED
    BY <1>3 DEF PoolsKept, Served

LEMMA StepKept ==
    ASSUME "call" \notin Faults, "use" \in Faults, ReqInv, ReqNext
    PROVE  PoolsKept
  <1>1. CASE \E r \in Clients : \/ Accept(r) \/ ClientError(r) \/ Reject(r)
                                \/ Probe(r) \/ ReqTimeoutNull(r)
    BY <1>1, UntouchedPools
    DEF Accept, ClientError, Reject, Probe, ReqTimeoutNull
  <1>2. CASE \E r \in Clients : \E P \in (SUBSET Pools) \ {{}} :
               \E target \in [Served(P) -> Servers] : ReadDone(r, P, target)
    <2>1. PICK r \in Clients, P \in (SUBSET Pools) \ {{}} :
            \E target \in [Served(P) -> Servers] : ReadDone(r, P, target)
      BY <1>2, Zenon
    <2>2. PICK target \in [Served(P) -> Servers] : ReadDone(r, P, target)
      BY <2>1, Zenon
    <2>3. P \in SUBSET Pools
      BY ONLY P \in (SUBSET Pools) \ {{}}, Zenon
    <2>4. ReqInv
      OBVIOUS
    <2> QED
      BY ONLY <2>2, <2>3, <2>4, r \in Clients,
              target \in [Served(P) -> Servers], ReadDoneKept, Zenon
  <1>3. CASE \E r \in Clients : ReqTimeout(r)
    BY <1>3, ReqTimeoutKept
  <1>4. ASSUME NEW s \in Servers, NEW c \in Conns, NEW err \in BOOLEAN,
               BackendReply(s, c, err)
        PROVE  PoolsKept
    BY <1>4, BackendReplyKept
  <1>5. CASE \E s \in Servers :
               \/ Monitor(s)
               \/ \E c \in Conns : \/ \E ok \in BOOLEAN : Created(s, c, ok)
                                   \/ LostIdle(s, c) \/ LostInUse(s, c)
                                   \/ Closed(s, c)
    <2>1. server \in [Servers -> ServerType]
      BY DEF ReqInv, ServersOK
    <2> QED
      BY <1>5, <2>1, EventInPool DEF PoolsKept, Served
  <1> QED
    BY <1>1, <1>2, <1>3, <1>4, <1>5
    DEF ReqNext, MonitorTimer, ConnCreated, ConnLost, ConnClosed

\* What the proofs about Pool take for granted of the pool's users is true of
\* requests, for each of the pools they use at once: every step of a request, a
\* timeout of many shards included, is in each pool nothing or one legal call
\* (req_on_getshards, req_on_shard_done, req_timeout_connect_cleanup).  A
\* timeout gives connections back with an error, which Pool counts among the
\* faults in "use".
THEOREM RequestKeepsPools ==
    ASSUME "call" \notin Faults, "use" \in Faults
    PROVE  ReqSpec => KeepsPoolContract
  <1>1. ReqInv /\ [ReqNext]_reqVars
          => [\A p \in Served(Pools) :
                UNCHANGED PoolOf(p)!vars \/ PoolOf(p)!Serve]_server
    BY StepKept DEF PoolsKept, reqVars
  <1> QED
    BY <1>1, ReqInvAlways, PTL DEF ReqSpec, KeepsPoolContract
=============================================================================
