-------------------------------- MODULE Pool --------------------------------
(***************************************************************************)
(* One connection pool (pool_info_t) as its users and the backend plugin   *)
(* see it: sub-requests fetch and release connections, give up after the   *)
(* request timeout, the plugin reports connections created and destroyed,  *)
(* the monitor timer fires and, on a configuration switch, the pool is     *)
(* destroyed.  Everything runs on the one event loop, so each callback is  *)
(* one action; the operators of PoolOps are the bodies.                    *)
(*                                                                         *)
(* The plugin is outside the repository.  Its contract, read off the calls *)
(* pool.cpp makes, is: the connect callback comes exactly once for every   *)
(* m_createCb, and the destroy callback comes exactly once for every       *)
(* m_destroyCb, both from the event loop and not from within the call; a   *)
(* connection that goes down by itself is reported once through the        *)
(* destroy callback.                                                       *)
(***************************************************************************)
EXTENDS PoolOps

CONSTANTS Servers,     \* the servers of the pool (m_serverArr)
          Faults,      \* what may go wrong: a "connect" fails, a connection
                       \* goes down while "idle" or in "use", and, for the
                       \* users of this module, a backend "call" is refused
          MaxDrift     \* bound on the connections that fail while in use

ASSUME PoolEnvAssumption ==
    /\ Servers # {}
    /\ Faults \subseteq {"connect", "idle", "use", "call"}
    /\ MaxDrift \in Nat

VARIABLE server

vars == << server >>

TypeOK == server \in [Servers -> ServerType]

Waiting(s) == Range(server[s].waitingQueue)

Holding(s) == {server[s].holder[c] : c \in server[s].inUse}

\* A sub-request asks once; it may ask again after it got rid of its
\* connection (the next request reuses the name).
Quiet(sr) == \A s \in Servers : sr \notin Waiting(s) \cup Holding(s)

\* freeConnectCount falls behind its queue each time a connection fails in
\* use (see ConnectQueueRm) and the code does not bound how far.  The model
\* stops such failures once the lag, the connections on their way to adding
\* to it included, reaches MaxDrift.
MayDrift(sv) ==
    Len(sv.connectQueue) - sv.freeConnectCount
      + Cardinality({c \in Conns : sv.link[c] \in {"lost", "closing"}})
    < MaxDrift

-----------------------------------------------------------------------------

Init == server = [s \in Servers |-> InitServer]

Update(s, sv) == server' = [server EXCEPT ![s] = sv]

\* pool_fetch_connect.  After pool_destroy the router no longer hands this
\* pool out.
Fetch(sr, s) ==
    /\ \A t \in Servers : ~server[t].destroyFlag
    /\ Quiet(sr)
    /\ s \in BalanceServer(server, Servers)
    /\ Update(s, FetchConnect(server[s], sr))

\* The plugin's connect callback, with status 0 or not.
Created(s, c, ok) ==
    /\ ~server[s].gone
    /\ server[s].link[c] = "connecting"
    /\ ok \/ "connect" \in Faults
    /\ Update(s, OnConnectCreated(server[s], c, ok))

\* The backend closes an established connection: idle ...
LostIdle(s, c) ==
    /\ "idle" \in Faults
    /\ ~server[s].gone
    /\ server[s].link[c] = "up" /\ c \notin server[s].inUse
    /\ Update(s, OnConnectDestroyed(server[s], c))

\* ... or while a sub-request is using it.
LostInUse(s, c) ==
    /\ "use" \in Faults
    /\ ~server[s].gone
    /\ server[s].link[c] = "up" /\ c \in server[s].inUse
    /\ MayDrift(server[s])
    /\ Update(s, OnConnectDestroyed(server[s], c))

\* The destroy callback that answers m_destroyCb.
Closed(s, c) ==
    /\ ~server[s].gone
    /\ server[s].link[c] = "closing"
    /\ Update(s, OnConnectDestroyed(server[s], c))

\* pool_release_connect by the sub-request that holds the connection.
Release(s, c, err) ==
    /\ ~server[s].gone
    /\ c \in server[s].inUse
    /\ err => \/ server[s].link[c] = "lost"
              \/ "use" \in Faults /\ MayDrift(server[s])
    /\ Update(s, ReleaseConnect(server[s], c, err))

\* req_timeout_connect_cleanup takes a waiting sub-request out of the queue.
Abandon(s, sr) ==
    /\ ~server[s].gone
    /\ sr \in Waiting(s)
    /\ Update(s, WaitingQueueRm(server[s], sr))

\* The monitor timer; pool_destroy frees it.
Monitor(s) ==
    /\ ~server[s].destroyFlag
    /\ Update(s, ConnectMonitor(server[s]))

\* pool_destroy visits every server.
Destroy ==
    /\ \A s \in Servers : ~server[s].destroyFlag
    /\ server' = [s \in Servers |-> DestroyOrFlag(server[s])]

Serve ==
    \E s \in Servers :
        \/ \E sr \in SubReqs : Fetch(sr, s)
        \/ \E sr \in SubReqs : Abandon(s, sr)
        \/ \E c \in Conns, ok \in BOOLEAN : Created(s, c, ok)
        \/ \E c \in Conns : LostIdle(s, c)
        \/ \E c \in Conns : LostInUse(s, c)
        \/ \E c \in Conns : Closed(s, c)
        \/ \E c \in Conns, err \in BOOLEAN : Release(s, c, err)
        \/ Monitor(s)

Next == Serve \/ Destroy

Spec == Init /\ [][Next]_vars

-----------------------------------------------------------------------------
(* Fairness.  The event loop delivers every callback and timer it has: the *)
(* plugin's answers, the monitor, and, because the request timeout bounds  *)
(* how long a sub-request may hold a connection, its release.  Only the    *)
(* strong fairness on successful connects is about the world: a server     *)
(* that is tried again and again is up sooner or later.                    *)

Fairness ==
    \A s \in Servers :
        /\ WF_vars(Monitor(s))
        /\ \A c \in Conns :
            /\ WF_vars(\E ok \in BOOLEAN : Created(s, c, ok))
            /\ SF_vars(Created(s, c, TRUE))
            /\ WF_vars(Closed(s, c))
            /\ WF_vars(\E err \in BOOLEAN : Release(s, c, err))

-----------------------------------------------------------------------------
(* Properties *)

\* Every slot is in exactly one place.  The slot is in the unconnect queue
\* exactly when it has no handle, in the connect queue exactly when its
\* connection is up and nobody uses it, never twice, and the in_use and
\* to_be_destroyed flags agree with what the plugin last reported
\* (_pool_on_connect_created, _pool_on_connect_destroyed,
\* pool_release_connect).
SlotsAccounted == \A s \in Servers : SlotInv(server[s])

\* No two sub-requests are ever given the same connection, no sub-request
\* holds two, and one that holds a connection is not still queued for another
\* (_pool_put_back_connect, _pool_fetch_connect_from_connectqueue).
ExclusiveUse ==
    /\ \A s \in Servers : UseInv(server[s])
    /\ \A s, t \in Servers :
        s # t => (Waiting(s) \cup Holding(s))
                   \cap (Waiting(t) \cup Holding(t)) = {}

\* m_connectCount, which the balancing and the monitor decide by, is the
\* number of connections that exist: established ones and those that wait for
\* their destroy callback.
ConnectCountExact == \A s \in Servers : CountInv(server[s])

\* A sub-request never waits while a connection of its server sits idle.
NoIdleWhileWaiting == \A s \in Servers : WaitInv(server[s])

\* A server is freed only when nothing refers to it any more: no queued
\* sub-request, none that holds a connection, no callback on its way.  The
\* comment in pool_destroy promises to wait for the pending requests.
GoneIsQuiet ==
    \A s \in Servers : server[s].gone =>
        /\ server[s].waitingQueue = << >>
        /\ \A c \in Conns : server[s].link[c] = "none"

\* Whoever waits for a connection gets one, whatever connections fail on the
\* way: errors leave the waiters in the queue and only the monitor and the
\* other users' releases serve them.
WaitersServed ==
    \A s \in Servers, sr \in SubReqs :
        sr \in Waiting(s) ~> sr \notin Waiting(s)

\* A pool that is told to go away does so (_router_on_destroy waits for it
\* to end the configuration switch).
DestroyCompletes ==
    \A s \in Servers : server[s].destroyFlag ~> server[s].gone
=============================================================================
