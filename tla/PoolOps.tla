------------------------------- MODULE PoolOps -------------------------------
(***************************************************************************)
(* The connection pool of one backend server (server_info_t of pool.h) and *)
(* the functions of pool.cpp that change it, one operator per function.    *)
(* An operator takes the server's record before the call and returns the   *)
(* record after it.                                                        *)
(*                                                                         *)
(* Fields that are fields of the C structures:                             *)
(*   connectQueue, unconnectQueue, waitingQueue   the three linked lists   *)
(*   connectCount, freeConnectCount               m_connectCount,          *)
(*                                                m_freeConnectCount       *)
(*   destroyFlag                                  m_destroyFlag            *)
(*   inUse, toBeDestroyed    the connections whose flag of that name is on *)
(* m_unconnectCount and m_waitingCount are written only where their list   *)
(* is, so they are Len(unconnectQueue) and Len(waitingQueue) here.         *)
(*                                                                         *)
(* Fields that record what other parts know:                               *)
(*   link     what the backend plugin is doing with the connection:        *)
(*            "none" (no handle), "connecting", "up", "lost" (the plugin   *)
(*            reported its destruction while a sub-request was using it)   *)
(*            and "closing" (m_destroyCb called, callback not yet)         *)
(*   holder   the sub-request whose sr->handle is this connection          *)
(*   gone     _pool_server_destroyed has freed the structure               *)
(***************************************************************************)
EXTENDS Integers, Sequences, FiniteSets, Functions

CONSTANTS ConnectPerServer,   \* m_connectPerServer
          SubReqs,            \* the sub-requests that may ask for a connection
          None                \* no sub-request

ASSUME PoolAssumption ==
    /\ ConnectPerServer \in Nat \ {0}
    /\ None \notin SubReqs

Conns == 0 .. ConnectPerServer - 1

Links == {"none", "connecting", "up", "lost", "closing"}

\* m_lowConnectPerServer: a tenth of the connections, at least one.
LowConnectPerServer ==
    IF ConnectPerServer \div 10 > 0 THEN ConnectPerServer \div 10 ELSE 1

ServerType ==
    [connectQueue     : Seq(Conns),
     unconnectQueue   : Seq(Conns),
     waitingQueue     : Seq(SubReqs),
     connectCount     : Int,
     freeConnectCount : Int,
     destroyFlag      : BOOLEAN,
     gone             : BOOLEAN,
     inUse            : SUBSET Conns,
     toBeDestroyed    : SUBSET Conns,
     link             : [Conns -> Links],
     holder           : [Conns -> SubReqs \cup {None}]]

-----------------------------------------------------------------------------
(* Queue helpers *)

\* The list q with the node x unlinked; q itself if x is not linked into it.
Unlink(q, x) ==
    IF \E i \in DOMAIN q : q[i] = x
    THEN LET k == CHOOSE i \in DOMAIN q : q[i] = x
         IN  [j \in 1 .. Len(q) - 1 |-> IF j < k THEN q[j] ELSE q[j + 1]]
    ELSE q

\* _pool_connect_queue_get
ConnectQueueGet(sv) ==
    [sv EXCEPT !.connectQueue = Tail(@), !.freeConnectCount = @ - 1]

\* _pool_connect_queue_put
ConnectQueuePut(sv, c) ==
    [sv EXCEPT !.connectQueue = Append(@, c), !.freeConnectCount = @ + 1]

\* _pool_connect_queue_rm: the count goes down whether or not the node is in
\* the queue.
ConnectQueueRm(sv, c) ==
    [sv EXCEPT !.connectQueue = Unlink(@, c), !.freeConnectCount = @ - 1]

\* _pool_unconnect_queue_get, when the queue is not empty.
UnconnectQueueGet(sv) ==
    [sv EXCEPT !.unconnectQueue = Tail(@)]

\* _pool_unconnect_queue_put
UnconnectQueuePut(sv, c) ==
    [sv EXCEPT !.unconnectQueue = Append(@, c)]

\* _pool_waiting_queue_get, when the queue is not empty.
WaitingQueueGet(sv) ==
    [sv EXCEPT !.waitingQueue = Tail(@)]

\* _pool_add_req_into_waitingqueue and _pool_waiting_queue_put
WaitingQueuePut(sv, sr) ==
    [sv EXCEPT !.waitingQueue = Append(@, sr)]

\* Mutant of InitServer: the slots are numbered from 1.
InitServer_FromOne ==
    [connectQueue     |-> << >>,
     unconnectQueue   |-> [i \in 1 .. ConnectPerServer |-> i],
     waitingQueue     |-> << >>,
     connectCount     |-> 0,
     freeConnectCount |-> 0,
     destroyFlag      |-> FALSE,
     gone             |-> FALSE,
     inUse            |-> {},
     toBeDestroyed    |-> {},
     link             |-> [c \in Conns |-> "none"],
     holder           |-> [c \in Conns |-> None]]

\* pool_build: every slot starts unconnected, in index order.
InitServer ==
    [connectQueue     |-> << >>,
     unconnectQueue   |-> [i \in 1 .. ConnectPerServer |-> i - 1],
     waitingQueue     |-> << >>,
     connectCount     |-> 0,
     freeConnectCount |-> 0,
     destroyFlag      |-> FALSE,
     gone             |-> FALSE,
     inUse            |-> {},
     toBeDestroyed    |-> {},
     link             |-> [c \in Conns |-> "none"],
     holder           |-> [c \in Conns |-> None]]

-----------------------------------------------------------------------------
(* Creating and handing out connections *)

\* _pool_create_new_connect: the first unconnected slot gets a handle and the
\* plugin starts to connect it; nothing happens when there is no such slot.
CreateNewConnect(sv) ==
    IF sv.unconnectQueue = << >>
    THEN sv
    ELSE [UnconnectQueueGet(sv) EXCEPT
            !.link[Head(sv.unconnectQueue)] = "connecting"]

\* Mutant of ConnectMonitor: the threshold is off by one.
ConnectMonitor_OffByOne(sv) ==
    IF sv.connectCount < LowConnectPerServer - 1
    THEN CreateNewConnect(sv) ELSE sv

\* _server_connect_monitor, the one-second timer of a server.
ConnectMonitor(sv) ==
    IF sv.connectCount < LowConnectPerServer THEN CreateNewConnect(sv) ELSE sv

\* ci->in_use = true; cb(ci->handle, sub_req): req_on_acquired stores the
\* handle in the sub-request.
HandOver(sv, c, sr) ==
    [sv EXCEPT !.inUse = @ \cup {c}, !.holder[c] = sr]

\* _pool_get_balance_server: the servers of S it may pick.  The strategy
\* object chooses among the servers that are neither empty nor full, and when
\* it reports an error the fallback may name any server, because the key it
\* is computed from is never set.  Without such a server the first one from a
\* random position on that has a connection is taken, and without any, the
\* one at the random position.
BalanceServer(servers, S) ==
    LET available == {s \in S :
                        servers[s].connectCount \notin {0, ConnectPerServer}}
        connected == {s \in S : servers[s].connectCount # 0}
    IN  IF available = {} /\ connected # {} THEN connected ELSE S

\* Mutant of FetchConnect: a full server queues the sub-request without a
\* look at the idle connections.
FetchConnect_FullFirst(sv, sr) ==
    IF sv.connectCount < ConnectPerServer /\ sv.connectQueue # << >>
    THEN HandOver(ConnectQueueGet(sv), Head(sv.connectQueue), sr)
    ELSE LET created == IF sv.connectCount < ConnectPerServer
                        THEN CreateNewConnect(sv) ELSE sv
         IN  WaitingQueuePut(created, sr)

\* Mutant of FetchConnect: the newest sub-request is served first.
FetchConnect_LastFirst(sv, sr) ==
    IF sv.connectQueue # << >>
    THEN HandOver(ConnectQueueGet(sv), Head(sv.connectQueue), sr)
    ELSE LET created == IF sv.connectCount < ConnectPerServer
                        THEN CreateNewConnect(sv) ELSE sv
         IN  [created EXCEPT !.waitingQueue = << sr >> \o @]

\* pool_fetch_connect once a server is chosen: an idle connection is handed
\* over at once, otherwise the sub-request is queued.
FetchConnect(sv, sr) ==
    IF sv.connectQueue # << >>
    THEN HandOver(ConnectQueueGet(sv), Head(sv.connectQueue), sr)
    ELSE LET created == IF sv.connectCount < ConnectPerServer
                        THEN CreateNewConnect(sv) ELSE sv
         IN  WaitingQueuePut(created, sr)

-----------------------------------------------------------------------------
(* Destroying a server's pool *)

\* _pool_server_destroyed
ServerDestroyed(sv) == [sv EXCEPT !.gone = TRUE]

\* _pool_server_destroy: drains the connect queue into m_destroyCb, or frees
\* the server when the queue is empty.
ServerDestroy(sv) ==
    IF sv.connectQueue = << >>
    THEN ServerDestroyed(sv)
    ELSE [sv EXCEPT
            !.connectQueue = << >>,
            !.freeConnectCount = @ - Len(sv.connectQueue),
            !.link = [c \in Conns |-> IF c \in Range(sv.connectQueue)
                                      THEN "closing" ELSE @[c]]]

\* The test the code repeats to see that no connection is in service.
AllParked(sv) ==
    sv.freeConnectCount + Len(sv.unconnectQueue) = ConnectPerServer

\* Mutant of DestroyOrFlag: connections that are being set up are forgotten.
DestroyOrFlag_NotParked(sv) ==
    LET flagged == [sv EXCEPT !.destroyFlag = TRUE]
    IN  IF /\ sv.connectCount = sv.freeConnectCount
           /\ sv.waitingQueue = << >>
        THEN ServerDestroy(flagged)
        ELSE flagged

\* pool_destroy for one server.
DestroyOrFlag(sv) ==
    LET flagged == [sv EXCEPT !.destroyFlag = TRUE]
    IN  IF /\ sv.connectCount = sv.freeConnectCount
           /\ AllParked(sv)
           /\ sv.waitingQueue = << >>
        THEN ServerDestroy(flagged)
        ELSE flagged

\* _pool_waiting_queue_rm: a sub-request that timed out leaves the queue.
WaitingQueueRm(sv, sr) ==
    LET removed == [sv EXCEPT !.waitingQueue = Unlink(@, sr)]
    IN  IF /\ removed.destroyFlag
           /\ removed.waitingQueue = << >>
           /\ AllParked(removed)
        THEN ServerDestroy(removed)
        ELSE removed

-----------------------------------------------------------------------------
(* Connections coming back *)

\* Mutant of PutBackConnect: the waiter is served but stays in the queue.
PutBackConnect_KeepWaiter(sv, c) ==
    IF sv.waitingQueue # << >>
    THEN HandOver(sv, c, Head(sv.waitingQueue))
    ELSE LET parked == ConnectQueuePut(sv, c)
         IN  IF parked.destroyFlag /\ AllParked(parked)
             THEN ServerDestroy(parked)
             ELSE parked

\* Mutant of PutBackConnect: nothing continues a pending destruction.
PutBackConnect_NoDestroy(sv, c) ==
    IF sv.waitingQueue # << >>
    THEN HandOver(WaitingQueueGet(sv), c, Head(sv.waitingQueue))
    ELSE ConnectQueuePut(sv, c)

\* Mutant of PutBackConnect: the connection is parked whoever waits.
PutBackConnect_Park(sv, c) ==
    LET parked == ConnectQueuePut(sv, c)
    IN  IF parked.destroyFlag /\ AllParked(parked)
        THEN ServerDestroy(parked)
        ELSE parked

\* _pool_put_back_connect: the head of the waiting queue takes the
\* connection; without a waiter it is parked in the connect queue.
PutBackConnect(sv, c) ==
    IF sv.waitingQueue # << >>
    THEN HandOver(WaitingQueueGet(sv), c, Head(sv.waitingQueue))
    ELSE LET parked == ConnectQueuePut(sv, c)
         IN  IF parked.destroyFlag /\ AllParked(parked)
             THEN ServerDestroy(parked)
             ELSE parked

\* Mutant of OnConnectCreated: a failed connection is counted too.
OnConnectCreated_CountFailed(sv, c, ok) ==
    LET reset == [sv EXCEPT !.inUse = @ \ {c}, !.toBeDestroyed = @ \ {c},
                            !.connectCount = @ + 1]
        failed == UnconnectQueuePut([reset EXCEPT !.link[c] = "none"], c)
    IN  IF ok
        THEN PutBackConnect([reset EXCEPT !.link[c] = "up"], c)
        ELSE IF failed.destroyFlag /\ AllParked(failed)
             THEN ServerDestroy(failed)
             ELSE failed

\* _pool_on_connect_created: the flags are reset first; a success counts the
\* connection and puts it back, a failure frees the handle and the slot.
OnConnectCreated(sv, c, ok) ==
    LET reset == [sv EXCEPT !.inUse = @ \ {c}, !.toBeDestroyed = @ \ {c}]
        failed == UnconnectQueuePut([reset EXCEPT !.link[c] = "none"], c)
    IN  IF ok
        THEN PutBackConnect([reset EXCEPT !.link[c] = "up",
                                          !.connectCount = @ + 1], c)
        ELSE IF failed.destroyFlag /\ AllParked(failed)
             THEN ServerDestroy(failed)
             ELSE failed

\* Mutant of OnConnectDestroyed: an idle connection stays in the connect
\* queue after it is gone.
OnConnectDestroyed_StayQueued(sv, c) ==
    IF c \in sv.inUse /\ c \notin sv.toBeDestroyed
    THEN [sv EXCEPT !.toBeDestroyed = @ \cup {c}, !.link[c] = "lost"]
    ELSE LET freed == [UnconnectQueuePut(sv, c) EXCEPT
                         !.link[c] = "none", !.connectCount = @ - 1]
         IN  IF freed.destroyFlag /\ freed.connectCount = 0
             THEN ServerDestroyed(freed)
             ELSE freed

\* _pool_on_connect_destroyed: a connection in use is only marked; any other
\* one frees its handle and its slot.
OnConnectDestroyed(sv, c) ==
    IF c \in sv.inUse /\ c \notin sv.toBeDestroyed
    THEN [sv EXCEPT !.toBeDestroyed = @ \cup {c}, !.link[c] = "lost"]
    ELSE LET out == IF c \notin sv.inUse THEN ConnectQueueRm(sv, c) ELSE sv
             freed == [UnconnectQueuePut(out, c) EXCEPT
                         !.link[c] = "none", !.connectCount = @ - 1]
         IN  IF freed.destroyFlag /\ freed.connectCount = 0
             THEN ServerDestroyed(freed)
             ELSE freed

\* pool_release_connect: a healthy connection is put back, one that failed
\* or was lost meanwhile is given to m_destroyCb.
ReleaseConnect(sv, c, err) ==
    LET released == [sv EXCEPT !.inUse = @ \ {c}, !.holder[c] = None]
    IN  IF ~err /\ c \notin sv.toBeDestroyed
        THEN PutBackConnect(released, c)
        ELSE [released EXCEPT !.link[c] = "closing"]

-----------------------------------------------------------------------------
(* What the functions above keep true of a server *)

\* Slots, queues, flags and plugin state agree.
SlotInv(sv) ==
    /\ IsInjective(sv.connectQueue)
    /\ IsInjective(sv.unconnectQueue)
    /\ \A c \in Conns :
        /\ c \in Range(sv.unconnectQueue) <=> sv.link[c] = "none"
        /\ c \in Range(sv.connectQueue) <=> sv.link[c] = "up" /\ c \notin sv.inUse
        /\ c \in sv.inUse => sv.link[c] \in {"up", "lost"}
        /\ sv.link[c] = "up" => c \notin sv.toBeDestroyed
        /\ sv.link[c] = "lost" => c \in sv.inUse /\ c \in sv.toBeDestroyed

\* A connection in use has one holder, a holder has one connection and does
\* not wait, and nobody waits twice.
UseInv(sv) ==
    /\ IsInjective(sv.waitingQueue)
    /\ \A c \in Conns :
        /\ c \in sv.inUse <=> sv.holder[c] # None
        /\ sv.holder[c] \notin Range(sv.waitingQueue)
        /\ \A d \in Conns :
            sv.holder[c] = sv.holder[d] /\ sv.holder[c] # None => c = d

\* The connections that exist: established, or waiting for the callback that
\* ends them.
Established(sv) == {c \in Conns : sv.link[c] \in {"up", "lost", "closing"}}

CountInv(sv) == sv.connectCount = Cardinality(Established(sv))

WaitInv(sv) == sv.waitingQueue # << >> => sv.connectQueue = << >>
=============================================================================
