------------------------------ MODULE Request ------------------------------
(***************************************************************************)
(* The life of a client request (req.cpp) between the client connection    *)
(* it came in on (server.cpp, connection.cpp) and the connection pools it  *)
(* uses (Pool).  A request is split into one sub-request for each shard    *)
(* its keys fall into; a sub-request waits for a connection of the pool of *)
(* its shard, sends its part through the backend plugin and releases the   *)
(* connection when the plugin answers.  The request timer may end the      *)
(* whole request at any moment.                                            *)
(*                                                                         *)
(* A client connection processes one request at a time, so a request is    *)
(* named by its client and a sub-request is a pair <<client, pool>>; both  *)
(* names are used again by the client's next request.                      *)
(*                                                                         *)
(* The plugin is outside the repository.  Its contract, read off req.cpp:  *)
(* an accepted backend_call is answered once, from the event loop, through *)
(* req_on_shard_done; a refused one is never answered; backend_timeout     *)
(* calls req_on_shard_done with an error before it returns, and the call   *)
(* is then not answered again.                                             *)
(***************************************************************************)
EXTENDS Pool

CONSTANTS Clients,
          Pools,
          ServersOf      \* the servers of each pool; a pool may have none

ASSUME RequestAssumption ==
    /\ SubReqs = Clients \X Pools
    /\ IsFiniteSet(Pools)
    /\ ServersOf \in [Pools -> SUBSET Servers]
    /\ Servers = UNION {ServersOf[p] : p \in Pools}
    /\ \A p, q \in Pools : p # q => ServersOf[p] \cap ServersOf[q] = {}
    /\ None \notin Servers \cup (Servers \X Conns)

VARIABLES
    conn,       \* each client's connection: closed, or its is_processing
    hasError,   \* the clients whose connection has has_error set
    active,     \* the clients whose req_t exists
    shardCount, \* r->shard_count
    notDone,    \* the list r->sub_req_not_done, as the set of its shards
    sub,        \* the sub_req_t of each sub-request
    wire,       \* the sub-request the plugin will answer for a connection
    crashed     \* a null pointer was dereferenced

reqVars == << server, conn, hasError, active, shardCount, notDone, sub, wire,
              crashed >>

\* "freed" is memory that is not, or no longer, a sub_req_t.
SubType ==
    [state  : {"freed", "before", "pool", "backend"},
     node   : Servers \cup {None},              \* pool_waiting_node
     handle : (Servers \X Conns) \cup {None}]

Freed == [state |-> "freed", node |-> None, handle |-> None]

ReqTypeOK ==
    /\ TypeOK
    /\ conn \in [Clients -> {"closed", "reading", "processing"}]
    /\ hasError \subseteq Clients
    /\ active \subseteq Clients
    /\ shardCount \in [Clients -> 0 .. Cardinality(Pools)]
    /\ notDone \in [Clients -> SUBSET Pools]
    /\ sub \in [SubReqs -> SubType]
    /\ wire \in [Servers -> [Conns -> SubReqs \cup {None}]]
    /\ crashed \in BOOLEAN

ReqInit ==
    /\ Init
    /\ conn = [r \in Clients |-> "closed"]
    /\ hasError = {}
    /\ active = {}
    /\ shardCount = [r \in Clients |-> 0]
    /\ notDone = [r \in Clients |-> {}]
    /\ sub = [sr \in SubReqs |-> Freed]
    /\ wire = [s \in Servers |-> [c \in Conns |-> None]]
    /\ crashed = FALSE

SubsOf(r) == {r} \X Pools

Served(P) == {p \in P : ServersOf[p] # {}}

-----------------------------------------------------------------------------
(* Parts of the handlers *)

\* The connections that this step's server' hands over.
Acquired ==
    {h \in Servers \X Conns :
        server'[h[1]].holder[h[2]] \notin {None, server[h[1]].holder[h[2]]}}

\* req_on_acquired, called for every connection the step hands over.  subs
\* and calls are sub and wire as the rest of the handler leaves them.  A
\* refused backend_call ends there: the sub-request is in its last state, the
\* connection stays with it and nothing else is told.
ReqOnAcquired(subs, calls) ==
    \E refused \in SUBSET Acquired :
        /\ "call" \notin Faults => refused = {}
        /\ LET by(h) == server'[h[1]].holder[h[2]]
               got(sr) == {h \in Acquired : by(h) = sr}
           IN  /\ sub' = [sr \in SubReqs |->
                    IF got(sr) = {} THEN subs[sr]
                    ELSE LET h == CHOOSE h \in got(sr) : TRUE
                         IN  [subs[sr] EXCEPT
                                !.handle = h,
                                !.state = IF h \in refused THEN "backend"
                                          ELSE "pool"]]
               /\ wire' = [s \in Servers |-> [c \in Conns |->
                    IF <<s, c>> \in Acquired \ refused THEN by(<<s, c>>)
                    ELSE calls[s][c]]]

\* server_process_done: the connection reads the next request, unless an
\* error was noted while this one was processed.
ServerProcessDone(r) ==
    /\ conn' = [conn EXCEPT ![r] = IF r \in hasError THEN "closed"
                                   ELSE "reading"]
    /\ hasError' = hasError \ {r}

\* req_done and req_cleanup: the answer is written, the client connection is
\* handed back and everything allocated for the request is freed.
ReqDone(r) ==
    /\ ServerProcessDone(r)
    /\ active' = active \ {r}
    /\ shardCount' = [shardCount EXCEPT ![r] = 0]
    /\ notDone' = [notDone EXCEPT ![r] = {}]

\* What efree_all(r) leaves of sub, and of a server: a connection that a
\* sub-request of r still has is in use with nobody to release it.
FreeSubs(subs, r) ==
    [sr \in SubReqs |-> IF sr \in SubsOf(r) THEN Freed ELSE subs[sr]]

ForgetHolder(sv, r) ==
    [sv EXCEPT !.holder =
        [c \in Conns |-> IF @[c] \in SubsOf(r) THEN None ELSE @[c]]]

-----------------------------------------------------------------------------
(* The client side *)

\* accept_cb
Accept(r) ==
    /\ ~crashed
    /\ conn[r] = "closed"
    /\ conn' = [conn EXCEPT ![r] = "reading"]
    /\ UNCHANGED << server, hasError, active, shardCount, notDone, sub, wire,
                    crashed >>

\* Mutant of ClientError: the connection is freed in processing, too.
ClientError_Free(r) ==
    /\ ~crashed
    /\ conn[r] # "closed"
    /\ conn' = [conn EXCEPT ![r] = "closed"]
    /\ UNCHANGED << server, hasError, active, shardCount, notDone, sub, wire,
                    crashed >>

\* connection_event_cb with an error or EOF, and error_cb.  A connection that
\* is processing is only marked.
ClientError(r) ==
    /\ ~crashed
    /\ conn[r] # "closed"
    /\ IF conn[r] = "reading"
       THEN /\ conn' = [conn EXCEPT ![r] = "closed"]
            /\ UNCHANGED hasError
       ELSE /\ hasError' = hasError \cup {r}
            /\ UNCHANGED conn
    /\ UNCHANGED << server, active, shardCount, notDone, sub, wire, crashed >>

\* read_done_cb for a request that cannot be parsed or is not authorised:
\* req_process fails and req_ready ends the request through req_fail.
Reject(r) ==
    /\ ~crashed
    /\ conn[r] = "reading"
    /\ ReqDone(r)
    /\ UNCHANGED << server, sub, wire, crashed >>

\* read_done_cb for the provider __MONITOR__: the connection is answered but
\* never leaves processing.
Probe(r) ==
    /\ ~crashed
    /\ conn[r] = "reading"
    /\ conn' = [conn EXCEPT ![r] = "processing"]
    /\ UNCHANGED << server, hasError, active, shardCount, notDone, sub, wire,
                    crashed >>

\* read_done_cb, req_process and router_acquire_shards for a request whose
\* keys fall into the shards P.  req_on_getshards asks every pool for a
\* connection; a pool without servers refuses at once, which takes the shard
\* off shard_count but leaves its sub-request in the list.  If that ends the
\* request it is done before read_done_cb returns.
ReadDone(r, P, target) ==
    LET served == Served(P)
        asked(s) == {p \in served : target[p] = s}
    IN  /\ ~crashed
        /\ conn[r] = "reading"
        /\ \A p \in served : target[p] \in BalanceServer(server, ServersOf[p])
        /\ IF served = {}
           THEN /\ ReqDone(r)
                /\ UNCHANGED << server, sub, wire >>
           ELSE /\ server' = [s \in Servers |->
                     IF asked(s) = {} THEN server[s]
                     ELSE FetchConnect(server[s],
                                       <<r, CHOOSE p \in asked(s) : TRUE>>)]
                /\ conn' = [conn EXCEPT ![r] = "processing"]
                /\ active' = active \cup {r}
                /\ shardCount' = [shardCount EXCEPT ![r] = Cardinality(served)]
                /\ notDone' = [notDone EXCEPT ![r] = P]
                /\ UNCHANGED hasError
                /\ ReqOnAcquired(
                     [sr \in SubReqs |->
                       IF sr \in {r} \X P
                       THEN [state  |-> "before",
                             node   |-> IF /\ sr[2] \in served
                                           /\ sr \in Range(server'[target[sr[2]]]
                                                            .waitingQueue)
                                        THEN target[sr[2]] ELSE None,
                             handle |-> None]
                       ELSE sub[sr]],
                     wire)
        /\ UNCHANGED crashed

-----------------------------------------------------------------------------
(* The backend side *)

\* Mutants of LastShard: done one shard early; tested before the decrement.
LastShard_Early(r) == shardCount[r] <= 2

LastShard_BeforeDecrement(r) == shardCount[r] = 0

\* The decrement of shard_count that req_on_shard_done makes brings it to 0.
LastShard(r) == shardCount[r] = 1

\* req_on_shard_done, called by the plugin to answer a backend_call: the
\* connection is released, which may hand it to a waiting sub-request of
\* another client, and the last shard ends the request.
BackendReply(s, c, err) ==
    LET sr == wire[s][c]
        r == sr[1]
        last == LastShard(r)
        released == ReleaseConnect(server[s], c, err)
    IN  /\ ~crashed
        /\ sr # None
        /\ err => \/ server[s].link[c] = "lost"
                  \/ "use" \in Faults /\ MayDrift(server[s])
        /\ server' = [t \in Servers |->
             LET sv == IF t = s THEN released ELSE server[t]
             IN  IF last THEN ForgetHolder(sv, r) ELSE sv]
        /\ ReqOnAcquired(IF last THEN FreeSubs(sub, r)
                         ELSE [sub EXCEPT ![sr] = Freed],
                         [wire EXCEPT ![s][c] = None])
        /\ IF last
           THEN ReqDone(r)
           ELSE /\ notDone' = [notDone EXCEPT ![r] = @ \ {sr[2]}]
                /\ shardCount' = [shardCount EXCEPT ![r] = @ - 1]
                /\ UNCHANGED << conn, hasError, active >>
        /\ UNCHANGED crashed

\* Mutant of TimeoutCleanup: a waiting sub-request stays queued.
TimeoutCleanup_StayQueued(sv, s, sr) ==
    IF sub[sr].state = "pool" /\ sub[sr].handle[1] = s
    THEN ReleaseConnect(sv, sub[sr].handle[2], TRUE)
    ELSE sv

\* Mutant of TimeoutCleanup: a connection is not given up.
TimeoutCleanup_KeepConnection(sv, s, sr) ==
    IF sub[sr].state = "before" /\ sub[sr].node = s
    THEN WaitingQueueRm(sv, sr)
    ELSE sv

\* req_timeout_connect_cleanup for one sub-request, on server s: one that
\* waits leaves the queue, one that has a connection gives it up through
\* backend_timeout, one whose call was refused is only logged.
TimeoutCleanup(sv, s, sr) ==
    CASE sub[sr].state = "before" /\ sub[sr].node = s -> WaitingQueueRm(sv, sr)
      [] sub[sr].state = "pool" /\ sub[sr].handle[1] = s ->
            ReleaseConnect(sv, sub[sr].handle[2], TRUE)
      [] OTHER -> sv

\* req_timeout, when every waiting sub-request has a queue node.
ReqTimeout(r) ==
    LET listed(s) == {p \in notDone[r] : s \in ServersOf[p]}
        sent == {sub[<<r, p>>].handle :
                    p \in {q \in notDone[r] : sub[<<r, q>>].state = "pool"}}
    IN  /\ ~crashed
        /\ r \in active
        /\ \A p \in notDone[r] :
             sub[<<r, p>>].state = "before" => sub[<<r, p>>].node # None
        /\ \A h \in sent : \/ server[h[1]].link[h[2]] = "lost"
                           \/ MayDrift(server[h[1]])
        /\ server' = [s \in Servers |->
             ForgetHolder(
               IF listed(s) = {} THEN server[s]
               ELSE TimeoutCleanup(server[s], s,
                                   <<r, CHOOSE p \in listed(s) : TRUE>>), r)]
        /\ sub' = FreeSubs(sub, r)
        /\ wire' = [s \in Servers |-> [c \in Conns |->
             IF <<s, c>> \in sent THEN None ELSE wire[s][c]]]
        /\ ReqDone(r)
        /\ UNCHANGED crashed

\* req_timeout, when a sub-request was refused by a pool without servers: its
\* pool_waiting_node is NULL and req_timeout_connect_cleanup reads the server
\* through it.
ReqTimeoutNull(r) ==
    /\ ~crashed
    /\ r \in active
    /\ \E p \in notDone[r] :
         sub[<<r, p>>].state = "before" /\ sub[<<r, p>>].node = None
    /\ crashed' = TRUE
    /\ UNCHANGED << server, conn, hasError, active, shardCount, notDone, sub,
                    wire >>

\* The plugin's reports and the monitor timer, as in Pool; a connection that
\* comes up may be handed over.
PoolEvent ==
    /\ ~crashed
    /\ ReqOnAcquired(sub, wire)
    /\ UNCHANGED << conn, hasError, active, shardCount, notDone, crashed >>

ConnCreated(s, c, ok) == Created(s, c, ok) /\ PoolEvent

ConnLost(s, c) == (LostIdle(s, c) \/ LostInUse(s, c)) /\ PoolEvent

ConnClosed(s, c) == Closed(s, c) /\ PoolEvent

MonitorTimer(s) == Monitor(s) /\ PoolEvent

-----------------------------------------------------------------------------

ReqNext ==
    \/ \E r \in Clients :
        \/ Accept(r)
        \/ ClientError(r)
        \/ Reject(r)
        \/ Probe(r)
        \/ \E P \in (SUBSET Pools) \ {{}} :
             \E target \in [Served(P) -> Servers] : ReadDone(r, P, target)
        \/ ReqTimeout(r)
        \/ ReqTimeoutNull(r)
    \/ \E s \in Servers :
        \/ MonitorTimer(s)
        \/ \E c \in Conns :
            \/ \E ok \in BOOLEAN : ConnCreated(s, c, ok)
            \/ ConnLost(s, c)
            \/ ConnClosed(s, c)
            \/ \E err \in BOOLEAN : BackendReply(s, c, err)

ReqSpec == ReqInit /\ [][ReqNext]_reqVars

\* What the event loop and the plugin's contract guarantee (see Fairness in
\* Pool); the request timer is not among it.
ReqFairness ==
    \A s \in Servers :
        /\ WF_reqVars(MonitorTimer(s))
        /\ \A c \in Conns :
            /\ WF_reqVars(\E ok \in BOOLEAN : ConnCreated(s, c, ok))
            /\ SF_reqVars(ConnCreated(s, c, TRUE))
            /\ WF_reqVars(ConnClosed(s, c))
            /\ WF_reqVars(\E err \in BOOLEAN : BackendReply(s, c, err))

ReqLiveSpec == ReqSpec /\ ReqFairness

-----------------------------------------------------------------------------
(* Properties *)

\* When the plugin answers a call, the request and the sub-request whose
\* pointers it kept are still there, the sub-request is the one that was
\* given the connection, and it is still in its request's list, so that
\* req_on_shard_done unlinks, releases and counts the right one, even after
\* other requests timed out or the client went away; and every request has
\* its client connection, to which req_done writes.
ReplyFindsSubReq ==
    /\ \A r \in active : conn[r] = "processing"
    /\ \A s \in Servers, c \in Conns :
        LET sr == wire[s][c]
        IN  sr # None =>
              /\ sr[1] \in active
              /\ sr[2] \in notDone[sr[1]]
              /\ sub[sr].state = "pool" /\ sub[sr].handle = <<s, c>>
              /\ server[s].holder[c] = sr

\* The waiting queue of a server holds exactly the live sub-requests that
\* wait there: none that was freed with its request (the pool would call
\* req_on_acquired on it), and none that is forgotten, whose pool_waiting_node
\* would dangle when the request times out.
WaitersAlive ==
    \A s \in Servers :
        Waiting(s) = {sr \in SubReqs :
                        sub[sr].state = "before" /\ sub[sr].node = s}

\* shard_count is the number of shards still to come, and is not zero before
\* the request is done: no answer is sent while a shard is outstanding and
\* none is kept back when the last one is in (req_on_shard_done; the shards
\* that a pool without servers refused are already taken off).
ShardsAccounted ==
    /\ ReqTypeOK
    /\ \A r \in active :
        /\ shardCount[r] = Cardinality({p \in notDone[r] :
             ~ (sub[<<r, p>>].state = "before" /\ sub[<<r, p>>].node = None)})
        /\ shardCount[r] > 0
        /\ \A p \in Pools :
             sub[<<r, p>>].state # "freed" <=> p \in notDone[r]

\* The client connections live as Server shows that they do, and as req_done
\* relies on when it writes to them.
Life == INSTANCE ConnLife WITH phase <- conn, failed <- hasError

ImplementsConnLife == Life!CLSpec

\* A connection in use belongs to a live sub-request: req_done leaves none
\* behind that nobody will release.
NoLeak ==
    \A s \in Servers : \A c \in server[s].inUse :
        /\ server[s].holder[c] # None
        /\ sub[server[s].holder[c]].state # "freed"

\* Requests use every pool as Pool assumes its users do: a sub-request asks
\* once, releases only a connection that it holds, and leaves the queue only
\* if it is in it.
PoolOf(p) == INSTANCE Pool WITH
            Servers <- ServersOf[p],
            server <- [s \in ServersOf[p] |-> server[s]]

KeepsPoolContract ==
    [][\A p \in Served(Pools) :
            UNCHANGED PoolOf(p)!vars \/ PoolOf(p)!Serve]_server

\* Every request is answered without help from its timer, whatever connects
\* and connections fail and whatever other requests do.
RequestCompletes == \A r \in Clients : r \in active ~> r \notin active

\* A request with a shard that no server serves is answered with the error
\* "cannot fetch connection"; it does not take the proxy down.
RefusedShardSurvives == ~crashed
=============================================================================
