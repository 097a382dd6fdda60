# Verification of redisAgent

redisAgent is a proxy between clients that speak the nshead protocol and
backend servers (redis) that a plugin talks to. A client request names keys;
the router maps each key to a shard; for each shard the request needs one
connection from the pool of that shard's servers. Everything but two helper
threads (whitelist check, log writer) runs on one libevent loop, so every
callback is atomic and the difficulty lies in the order in which callbacks
come: answers, timeouts, connects, disconnects, a client that leaves.

This directory holds TLA+ models of that behaviour, TLC configurations that
check them on small instances, and proofs checked by TLAPS. `PROJECT.json`
lists the runs, the source lines each definition stands for, the hazards the
properties are aimed at, and what was found.

## The system and its parts

| Part | State | Operations | Interacts with |
|---|---|---|---|
| pool (`pool.cpp`) | per server: connect, unconnect and waiting queue, four counters, destroy flag; per connection: `in_use`, `to_be_destroyed`, handle | fetch, release, connect and destroy callbacks, monitor timer, destroy | the plugin (create/destroy callbacks), requests (`req_on_acquired`), strategy object, router (destroy callback) |
| request (`req.cpp`) | `req_t` with `shard_count`, the list `sub_req_not_done`, timer; `sub_req_t` with state, handle, queue node | ready, shard lookup, acquired, shard done, timeout, done | pool, router, plugin, client connection |
| server and connection (`server.cpp`, `connection.cpp`) | listening event and its timer; per connection `is_processing`, `has_error`, read state, buffer, watermarks | accept, back-off, read, error, process done | request, event loop, whitelist |
| router (`router.cpp`) | two sides of shard map and pool table, `router_switching` | build, destroy, acquire shards | meta, pool, request |
| meta (`meta.cpp`) | configuration, authorisation table | load, reload, check | router, request |
| event (`event.cpp`) | timers, list of custom events | produce, consume, timers | everything |
| whitelist (`ip_whitelist.cpp`) | current set of addresses | reload thread, lookup | event, server |
| log (`log.cpp`) | two ring buffers and their offsets | write, drain thread | everything |
| request memory (`mem.cpp`) | list of blocks of a request | allocate, free, free all | request |

What is hard here: a connection can break while it is idle, in use, or being
closed; a sub-request can time out while it waits, while its call is out, or
while its connection is breaking; a connection that comes back is handed to
the next waiter inside the release of another request; a pool can be destroyed
while all of this is going on; one of several shards can fail on its own; the
client can leave at any time; the pool keeps its counters separately from its
queues; old pools live on while a new configuration serves; and three threads
share a list, a pointer and two ring buffers, the latter without a lock.

What makes the parts correct:

* pool: every slot is in one place, nobody shares a connection, counters are
  what they count, waiters are served in order and in the end, destruction
  waits and then happens;
* request: every answer finds its sub-request, every wait and every connection
  is given up when the request ends, the count of shards is right, the request
  ends;
* connection: frames stay whole however their bytes arrive, it lives as long as
  its request, is read again afterwards, and is freed when the client is gone;
* server: goes on accepting after the descriptors were used up;
* router, meta: every key has a shard and a request is split into one part
  per shard; a reload switches completely or not at all, and the last good
  configuration is the one in force;
* event list, whitelist, log: nothing lost, nothing read after it was freed.

## Modules

Each module translates one or two source files; `EXTENDS` and `INSTANCE` are
the arrows.

    ConnPool <- PoolRefinement -> Pool -> PoolOps      MCPool, PoolProofs
    Request -> Pool;  INSTANCE Pool, ConnLife          MCRequest, RequestProofs
    Server -> Connection;  INSTANCE ConnLife           MCServer, ServerProofs
    Shards -> QuickSort                                ShardsProofs
    Meta -> Router                                     MCMeta, MetaProofs
    Whitelist -> EventList;  INSTANCE EventQueue       MCWhitelist, WhitelistProofs
    LogRing                                            MCLogRing, LogRingProofs

**Pool.** `PoolOps` holds one operator for each function of `pool.cpp` that
changes a server. A server is a record: the three linked lists as sequences,
the counters `connectCount` and `freeConnectCount` as the code keeps them (they
are *not* derived from the queues), the flags of the connections as sets, and
three ghost fields: `link` (what the plugin is doing with a connection),
`holder` (the sub-request whose handle it is) and `gone` (the structure is
freed). `m_unconnectCount` and `m_waitingCount` are changed only together with
their list and are its length. Re-entrant calls, such as the hand-over to a
waiter inside a release, are part of the operator, as they are part of the
call. `Pool` is one pool with its servers: an action for each callback and each
call from outside. The plugin is not in the repository. It is modelled by the
contract the pool relies on: one connect callback for each `m_createCb`, one
destroy callback for each `m_destroyCb`, both from the loop, and one for a
connection that breaks by itself. `BalanceServer` offers every server that
`_pool_get_balance_server` might return. `ConnPool` is the abstract pool: a
line of waiters, a queue of idle connections and an owner for each connection
in use; `PoolRefinement` maps a server to it. It says what a caller may rely
on: connections are handed out first come first served, only idle or returning
connections are handed out, and nobody leaves the line except by being served
or by giving up.

**Request.** `Request` composes `Pool` with `req.cpp` and what decides how long
a client connection lives. A client has one request at a time, so a request is
named by its client and a sub-request by client and shard. `sub` is the
`sub_req_t`, `notDone` the list `sub_req_not_done`, `shardCount` the counter;
`wire` is what the plugin remembers of an accepted `backend_call`.
`ReqOnAcquired` is `req_on_acquired` for whatever connection the step hands
over, whichever function of the pool did it. `ReqTimeoutNull` is the path on
which `req_timeout_connect_cleanup` reads through a null pointer; it sets
`crashed`, after which nothing happens.

| Code | Model |
|---|---|
| `read_done_cb`, `req_ready`, `req_process`, `router_acquire_shards`, `req_on_getshards` | `ReadDone`, `Reject`, `Probe` |
| `req_on_acquired` | `ReqOnAcquired` |
| `req_on_shard_done` | `BackendReply`, `LastShard` |
| `req_timeout`, `req_timeout_connect_cleanup` | `ReqTimeout`, `ReqTimeoutNull`, `TimeoutCleanup` |
| `req_done`, `req_cleanup`, `server_process_done` | `ReqDone`, `FreeSubs`, `ForgetHolder`, `ServerProcessDone` |
| `accept_cb`, `error_cb` | `Accept`, `ClientError` |

`notDone` holds a sub-request until its shard is done: the comment at
`req.cpp:44` says that it leaves the list when it is sent, but that line is
commented out (`req.cpp:243`), and `req_timeout_connect_cleanup` relies on its
being there.

**Shards.** `Shards` is `router_acquire_shards`: the sort, then the loop that
cuts the sorted keys into groups and calls `req_on_getshards` for each, with
the running correction of `shard_count` (the line marked "fix core"). A
callback for a pool without servers counts the shard down before it returns and
may end the request, so the loop is modelled iteration by iteration.
`QuickSort` is `_quicksort`, step by step with the recursion as a stack.
`Request` takes their result as given.

**Client side.** `Connection` is `nshead_conn_t` on its bufferevent, as
operators on a record: the states of `nshead_conn_read`, the watermarks, the
buffer that only grows, and of the bufferevent the input buffer, whether it is
read, and the deferred callbacks that are due. A byte says where it belongs
(request, position, the lengths its head announces), so that a byte that ends
up in the wrong frame is seen. `Server` adds `server.cpp`: accepting with the
back-off at the descriptor limit, the callbacks, and the end of a request, and
the clients, which send and close as they like. What happens to a request in
between is the subject of `Request`. `ConnLife` is what both promise of a
connection: it takes one request at a time and is never freed under it; an
error is noted and acted on at the end. `Request` and `Server` are each shown
to implement it, which is how the two views of one connection are kept
together.

| Code | Model |
|---|---|
| `nshead_conn_read`, `nshead_conn_set_expected_input_len` | `NsheadConnRead`, `ReadHead`, `ReadBody`, `ReadFails`, `SetExpectedInputLen` |
| `connection_read_cb`, `connection_event_cb`, `read_done_cb` | `Deferred`, `ReadOutcomes` |
| `accept_cb`, `enable_accept` | `AcceptCb`, `AcceptLimit`, `AcceptRefused`, `EnableAccept` |
| `error_cb`, `server_process_done`, `req_done` | `ErrorCb`, `ServerProcessDone`, `ProcessDone` |

**Configuration.** `Router` holds the two sides of `router.cpp` as one record
with an operator for each function; a pool is here the services it was built
from and whether it was told to go. `Meta` is the reload: the modification time
is taken (`Stat`), the file may change (`Edit`), the rest of
`_meta_conf_reload` runs to one of its ends (`BadFile`, `WrongDbs`, `BadDb`,
`BuildRouter`), and old pools go one by one (`PoolGone`). `meta_init` is the
same with the end of the program on failure. The timer that calls the reload is
commented out in `meta_init` (`meta.cpp:40-51`); `Meta` is the proxy with it,
and its states before the first `Edit` are the proxy as committed. Modification
times are whole seconds in `Meta` and in `Whitelist`: a change comes in the
second of the last one, and then the time stays as it is, or in a later one.
What the file contained in that second is kept beside it (`recent`, `first`)
for the properties alone.

**Threads.** `EventList` is the list of custom events, each store of a producer
and each node taken by the loop a step, on a machine that keeps stores in order
(x86-64, and the makefile asks for no optimisation). `EventQueue` is what it
promises. `Whitelist` composes the list with the checking thread and the
handler that frees the list before; the two static pointers of the same name
(`ip_whitelist.cpp:39`, and the one of `server.cpp`) are `static` and `global`.
`LogRing` is `log_printf` and `log_thread_loop` for the two ring buffers, each
access to an offset that the other thread may see a step of its own. A byte is
its number in the stream of what was logged.

Definitions whose name has the form `X_Y` are mutants: the definition `X` with
the bug `Y`, used to see that a property notices.

Every module has one type invariant. Where it says more than the types (a
pointer to a list that exists, an offset inside a ring), it is the first part
of the safety invariant that relies on it: `ShardsAccounted`, `FrameIntact`,
`ListInUseNotFreed`, `NoPoolForgotten`, `UnreadIntact`.

## Runs

Passing:

* `pool`: two servers, two connections each, two sub-requests. A variable
  `world` of `MCPool` picks what the pool lives through: every fault and no
  `pool_destroy`, or `pool_destroy` and no faults. In both, slots, flags and
  counters are right, no connection is shared, the pool implements `ConnPool`,
  and nobody waits for ever; a pool that is destroyed goes in the end and not
  before everybody is done.
* `request_safety`: two clients and three shards, one without servers, with
  every fault and refused calls. One connection for each server makes the
  second client wait. Answers, hand-overs and the end of a request find what
  they refer to.
* `request_live`: two shards, every fault but refused calls. Requests keep to
  what `Pool` assumes of its users (the guards of its actions), leave no
  connection in use behind, and every one is answered without its timer.
* `shards`: requests of up to six keys in three shards, any subset of which
  has no servers: sorted, one callback per shard, the right count, no end
  before the loop's end, and the loop ends. Six keys allow every pattern of
  runs of equal shards.
* `server`: one client that waits for its answers and one that pipelines and
  sends probes compete for one descriptor; heads are two bytes long, bodies
  empty or of two bytes, and every portion of the bytes may arrive at once.
  A variable `world` of `MCServer` picks whether the two share the server, with
  three requests on a connection each, or the second is alone with four. An empty
  body behind one of two bytes is read into a buffer that is larger, along with
  the frame behind it, which is lost; the client then gets the answers 1, 2 and
  4, or the connection ends at a head without the magic number. Four requests
  are the fewest for such a gap.
* `whitelist`: the file changes three times at any moment of the thread's
  loop, in the same second or in later ones, and may be away while the thread sleeps; a second producer makes the
  lock and the activation matter.
* `meta`: thirteen configurations with one or two partitions of three keys:
  valid ones that differ in routes, services and users; gaps, overlaps, words
  that are wrong before or after the last key, a partition without readable
  services, a strange mode, two databases, unreadable parts, a service of a
  partition that is not there. Four changes, any of which may fall into the
  second of the one before, let a refused file and a switch
  under way precede a good one.
* `log`: both rings, of three bytes, lines of up to two, seven bytes in each:
  a line is cut, the ring is full, and both offsets wrap twice.

Violations, each of them a disagreement between the code and what a comment,
a message or a documented error says (`findings` in `PROJECT.json`):

* `refused`: a refused `backend_call` leaks its connection;
* `unserved`: a shard without servers and a timeout dereference a null
  pointer;
* `whitelist_freed`: a whitelist file that is away when it is to be loaded
  makes the event loop free the list in use;
* `log_torn`: the log thread sees an offset that is not reduced yet, or a
  different one on its second look, and the file gets other bytes than were
  logged.

Three more things about `pool_destroy` were seen while modelling it and have no
run, because the program as committed does not call it: a connect that fails
after `pool_destroy` frees the server under its waiters (`pool.cpp:513`); the
last connection that is closed or breaks after it frees the server although
another connect is still to be answered, because only `m_connectCount` is looked
at (`pool.cpp:418`); and a connection that failed in use leaves
`m_freeConnectCount` one too low, after which the pool is never destroyed
(`pool.cpp:169`). This is why the faults and the destruction are two worlds of
the run `pool`. What is proved of `Pool` holds with both together, but for
`GoneIsQuiet`, which is proved where no connection fails or is given back with
an error (a timeout does that), and which each of `"connect"`, `"idle"` and
`"use"` alone refutes.

### What the properties leave out

Some properties are stated for less than one would like, because the code does
less; each of the exceptions is named in the property.

* `FrameIntact` (but for its part on memory that was never written),
  `RequestAnswered`, `ClosedIsFreed`: for clients that wait for
  an answer before they send again and send no `__MONITOR__` probe. A client
  that pipelines may lose bytes to the buffer or wait for ever
  (`connection.cpp:96`, `189`), and a probe leaves its connection in processing
  (`server.cpp:235`). `AnswersInOrder` and `ImplementsConnLife` hold for
  all.
* `LastFileTakesEffect`: unless the router hangs, after an
  unsupported mode (`router.cpp:81`) or with an old pool that had no servers,
  which never calls back (`router.cpp:133`).
  Both files' times are compared as whole seconds (`meta.cpp:180`,
  `ip_whitelist.cpp:112`), so a change in a second that was already taken is
  never loaded, also when it came after the file was read and before the load
  was over. `LastFileTakesEffect` and `LatestInForce` therefore say that what is
  in force is something the file contained in the second of its last change:
  the file itself where it did not change twice in that second. In
  `LastFileTakesEffect` a configuration of that second that was read and refused
  counts as taken, too.
* `AuthFindsUser`: about the table of names. A database that is refused takes
  the place of the users the table leads to (`meta.cpp:208`), after which a
  lookup follows an index into users that are gone, until a file is accepted.
  The program as committed loads one database and does not get there.
* `LatestInForce`: unless there was no file at the start, which is never
  looked for again.
* `UnreadIntact`, `LogDrained`: as long as the file is clean. After the thread
  has gone past the last byte logged, as `log_torn` shows it can, it takes bytes
  that are put there later for old ones, and a ring may look empty while lines
  wait in it.
* `NoLeak`, `KeepsPoolContract`, `RequestCompletes`: without refused calls.

### Bounds

The numbers of servers, connections, clients, shards, keys, partitions and
bytes are parameters of the modules; the values are the smallest at which the
interesting cases meet (a sub-request waits while another holds a connection
and a third breaks; a frame arrives in portions behind a larger one; a reload
comes during a switch; a ring is full and wraps). Bounds that are not in the
code:

* `MaxDrift`: each connection that fails in use makes `m_freeConnectCount` one
  smaller than its queue, without limit; the model stops such failures after
  `MaxDrift` of them (the guard `MayDrift`). Apart from destruction nothing
  reads the count.
* `MaxKeys`, `MaxRequests` (for each connection), `MaxEvents`, `MaxOther`,
  `MaxChanges`, `MaxBytes`: lengths of a run. A client that reconnects starts
  again, so `Server` has infinite behaviours.
* `HighFactor` is 10 in the code and 2 in the run, where `HeadLen`, which stands
  for `sizeof(nshead_t)`, is 2. With 2 the input buffer may hold a whole frame
  behind the head or body that is read, which is what it takes to lose one, and
  reading still stops at the watermark often.
* `ModKey` is 65536 in the code and 3 here, `Size` 16 MB and 3 (4 in
  `log_torn`).

Deadlock checking is off where the system may stop: after a pool has been
destroyed, after the null pointer in `Request`, when `Shards` returns, when the
file is no longer changed or the program has ended, and when nothing more is
logged.

### Fairness

The loop delivers every callback and timer it has, so the monitor timer, the
plugin's connect and destroy callbacks and the plugin's answers are weakly
fair. In `Pool`, a release is weakly fair because the request's end forces it.
A connect that is tried again and again succeeds some time (strong fairness of
`Created` with success): without it no proxy can serve anything. The request
timer is *not* assumed where the pool serves, nor in `request_live`, so these
show that the timer is not what makes requests end; it is assumed in the world
with destruction, where waiters may only leave by it.

`Server` assumes of the loop that sockets, deferred callbacks and the accept
timer are served, of `Request` that a request ends (`RequestCompletes`), and of
a client that it closes some time when it has all its answers; without that a
client could keep the only descriptor. `Meta` assumes that the timer fires, that
the handler returns and that old pools go (`DestroyCompletes`). `EventList`,
`Whitelist` and `LogRing` assume that every thread that can go on does; nothing
is assumed of the file, of other threads before they trigger an event, or of
the program's wish to log.

## Proofs

Every invariant, refinement and action property of the passing runs is also a
theorem, for any number of servers, connections, clients, shards, keys, events
and bytes. Each proof has one inductive invariant for its module, a lemma for
each operator or action that keeps it, and a step lemma that puts them
together. The assumptions are the named ones of the modules; a theorem that
needs more says so in its `ASSUME`.

| Module | Inductive invariant | Theorems | Needs besides |
|---|---|---|---|
| `PoolProofs` | `PoolInv` | `TypeOK`, `SlotsAccounted`, `ExclusiveUse`, `ConnectCountExact`, `NoIdleWhileWaiting`, `ImplementsConnPool` | |
| | `PoolInv`, `AllCalm` | `GoneIsQuiet` | no fault but `"call"` |
| `RequestProofs` | `ReqInv` | `ReplyFindsSubReq`, `WaitersAlive`, `ShardsAccounted`, `ImplementsConnLife` | |
| | | `NoLeak` | not `"call"` |
| | | `KeepsPoolContract` | not `"call"`, but `"use"` |
| `ShardsProofs` | `SortInv`, `SortedInv`, `LoopInv`, `CountInv`, `GroupsInv` | `ShardsTypeOK`, `SortsEveryKey`, `NotFreedInLoop`, `CountMatchesGroups`, `OneGroupPerShard` | |
| `ServerProofs` | `ServerInv` | `FrameIntact`, `AnswersInOrder`, `ImplementsConnLife` | |
| `MetaProofs` | `MetaInv` | `RoutedAsConfigured`, `NoPoolForgotten`, `AuthFindsUser` | |
| `WhitelistProofs` | `ListInv`, `WLInv` | `NodesAlive`, `ImplementsEventQueue` | |
| | `SafeInv` | `ListInUseNotFreed` | not `"loading"` |
| `LogRingProofs` | `RingInv` | `UnreadIntact` | |

**Pool.** None of the properties is inductive alone. `ServerOK` joins them for
one server and adds what they need from each other: a waiter is queued only
where no connection is idle (so a connection that is handed over is in no
queue), a slot is in a queue exactly when its link and flags say so (so putting
it back cannot put it in twice), and a user holds one connection and waits for
none. A connection in use may have lost its user, because a request whose call
was refused forgets its connection; the lemmas allow for it. They show that
every function of `PoolOps` keeps `ServerOK`; functions that are called in the
middle of another one (`PutBackConnect`, `HandOver`) have a lemma about the
state in which they are called, in which one slot is outside every queue.
`PoolInv` adds that different servers have different users, which `Fetch` keeps
because a sub-request asks once, and every other action because it adds no
user.

For the refinement, each function also has an *effect* lemma that says what it
does to the line, the idle queue and the owners, whatever its path through the
code; `StepRefined` reads each effect as a step of `ConnPool`, with one lemma
for each of its steps.

`GoneIsQuiet` rests on the counts by which the code decides that a server may
go. `Calm` says that a server is either `Steady` (nothing is lost or closing,
and `m_freeConnectCount` is exact) or on its way out (nobody waits and no
connection is in service). The step from one to the other is where the code
finds that the counts of both queues add up to the number of slots; that they
then hold every slot is `ListsCover`. A
failure upsets this (see *Runs*), so the theorem is about pools whose
connections do not fail and are not given back with an error.

**Request.** `ReqInv` says that queues, holders and the plugin's calls agree
with what each sub-request records of itself (`Linked`), that its memory is
alive exactly while it is in its request's list (`Listed`), that `shard_count`
counts the list without what was refused (`Counted`), and that every server is
as `Pool` promises (`ServersOK`, by the lemmas of `PoolProofs`). The difficult
steps are those in which one callback runs through several sub-requests, and
the hand-overs inside them: `HandStep` is what a function of the pool may do to
everybody but the one it was called for. `Counted` uses that there are finitely
many pools. `KeepsPoolContract` instantiates `Pool` once for each pool; a
timeout gives a connection back with an error, which `Pool` counts as a fault in
`"use"`.

**Shards.** `SortInv` says what keeps the pointers of the sort inside the
array, `SortedInv` that what is on the stack is all that can still be out of
order. `LoopInv` says that `shard_count` is never less than the number of keys
still to be looked at, plus one for the group being collected, so a refusal
before the last callback leaves at least one; `CountInv` makes that exact and
`GroupsInv` says which keys the callbacks so far had.

**Client side.** What a client has sent and nobody has looked at is one stream,
the input buffer followed by what is on its way; bytes that arrive do not
change it, and the read states cut pieces off its front. `OrderOK` says that
the stream is in the order in which it was sent and comes after the request
that is read, `FrameOK` (for a client that waits) that it is the rest of one
frame, at the position the read state expects. `Waiting` says that who is in
the backlog has no connection; a connection that is accepted is compared with a
new one. Body lengths are assumed to have a largest one, as the field of the
header has.

**Configuration.** `MetaInv` says that the side that is not in force is empty
unless a switch is on (so a build starts from nothing), that the counters of
the pools are exact, and that the table in force is the one the accepted
configuration describes. A configuration lists its words and users in order, so
the theorems hold for valid and refused ones alike.

**Threads.** `ListInv` says which nodes of the list are whole, how far the
producer that holds the lock has got with the tail, and that the consumer has
freed exactly the nodes before its head; `End`, the last node the consumer can
reach, moves with the one store that publishes. `SafeInv` adds that the lists
of addresses on their way are newer than the one the loop uses and arrive in
that order, which is what makes freeing the list before safe. `RingInv` relates
the offsets to the numbers of bytes logged and passed, modulo the size, in each
position of the two loops between two stores; `CleanInv` is the part that holds
until the file has got a wrong byte.

### What is only model-checked

* Liveness: `WaitersServed`, `DestroyCompletes`, `RequestCompletes`,
  `AcquireReturns`, `RequestAnswered`, `ClosedIsFreed`, `CallersHeard`,
  `EventsHandled`, `LatestInForce`, `OldListsFreed`, `LastFileTakesEffect`,
  `LogDrained`. They need fairness and `ENABLED`, which the proof system does
  not treat.
* The four violations; they are facts about instances.
* That `KeepsPoolContract` and `NoLeak` fail with refused calls: the theorems
  say nothing about it, the run `refused` does.

What a recursive definition computes for every input is out of reach as well,
as are inductions of one's own over data (a
least element comes from the library's well-foundedness of the naturals). No module uses a recursive operator:
recursion in the code is a stack in the model (`QuickSort`), and counts are
cardinalities, so that the library's theorems on finite sets and sequences are
enough.

## Not modelled, and the plan

The plan is done but for what a second look at the proofs may add: shorter
proofs where a lemma can be shared, and action properties of single functions
where they say more than the refinements do. Five hazards have no
property, because what they lead to is undefined or outside the model
(`PROJECT.json`, `note`).

Left out for good:

* the plugins (not in the repository; their contract is stated in `Pool` and
  `Request`), libevent and the slb library (third party);
* plugin loading, file reading, start-up, the hash function, the control
  scripts and the shard tool: no state that anything depends on afterwards;
* the list of blocks of a request in `mem.cpp`, beyond what is freed when: it
  is private to a request and used by one thread;
* formatting and reopening of the log (its temporary buffer is static, although
  the whitelist thread logs, too), writes to its file that fail, parsing of
  whitelist lines, modification times that go back (an older file put in the
  place of a newer one is not loaded), error texts and time stamps;
* an error of `accept` other than the descriptor limit, which ends the program
  (`server.cpp:202-205`); a `body_len` that is negative or too large to allocate
  (`Bodies` are natural numbers, and memory is there); a debug message that
  may read a request after its end (`req.cpp:176`);
* undefined behaviour whose outcome depends on the allocator: the index 65536
  in a range of partitions (`meta.cpp:287`), `free` of an element of an array
  (`pool.cpp:443`), the pool of no key (`router.cpp:175`).
