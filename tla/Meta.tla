-------------------------------- MODULE Meta --------------------------------
(***************************************************************************)
(* The configuration: meta.cpp loads it, builds the router from it and     *)
(* fills the table of users.  meta_init does this once, and a failure ends *)
(* the program.  The timer that calls _meta_conf_reload every second is    *)
(* commented out in meta_init (lines 40 to 51); the module models the      *)
(* proxy with it, because all of the code for a switch is there.           *)
(*                                                                         *)
(* The handler takes the modification time first and reads the file        *)
(* afterwards, and the file may change in between; otherwise it runs to    *)
(* its end.  Modification times are whole seconds, so that a file that     *)
(* changes twice in a second keeps its time.                               *)
(***************************************************************************)
EXTENDS Router

CONSTANTS Confs,          \* what the file may contain
          Users,
          MaxChanges      \* bound on the changes of the file

\* A configuration: does it parse, how many databases it has, which part of
\* the database cannot be read ("none" if all can), the shard mode, for every
\* partition a sequence of words, the place of the proxy, the services and
\* the users.  A place is an IDC and a room, as far as the settings
\* ReadIdcOnly and ReadRoomOnly make them count.
Word == [range : BOOLEAN, lo : Nat, hi : Nat]

ConfOK(c) ==
    /\ c.loads \in BOOLEAN /\ c.dbs \in Nat /\ c.mode \in Nat
    /\ c.fault \in {"none", "basic", "partition", "service", "user"}
    /\ DOMAIN c.words \subseteq Parts
    /\ \A i \in DOMAIN c.words : c.words[i] \in Seq(Word)
    /\ \A s \in DOMAIN c.services :
         /\ s \in Services
         /\ c.services[s].partition \in Nat
         /\ c.services[s].canRead \in BOOLEAN /\ c.services[s].canWrite \in BOOLEAN
    /\ c.users \in Seq(Users)

ASSUME MetaAssumption ==
    /\ MaxChanges \in Nat
    /\ \A c \in Confs : ConfOK(c)

VARIABLES
    router,
    file,         \* contents of the configuration file
    version,      \* how often it was written, bounded by MaxChanges
    modified,     \* its modification time
    recent,       \* all that it contained in the second of that time
    lastModify,   \* conf_lastmodify
    db,           \* meta->dbs[0]
    auth,         \* meta_auth: users by name, as indices into db.users
    inForce,      \* the last configuration that router_build accepted
    phase,        \* meta_init runs, the proxy runs, the program has ended
    stamp         \* t while _meta_conf_reload runs, otherwise 0

fileVars == << file, version, modified, recent >>
metaVars == << router, fileVars, lastModify, db, auth, inForce, phase, stamp >>

NoDb == [mode |-> 0, partition |-> << >>, service |-> << >>, users |-> << >>]

-----------------------------------------------------------------------------
(* Loading *)

\* _meta_load_partition: a word that is a number or a range.
BadWord(w) ==
    IF w.range THEN w.lo > w.hi \/ w.hi > ModKey ELSE w.lo >= ModKey

\* The words before the first bad one; the caller does not look at the error.
LoadPartition(words) ==
    LET good == {n \in 0 .. Len(words) : \A j \in 1 .. n : ~BadWord(words[j])}
    IN  SubSeq(words, 1, CHOOSE n \in good : \A m \in good : m <= n)

\* A service is in the pools of its partition that it can serve; for reading
\* it must be where the proxy is.
ServicesOf(c, m, i) ==
    {s \in DOMAIN c.services :
        /\ c.services[s].partition = i
        /\ IF m = "r" THEN c.services[s].canRead /\ c.services[s].place = c.place
           ELSE c.services[s].canWrite}

\* _meta_load_conf returns 0.
LoadSucceeds(c) ==
    /\ c.fault = "none"
    /\ \A s \in DOMAIN c.services : c.services[s].partition \in DOMAIN c.words

\* _meta_load_conf.  When it fails before the users, there are none; the
\* other parts of a database that failed are not read any more.
LoadConf(c) ==
    IF LoadSucceeds(c)
    THEN [mode |-> c.mode,
          partition |-> [i \in DOMAIN c.words |-> LoadPartition(c.words[i])],
          service |-> [m \in Kinds |-> [i \in DOMAIN c.words |-> ServicesOf(c, m, i)]],
          users |-> c.users]
    ELSE [NoDb EXCEPT !.users = IF c.fault = "user" THEN c.users ELSE << >>]

\* _meta_auth_load: the first user of a name is the one that is found.
AuthLoad(old, users) ==
    [u \in {users[i] : i \in DOMAIN users} |->
        CHOOSE i \in DOMAIN users :
            users[i] = u /\ \A j \in 1 .. i - 1 : users[j] # u]

-----------------------------------------------------------------------------

MetaInit ==
    /\ router = RouterInit
    /\ file \in Confs /\ version = 1 /\ modified = 1 /\ recent = {file}
    /\ lastModify = 0 /\ db = NoDb /\ auth = << >>
    /\ inForce = NoDb
    /\ phase = "init" /\ stamp = 0

\* Somebody writes the file, in the second of its last change or in a later one.
Edit ==
    /\ version <= MaxChanges
    /\ version' = version + 1
    /\ \E c \in Confs \ {file} :
        /\ file' = c
        /\ \/ modified' = modified /\ recent' = recent \cup {c}
           \/ modified' = modified + 1 /\ recent' = {c}
    /\ UNCHANGED << router, lastModify, db, auth, inForce, phase, stamp >>

\* Mutant of Stat: a switch that is under way is not waited for.
Stat_Impatient ==
    /\ phase \in {"init", "up"} /\ stamp = 0
    /\ lastModify < modified
    /\ stamp' = modified
    /\ UNCHANGED << router, fileVars, lastModify, db, auth, inForce, phase >>

\* _meta_conf_reload, called by meta_init or by the timer, finds a file that
\* is newer, and no switch under way.
Stat ==
    /\ phase \in {"init", "up"} /\ stamp = 0
    /\ lastModify < modified /\ ~router.switching
    /\ stamp' = modified
    /\ UNCHANGED << router, fileVars, lastModify, db, auth, inForce, phase >>

\* A failure in meta_init ends the program.
Return(ok) ==
    /\ stamp' = 0
    /\ phase' = IF ok \/ phase = "up" THEN "up" ELSE "exited"

\* The file cannot be loaded: "bad conf. will not reload it".
BadFile ==
    /\ stamp # 0 /\ ~file.loads
    /\ Return(FALSE)
    /\ UNCHANGED << router, fileVars, lastModify, db, auth, inForce >>

\* Mutant of Accept: the time of the load instead of that of the file.
Accept_Now == stamp # 0 /\ file.loads /\ lastModify' = modified + 1

\* The new file takes the place of the old one.
Accept == stamp # 0 /\ file.loads /\ lastModify' = stamp

WrongDbs ==
    /\ Accept /\ file.dbs # 1
    /\ Return(FALSE)
    /\ UNCHANGED << router, fileVars, db, auth, inForce >>

\* _meta_build_router: the old database is gone, whatever comes next.
BadDb ==
    /\ Accept /\ file.dbs = 1 /\ ~LoadSucceeds(file)
    /\ db' = LoadConf(file)
    /\ Return(FALSE)
    /\ UNCHANGED << router, fileVars, auth, inForce >>

\* Mutant of BuildRouter: the users are read before the router is built.
BuildRouter_AuthFirst ==
    /\ Accept /\ file.dbs = 1 /\ LoadSucceeds(file)
    /\ db' = LoadConf(file)
    /\ auth' = AuthLoad(auth, db'.users)
    /\ router' = RouterBuild(router, db')
    /\ inForce' = IF BuildSucceeds(db') THEN file ELSE inForce
    /\ Return(BuildSucceeds(db'))
    /\ UNCHANGED fileVars

\* The table of users is read again only when the router was built.
BuildRouter ==
    /\ Accept /\ file.dbs = 1 /\ LoadSucceeds(file)
    /\ db' = LoadConf(file)
    /\ router' = RouterBuild(router, db')
    /\ IF BuildSucceeds(db')
       THEN auth' = AuthLoad(auth, db'.users) /\ inForce' = file
       ELSE UNCHANGED << auth, inForce >>
    /\ Return(BuildSucceeds(db'))
    /\ UNCHANGED fileVars

\* A pool of the old side is gone (Pool).  Where pool_destroy itself calls
\* back, the step directly follows BuildRouter.
PoolGone ==
    /\ phase = "up" /\ stamp = 0
    /\ \E m \in Kinds, i \in Parts :
        /\ CallsBack(router, m, i)
        /\ router' = OnDestroy(router, m, i)
    /\ UNCHANGED << fileVars, lastModify, db, auth, inForce, phase, stamp >>

Load == BadFile \/ WrongDbs \/ BadDb \/ BuildRouter

MetaNext == Edit \/ Stat \/ BadFile \/ WrongDbs \/ BadDb \/ BuildRouter \/ PoolGone

\* The timer fires, the handler returns, and pools that are told to go do so
\* (Pool!DestroyCompletes, where no connection fails in use).
MetaSpec ==
    /\ MetaInit /\ [][MetaNext]_metaVars
    /\ WF_metaVars(Stat) /\ WF_metaVars(Load) /\ WF_metaVars(PoolGone)

-----------------------------------------------------------------------------
(* Properties *)

MetaTypeOK ==
    /\ router \in RouterType
    /\ file \in Confs /\ inForce \in Confs \cup {NoDb}
    /\ version \in 1 .. MaxChanges + 1
    /\ modified \in 1 .. version /\ recent \subseteq Confs /\ file \in recent
    /\ lastModify \in 0 .. modified /\ stamp \in 0 .. modified
    /\ phase \in {"init", "up", "exited"}
    /\ DOMAIN auth \subseteq Users

\* Every key is routed to a partition whose words in the configuration in
\* force name it, by a word with no bad one up to it, and the pools of that
\* partition are there, have its services and are not being destroyed: however often a file with gaps, overlaps, bad
\* words or unreadable parts was tried since, and whatever old pools call back
\* (_meta_load_partition, _shard_init_part, _get_shard, _router_on_destroy).
RoutedAsConfigured ==
    phase = "up" =>
        \A k \in Keys :
            LET i == router.map[router.flag][k]
            IN  /\ i \in DOMAIN inForce.words
                /\ \E j \in DOMAIN inForce.words[i] :
                     /\ inForce.words[i][j].lo <= k /\ k <= inForce.words[i][j].hi
                     /\ \A h \in 1 .. j : ~BadWord(inForce.words[i][h])
                /\ \A m \in Kinds :
                     LET p == router.pools[router.flag][m][i]
                     IN  /\ p.built /\ ~p.destroying
                         /\ p.services = ServicesOf(inForce, m, i)

\* A new switch starts only when all pools of the last one are gone, so that
\* no pool is overwritten in the table before it was destroyed; and the
\* counters that decide this are exact.
NoPoolForgotten ==
    /\ MetaTypeOK
    /\ \A d \in Sides, m \in Kinds :
         router.num[d][m] = Cardinality({i \in Parts : router.pools[d][m][i].built})
    /\ (stamp # 0 \/ ~router.switching) =>
         \A m \in Kinds, i \in Parts : ~router.pools[NextFlag(router)][m][i].built

\* The names that meta_auth_check finds are those of the configuration that
\* requests are routed by, each with the place that configuration gives it:
\* after any files, databases and routers that were refused, and after switches
\* of which the pools are still on their way out.  The property is about the
\* table: a database that was refused has by then taken the place of the users
\* it leads to (meta.cpp:208), and lookups fail until a file is accepted.
AuthFindsUser ==
    inForce # NoDb =>
        LET users == inForce.users
        IN  /\ DOMAIN auth = {users[i] : i \in DOMAIN users}
            /\ \A u \in DOMAIN auth : auth[u] \in DOMAIN users /\ users[auth[u]] = u

\* What the code never comes back from: an unsupported mode, and an old pool
\* that had no servers.
Hung ==
    /\ router.switching
    /\ \/ db.mode # 0
       \/ \E m \in Kinds, i \in Parts :
            /\ router.pools[NextFlag(router)][m][i].destroying
            /\ router.pools[NextFlag(router)][m][i].services = {}

ValidConf(c) ==
    c.loads /\ c.dbs = 1 /\ LoadSucceeds(c) /\ BuildSucceeds(LoadConf(c))

\* Every switch comes to an end (_router_on_destroy), and a running proxy ends
\* up with the file it was last given, if that is valid: also if the file
\* changed while it was read, or while a switch was under way, or after files
\* that were refused.  The exception is a change in a second that the proxy
\* already took for conf_lastmodify: meta.cpp:180 compares whole seconds, and
\* such a change is never loaded.  What takes effect is therefore something the
\* file contained in the second of its last change; if the file was not changed
\* twice in it, the file.  A configuration that was read and then refused moves
\* conf_lastmodify too, one that does not load is tried again.
LastFileTakesEffect ==
    <>[](\/ phase = "exited" \/ Hung
         \/ /\ ~router.switching
            /\ (ValidConf(file) /\ \A c \in recent : c.loads => ValidConf(c)) =>
                 inForce \in recent)
=============================================================================
