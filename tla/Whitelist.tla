----------------------------- MODULE Whitelist ------------------------------
(***************************************************************************)
(* The whitelist of addresses.  A thread of its own (ip_whitelist.cpp)     *)
(* compares the modification time of the file, loads a new list when it    *)
(* is newer, and tells the event loop by a custom event (EventList), whose *)
(* handler (server.cpp) frees the list before.  There are two pointers of  *)
(* the same name: the one of ip_whitelist.cpp, which in_whitelist and the  *)
(* thread use, is set by the thread when it has loaded a list; the one of  *)
(* server.cpp only remembers what is to be freed.                          *)
(*                                                                         *)
(* Lists are numbered as they are loaded, 0 is NULL; the contents of a     *)
(* list is the version of the file it was read from.  Modification times   *)
(* are whole seconds, as get_mtime has them, and a later one only counts    *)
(* when it is greater: a change of the file comes in the second of the     *)
(* change before or in a later one.  The model starts after server_init.   *)
(***************************************************************************)
EXTENDS EventList

CONSTANTS Checker,       \* the thread
          Faults,        \* when the file may come and go: while the thread is
                         \* "asleep", or while it is "loading"
          MaxChanges,    \* bound on the changes of the file
          MaxOther,      \* bound on the events of other threads
          Other          \* an event of another thread

ASSUME WhitelistAssumption ==
    /\ Checker \in Producers
    /\ Faults \subseteq {"asleep", "loading"}
    /\ MaxChanges \in Nat /\ MaxOther \in Nat
    /\ Events = (0 .. MaxChanges + 1) \cup {Other}
    /\ Other \notin 0 .. MaxChanges + 1

VARIABLES
    version,     \* of the file
    modified,    \* its st_mtime
    first,       \* the first version that was written in this second
    readable,    \* the file is there
    lists,       \* the lists loaded: contents and mtime
    static,      \* whitelist of ip_whitelist.cpp
    global,      \* whitelist of server.cpp
    freedLists,  \* lists given to free_whitelist
    cpc,         \* where the thread is in whitelist_loop
    mtime        \* local variable of load_whitelist

fileVars == << version, modified, first, readable >>
ownVars == << fileVars, lists, static, global, freedLists, cpc, mtime >>

wlVars == << listVars, ownVars >>

WLTypeOK ==
    /\ ListTypeOK
    /\ version \in 0 .. MaxChanges /\ readable \in BOOLEAN
    /\ modified \in 0 .. version /\ first \in 0 .. version
    /\ lists \in Seq([contents : 0 .. MaxChanges, mtime : 0 .. MaxChanges])
    /\ static \in 0 .. Len(lists) /\ global \in 0 .. Len(lists)
    /\ freedLists \subseteq 1 .. Len(lists)
    /\ cpc \in {"sleep", "stat", "open", "tell", "tellNull"}
    /\ mtime \in 0 .. MaxChanges

\* server_init has loaded the file, or found none.
WLInit ==
    /\ ListInit
    /\ version = 0 /\ modified = 0 /\ first = 0 /\ readable = TRUE
    /\ \/ lists = << [contents |-> 0, mtime |-> 0] >> /\ static = 1 /\ global = 1
       \/ lists = << >> /\ static = 0 /\ global = 0
    /\ freedLists = {} /\ cpc = "sleep" /\ mtime = 0

-----------------------------------------------------------------------------
(* The file *)

\* The file is written, in the same second as the last time or later.
Change ==
    /\ version < MaxChanges
    /\ version' = version + 1
    /\ \/ UNCHANGED << modified, first >>
       \/ modified' = modified + 1 /\ first' = version'
    /\ UNCHANGED << listVars, readable, lists, static, global, freedLists, cpc,
                    mtime >>

Vanish ==
    /\ (IF cpc = "sleep" THEN "asleep" ELSE "loading") \in Faults
    /\ readable' = ~readable
    /\ UNCHANGED << listVars, version, modified, first, lists, static, global,
                    freedLists, cpc, mtime >>

-----------------------------------------------------------------------------
(* The checking thread *)

\* whitelist_loop and is_whitelist_changed: with no list nothing is checked.
Check ==
    /\ cpc = "sleep" /\ ppc[Checker] = "out"
    /\ static # 0 /\ readable /\ modified > lists[static].mtime
    /\ cpc' = "stat"
    /\ UNCHANGED << listVars, fileVars, lists, static, global, freedLists, mtime >>

\* load_whitelist: get_mtime.
Stat ==
    /\ cpc = "stat"
    /\ IF readable THEN cpc' = "open" /\ mtime' = modified
       ELSE cpc' = "tellNull" /\ UNCHANGED mtime
    /\ UNCHANGED << listVars, fileVars, lists, static, global, freedLists >>

\* Mutant of OpenAndRead: the time is taken after the contents; when the file
\* changed its time meanwhile, the contents are those of an earlier second.
OpenAndRead_TimeLast ==
    /\ cpc = "open"
    /\ IF readable
       THEN /\ lists' = Append(lists,
                        [contents |-> IF modified > mtime THEN first - 1 ELSE version,
                         mtime |-> modified])
            /\ static' = Len(lists')
            /\ cpc' = "tell"
       ELSE /\ cpc' = "tellNull"
            /\ UNCHANGED << lists, static >>
    /\ UNCHANGED << listVars, fileVars, global, freedLists, mtime >>

\* load_whitelist: the file is read into a new list, which is in force from
\* now on; without a file the result is NULL.
OpenAndRead ==
    /\ cpc = "open"
    /\ IF readable
       THEN /\ lists' = Append(lists, [contents |-> version, mtime |-> mtime])
            /\ static' = Len(lists')
            /\ cpc' = "tell"
       ELSE /\ cpc' = "tellNull"
            /\ UNCHANGED << lists, static >>
    /\ UNCHANGED << listVars, fileVars, global, freedLists, mtime >>

\* event_trigger with what load_whitelist returned.
Tell ==
    /\ cpc \in {"tell", "tellNull"}
    /\ Trigger(Checker, IF cpc = "tell" THEN static ELSE 0)
    /\ cpc' = "sleep"
    /\ UNCHANGED << fileVars, lists, static, global, freedLists, mtime >>

-----------------------------------------------------------------------------
(* The event loop *)

\* Mutant of Assign: the list before is still needed.
Assign_Keep(w) == global' = w /\ UNCHANGED freedLists

\* Mutant of Assign: the pointer is moved before the old list is freed.
Assign_MoveFirst(w) ==
    /\ global' = w
    /\ freedLists' = freedLists \cup ({w} \ {0})

\* assign_whitelist and free_whitelist
Assign(w) ==
    /\ global' = w
    /\ freedLists' = freedLists \cup ({global} \ {0})

\* custom_event_cb calls the handler of the event it has taken, which for
\* "whitelist_changed" is whitelist_changed_event.
Handle ==
    /\ Consume
    /\ IF value' = Other THEN UNCHANGED << global, freedLists >> ELSE Assign(value')
    /\ UNCHANGED << fileVars, lists, static, cpc, mtime >>

-----------------------------------------------------------------------------

\* The list is written for several producers, although the checking thread
\* is the only one so far: another thread triggers an event of its own.
Elsewhere(p) ==
    /\ p # Checker
    /\ Cardinality({n \in Nodes : node[n].event = Other}) < MaxOther
    /\ Trigger(p, Other)

WLNext ==
    \/ Change \/ Vanish
    \/ Check \/ Stat \/ OpenAndRead \/ Tell
    \/ Handle
    \/ /\ \/ RunCustom \/ Drained
          \/ \E p \in Producers : Elsewhere(p) \/ Produce(p)
       /\ UNCHANGED ownVars

\* Both threads run; other threads that are in event_trigger do, too.
WLSpec ==
    /\ WLInit /\ [][WLNext]_wlVars
    /\ WF_wlVars(Check) /\ WF_wlVars(Stat) /\ WF_wlVars(OpenAndRead)
    /\ WF_wlVars(Tell) /\ WF_wlVars(Handle)
    /\ WF_wlVars((RunCustom \/ Drained) /\ UNCHANGED ownVars)
    /\ \A p \in Producers : WF_wlVars(Produce(p) /\ UNCHANGED ownVars)

-----------------------------------------------------------------------------
(* Properties *)

\* The pointers are to lists that were loaded.  The list that in_whitelist
\* looks into and whose time the thread compares is not one that the event loop
\* has freed; nor is the one that it will free next, or one that is on its way
\* to it.
ListInUseNotFreed ==
    /\ WLTypeOK
    /\ static \notin freedLists
    /\ global \notin freedLists
    /\ \A n \in Published : node[n].event \notin freedLists

\* When the file is left alone and is there, a version of the last second in
\* which it was written comes into force (is_whitelist_changed): the last
\* version, also if it was written while another one was being loaded, unless it
\* was written in the second of the version before.  A change in a second whose
\* time a list already has is never seen.  Nor is the file ever looked at again
\* if there was no list to start with.
LatestInForce ==
    <>[]readable
        => <>[](static # 0 => lists[static].contents \in first .. version)

\* All the lists that were replaced are freed, and the remaining one is the
\* one in use.
OldListsFreed == <>[](freedLists = 1 .. Len(lists) \ {static})
=============================================================================
