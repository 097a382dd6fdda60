------------------------------- MODULE Server -------------------------------
(***************************************************************************)
(* The client side of the proxy (server.cpp): connections are accepted, as *)
(* long as there are descriptors and the whitelist knows the client, a     *)
(* request is read (Connection), processed, answered, and the next one is  *)
(* read, until the client closes or something fails.                       *)
(*                                                                         *)
(* Everything runs on the event loop; a callback is one action.  How a     *)
(* request is processed is the subject of Request: here it ends some time, *)
(* maybe before req_ready returns.  The clients send and close as they     *)
(* like; the Plain ones wait for an answer before they send again and send *)
(* no requests of the provider __MONITOR__.                                *)
(***************************************************************************)
EXTENDS Connection

CONSTANTS Clients, Plain,
          FdLimit,      \* the descriptors there are for clients
          NoConn        \* no connection_t

ASSUME ServerAssumption ==
    /\ Plain \subseteq Clients
    /\ FdLimit \in Nat \ {0}
    /\ NoConn \notin ConnType

VARIABLES
    peer,       \* the client's end: "away", "up" or "closed"
    net,        \* bytes the client has sent and the proxy has not read
    sent,       \* requests the client has sent on this connection
    answered,   \* log_ids of the answers it got
    backlog,    \* clients to be accepted
    accepting,  \* listen_ev is added
    timer,      \* enable_timer is set
    conn        \* each client's connection_t

clientVars == << peer, net, sent, answered >>
listenVars == << backlog, accepting, timer >>
serverVars == << clientVars, listenVars, conn >>

ServerTypeOK ==
    /\ peer \in [Clients -> {"away", "up", "closed"}]
    /\ net \in [Clients -> Seq(Bytes)]
    /\ sent \in [Clients -> 0 .. MaxRequests]
    /\ answered \in [Clients -> Seq(1 .. MaxRequests)]
    /\ backlog \in Seq(Clients)
    /\ accepting \in BOOLEAN /\ timer \in BOOLEAN
    /\ conn \in [Clients -> ConnType \cup {NoConn}]

ServerInit ==
    /\ peer = [c \in Clients |-> "away"]
    /\ net = [c \in Clients |-> << >>]
    /\ sent = [c \in Clients |-> 0]
    /\ answered = [c \in Clients |-> << >>]
    /\ backlog = << >> /\ accepting = TRUE /\ timer = FALSE
    /\ conn = [c \in Clients |-> NoConn]

Connected == {c \in Clients : conn[c] # NoConn}

-----------------------------------------------------------------------------
(* The clients *)

Connect(c) ==
    /\ peer[c] = "away"
    /\ peer' = [peer EXCEPT ![c] = "up"]
    /\ backlog' = Append(backlog, c)
    /\ UNCHANGED << net, sent, answered, accepting, timer, conn >>

Send(c, b, probe) ==
    /\ peer[c] = "up"
    /\ sent[c] < MaxRequests
    /\ c \in Plain => Len(answered[c]) = sent[c] /\ ~probe
    /\ sent' = [sent EXCEPT ![c] = @ + 1]
    /\ net' = [net EXCEPT ![c] = @ \o Frame(sent'[c], b, probe)]
    /\ UNCHANGED << peer, answered, listenVars, conn >>

\* The client closes when it has all its answers ...
Leave(c) ==
    /\ peer[c] = "up" /\ Len(answered[c]) = sent[c]
    /\ peer' = [peer EXCEPT ![c] = "closed"]
    /\ UNCHANGED << net, sent, answered, listenVars, conn >>

\* ... or does not wait for them.
GiveUp(c) ==
    /\ peer[c] = "up" /\ Len(answered[c]) < sent[c]
    /\ peer' = [peer EXCEPT ![c] = "closed"]
    /\ UNCHANGED << net, sent, answered, listenVars, conn >>

-----------------------------------------------------------------------------
(* Accepting *)

\* Descriptor and connection are gone; the client finds out.
Disconnect(c) ==
    /\ peer' = [peer EXCEPT ![c] = "away"]
    /\ net' = [net EXCEPT ![c] = << >>]
    /\ sent' = [sent EXCEPT ![c] = 0]

\* accept_cb: at the descriptor limit accepting stops and a timer is set.  Any
\* other error of accept ends the program (server.cpp:202-205) and is left out.
AcceptLimit ==
    /\ accepting /\ backlog # << >>
    /\ Cardinality(Connected) >= FdLimit
    /\ accepting' = FALSE
    /\ timer' = TRUE
    /\ UNCHANGED << clientVars, backlog, conn >>

\* accept_cb: a client that is not on the whitelist is closed at once.
AcceptRefused ==
    /\ accepting /\ backlog # << >>
    /\ Cardinality(Connected) < FdLimit
    /\ backlog' = Tail(backlog)
    /\ Disconnect(Head(backlog))
    /\ answered' = [answered EXCEPT ![Head(backlog)] = << >>]
    /\ UNCHANGED << accepting, timer, conn >>

\* accept_cb: a connection is made.
AcceptCb ==
    /\ accepting /\ backlog # << >>
    /\ Cardinality(Connected) < FdLimit
    /\ backlog' = Tail(backlog)
    /\ conn' = [conn EXCEPT ![Head(backlog)] = NewConnection]
    /\ UNCHANGED << clientVars, accepting, timer >>

\* Mutant of EnableAccept: the listening event is not added again.
EnableAccept_NoAdd ==
    /\ timer
    /\ timer' = FALSE
    /\ UNCHANGED << clientVars, backlog, accepting, conn >>

\* enable_accept, the timer.
EnableAccept ==
    /\ timer
    /\ accepting' = TRUE
    /\ timer' = FALSE
    /\ UNCHANGED << clientVars, backlog, conn >>

-----------------------------------------------------------------------------
(* The socket *)

SocketRead(c, m) ==
    /\ c \in Connected
    /\ m <= Len(net[c]) /\ MayRead(conn[c], m)
    /\ conn' = [conn EXCEPT ![c] = Arrived(@, SubSeq(net[c], 1, m))]
    /\ net' = [net EXCEPT ![c] = SubSeq(@, m + 1, Len(@))]
    /\ UNCHANGED << peer, sent, answered, listenVars >>

\* All is read and the client has closed.
SocketEof(c) ==
    /\ c \in Connected
    /\ peer[c] = "closed" /\ net[c] = << >> /\ MayRead(conn[c], 1)
    /\ conn' = [conn EXCEPT ![c] = Broken(@)]
    /\ UNCHANGED << clientVars, listenVars >>

\* The client has closed and the connection is reset, which is noticed when
\* it is read, or when an answer is written.
SocketReset(c) ==
    /\ c \in Connected
    /\ peer[c] = "closed"
    /\ ~conn[c].hasError /\ ~conn[c].eventDue
    /\ MayRead(conn[c], 1) \/ answered[c] # << >>
    /\ net' = [net EXCEPT ![c] = << >>]
    /\ conn' = [conn EXCEPT ![c] = Broken(@)]
    /\ UNCHANGED << peer, sent, answered, listenVars >>

-----------------------------------------------------------------------------
(* Callbacks of the connection *)

\* Mutants of ErrorCb: the connection is freed in processing, too; it is never
\* freed here.
ErrorCb_Free(cn) == NoConn

ErrorCb_Note(cn) == [cn EXCEPT !.hasError = TRUE]

\* connection_call_error_cb and error_cb
ErrorCb(cn) ==
    IF cn.isProcessing THEN [cn EXCEPT !.hasError = TRUE] ELSE NoConn

\* Mutant of ServerProcessDone: the next request is not prepared for.
ServerProcessDone_NoPrepare(cn) ==
    IF cn.hasError THEN NoConn ELSE [cn EXCEPT !.isProcessing = FALSE]

\* server_process_done
ServerProcessDone(cn) ==
    IF cn.hasError THEN NoConn
    ELSE PrepareRead([cn EXCEPT !.isProcessing = FALSE])

\* What the deferred callbacks of a connection may leave behind, with the
\* answers written meanwhile.  The read callback comes first: it fails, or
\* has a request, which read_done_cb hands to req_ready, or answers itself if
\* it is a probe, or has none yet.  Then comes the event callback, unless the
\* connection is gone.
ReadOutcomes(c, cn) ==
    LET got == NsheadConnRead(cn)
        taken == [got EXCEPT !.isProcessing = TRUE, !.reading = FALSE]
    IN  CASE ReadFails(cn) -> {<< ErrorCb(cn), << >> >>}
          [] ~ReadFails(cn) /\ got.state # "processing" -> {<< got, << >> >>}
          [] OTHER ->
                IF got.monitor
                THEN {<< taken, << got.logId >> >>}
                ELSE {<< taken, << >> >>,
                      << ServerProcessDone(taken), << got.logId >> >>}

\* bufferevent_run_deferred_callbacks: connection_read_cb, connection_event_cb
Deferred(c) ==
    /\ c \in Connected
    /\ LET cn == [conn[c] EXCEPT !.readDue = FALSE, !.eventDue = FALSE]
       IN  /\ conn[c].readDue \/ conn[c].eventDue
           /\ \E out \in IF conn[c].readDue THEN ReadOutcomes(c, cn)
                         ELSE {<< cn, << >> >>} :
                LET left == IF conn[c].eventDue /\ out[1] # NoConn
                            THEN ErrorCb(out[1]) ELSE out[1]
                IN  /\ conn' = [conn EXCEPT ![c] = left]
                    /\ IF left = NoConn
                       THEN /\ Disconnect(c)
                            /\ answered' = [answered EXCEPT ![c] = << >>]
                       ELSE /\ answered' = [answered EXCEPT ![c] = @ \o out[2]]
                            /\ UNCHANGED << peer, net, sent >>
    /\ UNCHANGED listenVars

\* req_done: the answer is written, unless there was an error, and the
\* connection is handed back.
ProcessDone(c) ==
    /\ c \in Connected
    /\ conn[c].isProcessing /\ ~conn[c].monitor
    /\ LET left == ServerProcessDone(conn[c])
       IN  /\ conn' = [conn EXCEPT ![c] = left]
           /\ IF left = NoConn
              THEN /\ Disconnect(c)
                   /\ answered' = [answered EXCEPT ![c] = << >>]
              ELSE /\ answered' = [answered EXCEPT ![c] =
                                     Append(@, conn[c].logId)]
                   /\ UNCHANGED << peer, net, sent >>
    /\ UNCHANGED listenVars

-----------------------------------------------------------------------------

ServerNext ==
    \/ AcceptLimit
    \/ AcceptRefused
    \/ AcceptCb
    \/ EnableAccept
    \/ \E c \in Clients :
        \/ Connect(c)
        \/ \E b \in Bodies, probe \in BOOLEAN : Send(c, b, probe)
        \/ Leave(c)
        \/ GiveUp(c)
        \/ \E m \in 1 .. Len(net[c]) : SocketRead(c, m)
        \/ SocketEof(c)
        \/ SocketReset(c)
        \/ Deferred(c)
        \/ ProcessDone(c)

\* The loop delivers what is ready: sockets, deferred callbacks, the timer,
\* and the end of every request (RequestCompletes of Request).  Of a client
\* it is assumed that it closes when it has nothing more to send.
ServerFairness ==
    /\ WF_serverVars(AcceptLimit \/ AcceptRefused \/ AcceptCb)
    /\ WF_serverVars(EnableAccept)
    /\ \A c \in Clients :
        /\ WF_serverVars(\E m \in 1 .. Len(net[c]) : SocketRead(c, m))
        /\ WF_serverVars(SocketEof(c))
        /\ WF_serverVars(Deferred(c))
        /\ WF_serverVars(ProcessDone(c))
        /\ WF_serverVars(Leave(c))

ServerSpec == ServerInit /\ [][ServerNext]_serverVars /\ ServerFairness

-----------------------------------------------------------------------------
(* Properties *)

Processing(c) == c \in Connected /\ conn[c].isProcessing

\* req_ready passes on the whole buffer, readbuf_size bytes, which may be more
\* than the body.  However the client pipelines, no byte of it is memory that
\* was never written.  If the client waits for its answers, the buffer starts
\* with the body of its last request, and nothing was taken from or left for
\* another one (nshead_conn_read, with partial heads and bodies, empty bodies,
\* and buffers that are larger than the body).
FrameIntact ==
    /\ ServerTypeOK
    /\ \A c \in Clients :
         Processing(c) => Junk \notin Range(conn[c].readbuf)
    /\ \A c \in Clients :
         Processing(c) /\ c \in Plain =>
            LET cn == conn[c]
            IN  /\ cn.logId = sent[c]
                /\ SubSeq(cn.readbuf, 1, cn.expected)
                     = BodyOf(sent[c], cn.expected)
                /\ cn.input = << >> /\ net[c] = << >>

\* Answers carry the log_id of a request that was sent, in the order of the
\* requests, never twice: also to a client that pipelines.  A body is read up to
\* readbuf_size (nshead_conn_read), with bytes of the next frames behind it when
\* the buffer is larger; those are lost, and then a whole request may go
\* unanswered while a later one is answered, or the next head has no magic
\* number and the connection ends.
AnswersInOrder ==
    \A c \in Clients :
        /\ \A j, k \in DOMAIN answered[c] :
             j < k => answered[c][j] < answered[c][k]
        /\ \A j \in DOMAIN answered[c] : answered[c][j] <= sent[c]

\* The connection lives as those who point to it rely on (ConnLife).
Life == INSTANCE ConnLife WITH
    phase  <- [c \in Clients |->
                 IF conn[c] = NoConn THEN "closed"
                 ELSE IF conn[c].isProcessing THEN "processing" ELSE "reading"],
    failed <- {c \in Connected : conn[c].hasError}

ImplementsConnLife == Life!CLSpec

\* A client that waits for an answer on its connection gets it, whatever the
\* sizes of this request and the ones before and however its bytes arrive.
RequestAnswered ==
    \A c \in Plain :
        (c \in Connected /\ Len(answered[c]) < sent[c])
           ~> (peer[c] # "up" \/ Len(answered[c]) = sent[c])

\* The connection of a client that has closed is freed, also when it closed
\* in the middle of a request, or before it was accepted.
ClosedIsFreed ==
    \A c \in Plain :
        (c \in Connected /\ peer[c] = "closed") ~> c \notin Connected

\* Whoever connects is accepted or refused, although accepting stops whenever
\* the descriptors are used up, unless a client that is not Plain keeps one.
CallersHeard ==
    \A c \in Clients :
        c \in Range(backlog)
           ~> c \notin Range(backlog) \/ Connected \ Plain # {}
=============================================================================
