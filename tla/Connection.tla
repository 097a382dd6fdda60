----------------------------- MODULE Connection -----------------------------
(***************************************************************************)
(* A client connection (connection_t and nshead_conn_t of connection.cpp)  *)
(* on its bufferevent, as operators on a record: the nshead framing, the   *)
(* watermarks, the read buffer that only grows.                            *)
(*                                                                         *)
(* A byte is a record that says where it belongs: the pos-th byte of the   *)
(* client's request number req, whose head says that len bytes of body     *)
(* follow.  The head is the first HeadLen bytes, and its fields are those  *)
(* of its first byte: log_id is req, body_len is len, and the provider is  *)
(* __MONITOR__ if probe is true.                                           *)
(*                                                                         *)
(* Fields of the C structures: state, expected (expected_input_len),       *)
(* readbuf (readbuf_size is its length), logId, monitor (the provider is   *)
(* __MONITOR__), isProcessing, hasError.                                   *)
(* Fields of the bufferevent (bundled libevent 2.0.19, created with        *)
(* BEV_OPT_DEFER_CALLBACKS): input, high (the high read watermark, 0 for   *)
(* none; the low one is expected), reading (EV_READ is enabled), and the   *)
(* deferred callbacks that are due, readDue and eventDue.                  *)
(***************************************************************************)
EXTENDS Integers, Sequences, FiniteSets, Functions

CONSTANTS HeadLen,      \* sizeof(nshead_t)
          HighFactor,   \* the high watermark is so many times the low one
          MaxRequests,  \* bound on the requests a client sends on one connection
          Bodies,       \* the lengths of bodies that are sent
          Junk          \* a byte of fresh memory

ASSUME ConnectionAssumption ==
    /\ HeadLen \in Nat \ {0}
    /\ HighFactor \in Nat \ {0}
    /\ MaxRequests \in Nat
    /\ Bodies \subseteq Nat
    /\ \E m \in Bodies : \A b \in Bodies : b <= m

Frame(n, b, p) ==
    [k \in 1 .. HeadLen + b |-> [req |-> n, pos |-> k, len |-> b, probe |-> p]]

BodyOf(n, b) == SubSeq(Frame(n, b, FALSE), HeadLen + 1, HeadLen + b)

Bytes == [req : 1 .. MaxRequests,
          pos : 1 .. HeadLen + (CHOOSE m \in Bodies : \A b \in Bodies : b <= m),
          len : Bodies,
          probe : BOOLEAN]

\* Fresh memory is told from what a client has sent.
ASSUME JunkAssumption == Junk \notin Bytes

ConnType ==
    [state        : {"head", "body", "processing"},
     expected     : Nat,
     readbuf      : Seq(Bytes \cup {Junk}),
     logId        : 0 .. MaxRequests,
     monitor      : BOOLEAN,
     isProcessing : BOOLEAN,
     hasError     : BOOLEAN,
     input        : Seq(Bytes),
     high         : Nat,
     reading      : BOOLEAN,
     readDue      : BOOLEAN,
     eventDue     : BOOLEAN]

-----------------------------------------------------------------------------
(* The bufferevent *)

\* The socket may put m more bytes into the input buffer: reading is enabled,
\* and not suspended because the high watermark is reached.
MayRead(cn, m) ==
    /\ cn.reading
    /\ cn.high # 0 => Len(cn.input) + m <= cn.high

\* bufferevent_readcb takes the bytes bs off the socket.  The read callback is
\* due when the low watermark is reached, and only when data arrive: neither
\* a change of the watermark nor switching reading on looks at what is there.
Arrived(cn, bs) ==
    [cn EXCEPT !.input = @ \o bs,
               !.readDue = @ \/ Len(cn.input) + Len(bs) >= cn.expected]

\* EOF or an error on the socket.
Broken(cn) == [cn EXCEPT !.reading = FALSE, !.eventDue = TRUE]

-----------------------------------------------------------------------------
(* connection.cpp *)

\* nshead_conn_set_expected_input_len
SetExpectedInputLen(cn, size) ==
    [cn EXCEPT !.expected = size, !.high = size * HighFactor]

\* connection_prepare_read
PrepareRead(cn) ==
    [SetExpectedInputLen(cn, HeadLen) EXCEPT !.state = "head", !.reading = TRUE]

\* connection_new, and connection_prepare_read at the end of accept_cb.
NewConnection ==
    PrepareRead([state |-> "head", expected |-> 0, readbuf |-> << >>,
                 logId |-> 0, monitor |-> FALSE,
                 isProcessing |-> FALSE, hasError |-> FALSE,
                 input |-> << >>, high |-> 0, reading |-> FALSE,
                 readDue |-> FALSE, eventDue |-> FALSE])

\* The head that is read next has the magic number: no body byte has.
MagicOK(cn) == \A k \in 1 .. HeadLen : cn.input[k].pos = k

\* Mutant of ReadHead: the log_id is that of the first request.
ReadHead_KeepLogId(cn) ==
    LET len == cn.input[1].len
    IN  [SetExpectedInputLen(cn, len) EXCEPT
            !.input = SubSeq(@, HeadLen + 1, Len(@)),
            !.state = "body",
            !.logId = IF @ = 0 THEN cn.input[1].req ELSE @,
            !.monitor = cn.input[1].probe,
            !.readbuf = IF Len(@) < len THEN [k \in 1 .. len |-> Junk] ELSE @]

\* nshead_conn_read, the head: body_len becomes the watermark, and the buffer
\* is replaced when it is too small.
ReadHead(cn) ==
    LET len == cn.input[1].len
    IN  [SetExpectedInputLen(cn, len) EXCEPT
            !.input = SubSeq(@, HeadLen + 1, Len(@)),
            !.state = "body",
            !.logId = cn.input[1].req, !.monitor = cn.input[1].probe,
            !.readbuf = IF Len(@) < len THEN [k \in 1 .. len |-> Junk] ELSE @]

\* nshead_conn_read, the body: event_read takes whatever is there, up to the
\* size of the buffer, which may be more than the body.
ReadBody(cn) ==
    LET n == IF Len(cn.readbuf) < Len(cn.input) THEN Len(cn.readbuf)
             ELSE Len(cn.input)
    IN  [cn EXCEPT
            !.readbuf = [k \in DOMAIN @ |-> IF k <= n THEN cn.input[k] ELSE @[k]],
            !.input = SubSeq(@, n + 1, Len(@)),
            !.state = "processing"]

\* nshead_conn_read fails on a head without the magic number.  (Its two tests
\* for a short read cannot be true: the length was looked at, and the buffer
\* is at least as large as the body.)
ReadFails(cn) ==
    cn.state = "head" /\ Len(cn.input) >= cn.expected /\ ~MagicOK(cn)

\* Mutant of NsheadConnRead: a body is read before all of it is there.
NsheadConnRead_NoWait(cn) ==
    IF cn.state = "head"
    THEN IF Len(cn.input) >= cn.expected THEN ReadBody(ReadHead(cn)) ELSE cn
    ELSE ReadBody(cn)

\* nshead_conn_read when it does not fail: a head, and the body if all of it
\* is there.  It is done when the state is "processing".
NsheadConnRead(cn) ==
    LET body(c) == IF Len(c.input) >= c.expected THEN ReadBody(c) ELSE c
    IN  IF cn.state = "head"
        THEN IF Len(cn.input) >= cn.expected THEN body(ReadHead(cn)) ELSE cn
        ELSE body(cn)
=============================================================================
