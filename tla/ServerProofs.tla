---------------------------- MODULE ServerProofs ----------------------------
(***************************************************************************)
(* Proofs about the client connections.  What a client has sent and nobody *)
(* has looked at is one stream, part of it in the input buffer and part of *)
(* it still on the way; the read states cut pieces off its front.          *)
(***************************************************************************)
EXTENDS Server, SequenceTheorems, TLAPS

-----------------------------------------------------------------------------
(* One connection *)

NoJunk(s) == \A k \in DOMAIN s : s[k] # Junk

\* The read state goes with the flags and the buffer: a body has room in the
\* buffer, and either the buffer is fresh and will be filled by this body, or
\* all of it was written before.
ConnOK(cn) ==
    /\ cn \in ConnType
    /\ cn.state = "head" => cn.expected = HeadLen
    /\ cn.state = "body" => cn.expected <= Len(cn.readbuf)
    /\ cn.state = "processing" <=> cn.isProcessing
    /\ cn.isProcessing => ~cn.reading /\ ~cn.readDue
    /\ cn.hasError => cn.isProcessing
    /\ cn.state # "head" => cn.logId # 0
    /\ NoJunk(cn.readbuf) \/ (cn.state = "body" /\ Len(cn.readbuf) = cn.expected)

\* What the client has sent and nobody has looked at.
Unread(cn, w) == cn.input \o w

\* Bytes come in the order in which they were sent.
Ordered(s) ==
    \A i, j \in DOMAIN s : i < j =>
        s[i].req < s[j].req \/ (s[i].req = s[j].req /\ s[i].pos < s[j].pos)

\* They come after the head of request n, and before anything is sent after m.
Between(s, n, m) ==
    \A i \in DOMAIN s :
        /\ s[i].req <= m
        /\ s[i].req > n \/ (s[i].req = n /\ s[i].pos > HeadLen)

Increasing(a) == \A j, k \in DOMAIN a : j < k => a[j] < a[k]

\* A request was taken off the stream and not answered.
Pending(cn) == cn.state = "body" \/ (cn.state = "processing" /\ ~cn.monitor)

OrderOK(cn, w, n, a) ==
    /\ w \in Seq(Bytes) /\ n \in 0 .. MaxRequests /\ a \in Seq(1 .. MaxRequests)
    /\ Ordered(Unread(cn, w)) /\ Between(Unread(cn, w), cn.logId, n)
    /\ cn.logId <= n
    /\ Increasing(a)
    /\ \A j \in DOMAIN a : a[j] <= cn.logId
    /\ Pending(cn) => \A j \in DOMAIN a : a[j] < cn.logId

\* The stream is, from offset from on, that of request n with a body of b
\* bytes, as far as it goes.
PartOf(s, from, n, b) ==
    /\ from + Len(s) <= HeadLen + b
    /\ \A i \in DOMAIN s :
         s[i] = [req |-> n, pos |-> from + i, len |-> b, probe |-> FALSE]

\* The client waits for its answers: the stream has what is left of its last
\* request, and nothing once that was answered.
FrameOK(cn, w, n, a) ==
    LET s == Unread(cn, w)
    IN  /\ Len(a) <= n /\ n <= Len(a) + 1
        /\ Len(a) = n => cn.state = "head" /\ s = << >>
        /\ cn.state = "head" => \E b \in Bodies : PartOf(s, 0, n, b)
        /\ cn.state # "head" => /\ cn.logId = n /\ ~cn.monitor
                                /\ cn.expected \in Bodies
        /\ cn.state = "body" => PartOf(s, HeadLen, n, cn.expected)
        /\ cn.state = "processing" =>
             /\ s = << >>
             /\ SubSeq(cn.readbuf, 1, cn.expected) = BodyOf(n, cn.expected)

\* A connection, what is on its way to it, and what its client has sent and
\* got; the client is one that waits if it is plain.
Good(cn, w, n, a, plain) ==
    /\ ConnOK(cn)
    /\ OrderOK(cn, w, n, a)
    /\ plain => FrameOK(cn, w, n, a)

-----------------------------------------------------------------------------
(* The inductive invariant *)

\* A client that has no connection yet is as if it had a new one.
Seen(k) == IF k = NoConn THEN NewConnection ELSE k

View(c) == Seen(conn[c])

\* Who waits to be accepted is there once and has no connection.
Waiting ==
    /\ backlog \in Seq(Clients)
    /\ \A i, j \in DOMAIN backlog : backlog[i] = backlog[j] => i = j
    /\ \A i \in DOMAIN backlog : /\ conn[backlog[i]] = NoConn
                                  /\ peer[backlog[i]] # "away"
    /\ \A c \in Clients : conn[c] # NoConn => peer[c] # "away"

Served(c) ==
    /\ conn[c] = NoConn => answered[c] = << >>
    /\ Good(View(c), net[c], sent[c], answered[c], c \in Plain)

ServerInv ==
    /\ ServerTypeOK
    /\ Waiting
    /\ \A c \in Clients : Served(c)

-----------------------------------------------------------------------------
(* Sequences *)

LEMMA Joined == \A x, y, z \in Seq(Bytes) : (x \o y) \o z = x \o (y \o z)
  BY ConcatAssociative

\* Moving the front of one sequence to the end of another leaves what they
\* make up together.
LEMMA Moved ==
    ASSUME NEW s \in Seq(Bytes), NEW w \in Seq(Bytes), NEW m \in 0 .. Len(w)
    PROVE  /\ SubSeq(w, 1, m) \in Seq(Bytes) /\ Len(SubSeq(w, 1, m)) = m
           /\ SubSeq(w, m + 1, Len(w)) \in Seq(Bytes)
           /\ (s \o SubSeq(w, 1, m)) \o SubSeq(w, m + 1, Len(w)) = s \o w
  <1>1. Len(w) \in Nat /\ Len(s) \in Nat /\ m \in Nat /\ m <= Len(w)
    OBVIOUS
  <1>2. /\ SubSeq(w, 1, m) \in Seq(Bytes) /\ Len(SubSeq(w, 1, m)) = m
        /\ \A i \in 1 .. m : SubSeq(w, 1, m)[i] = w[i]
    <2>1. \A i \in 1 .. m : w[i] \in Bytes
      BY <1>1
    <2>2. /\ SubSeq(w, 1, m) \in Seq(Bytes)
          /\ Len(SubSeq(w, 1, m)) = IF 1 <= m THEN m - 1 + 1 ELSE 0
          /\ \A i \in 1 .. m - 1 + 1 : SubSeq(w, 1, m)[i] = w[1 + i - 1]
      BY <1>1, <2>1, SubSeqProperties
    <2>3. m - 1 + 1 = m /\ \A i \in 1 .. m : 1 + i - 1 = i
      BY <1>1
    <2> QED
      BY <1>1, <2>2, <2>3
  <1>3. /\ SubSeq(w, m + 1, Len(w)) \in Seq(Bytes)
        /\ Len(SubSeq(w, m + 1, Len(w))) = Len(w) - m
        /\ \A i \in 1 .. Len(w) - m : SubSeq(w, m + 1, Len(w))[i] = w[m + i]
    <2>1. \A i \in m + 1 .. Len(w) : w[i] \in Bytes
      BY <1>1
    <2>2. /\ SubSeq(w, m + 1, Len(w)) \in Seq(Bytes)
          /\ Len(SubSeq(w, m + 1, Len(w))) =
               IF m + 1 <= Len(w) THEN Len(w) - (m + 1) + 1 ELSE 0
          /\ \A i \in 1 .. Len(w) - (m + 1) + 1 :
               SubSeq(w, m + 1, Len(w))[i] = w[m + 1 + i - 1]
      BY <1>1, <2>1, SubSeqProperties
    <2>3. /\ Len(w) - (m + 1) + 1 = Len(w) - m
          /\ m + 1 <= Len(w) \/ Len(w) - m = 0
          /\ \A i \in 1 .. Len(w) - m : m + 1 + i - 1 = m + i
      BY <1>1
    <2> QED
      BY <2>2, <2>3
  <1> DEFINE a == SubSeq(w, 1, m)
             z == SubSeq(w, m + 1, Len(w))
  <1>4. a \in Seq(Bytes) /\ z \in Seq(Bytes) /\ Len(a) = m /\ Len(z) = Len(w) - m
    BY <1>2, <1>3
  <1>5. \A i \in 1 .. m : a[i] = w[i]
    BY <1>2
  <1>6. \A i \in 1 .. Len(w) - m : z[i] = w[m + i]
    BY <1>3
  <1> HIDE DEF a, z
  <1>7. a \o z = w
    <2>1. /\ a \o z \in Seq(Bytes) /\ Len(a \o z) = Len(a) + Len(z)
          /\ \A i \in 1 .. Len(a) + Len(z) :
               (a \o z)[i] = IF i <= Len(a) THEN a[i] ELSE z[i - Len(a)]
      BY ONLY <1>4, ConcatProperties
    <2>2. Len(a \o z) = Len(w)
      BY <1>1, <1>4, <2>1
    <2>3. \A i \in 1 .. Len(w) : (a \o z)[i] = w[i]
      <3> SUFFICES ASSUME NEW i \in 1 .. Len(w) PROVE (a \o z)[i] = w[i]
        OBVIOUS
      <3>1. CASE i <= m
        <4>1. i \in 1 .. m /\ i \in 1 .. Len(a) + Len(z)
          BY <1>1, <1>4, <3>1
        <4> QED
          BY <1>4, <1>5, <2>1, <3>1, <4>1
      <3>2. CASE i > m
        <4>1. i - m \in 1 .. Len(w) - m /\ i \in 1 .. Len(a) + Len(z) /\ ~(i <= m)
          BY <1>1, <1>4, <3>2
        <4>2. z[i - m] = w[m + (i - m)]
          BY <1>6, <4>1
        <4>3. m + (i - m) = i
          BY <1>1
        <4> QED
          BY <1>4, <2>1, <4>1, <4>2, <4>3
      <3>3. i <= m \/ i > m
        BY <1>1
      <3> QED
        BY ONLY <3>1, <3>2, <3>3
    <2> QED
      BY <2>1, <2>2, <2>3, SeqEqual
  <1>8. (s \o a) \o z = s \o w
    BY <1>4, <1>7, Joined
  <1> QED
    BY <1>4, <1>8 DEF a, z

\* What is left of s \o w when n elements of s are taken off.
LEMMA Cut ==
    ASSUME NEW s \in Seq(Bytes), NEW w \in Seq(Bytes), NEW n \in 0 .. Len(s)
    PROVE  LET t == SubSeq(s, n + 1, Len(s))
           IN  /\ t \in Seq(Bytes) /\ Len(t) = Len(s) - n
               /\ t \o w \in Seq(Bytes)
               /\ Len(t \o w) = Len(s \o w) - n
               /\ \A i \in 1 .. Len(t \o w) : (t \o w)[i] = (s \o w)[n + i]
  <1> DEFINE t == SubSeq(s, n + 1, Len(s))
  <1>1. Len(w) \in Nat /\ Len(s) \in Nat /\ n \in Nat /\ n <= Len(s)
    OBVIOUS
  <1>3. /\ t \in Seq(Bytes) /\ Len(t) = Len(s) - n
        /\ \A i \in 1 .. Len(s) - n : t[i] = s[n + i]
    <2>1. \A i \in n + 1 .. Len(s) : s[i] \in Bytes
      BY <1>1
    <2>2. /\ t \in Seq(Bytes)
          /\ Len(t) = IF n + 1 <= Len(s) THEN Len(s) - (n + 1) + 1 ELSE 0
          /\ \A i \in 1 .. Len(s) - (n + 1) + 1 : t[i] = s[n + 1 + i - 1]
      BY <1>1, <2>1, SubSeqProperties
    <2>3. /\ Len(s) - (n + 1) + 1 = Len(s) - n
          /\ n + 1 <= Len(s) \/ Len(s) - n = 0
          /\ \A i \in 1 .. Len(s) - n : n + 1 + i - 1 = n + i
      BY <1>1
    <2> HIDE DEF t
    <2> QED
      BY <2>2, <2>3
  <1> HIDE DEF t
  <1>4. /\ t \o w \in Seq(Bytes) /\ Len(t \o w) = Len(s) - n + Len(w)
        /\ Len(s \o w) = Len(s) + Len(w)
        /\ Len(t \o w) = Len(s \o w) - n
    <2>1. t \in Seq(Bytes) /\ w \in Seq(Bytes) /\ s \in Seq(Bytes)
      BY <1>3
    <2>2. /\ t \o w \in Seq(Bytes) /\ Len(t \o w) = Len(t) + Len(w)
          /\ Len(s \o w) = Len(s) + Len(w)
      BY ONLY <2>1, ConcatProperties
    <2> QED
      BY ONLY <1>1, <1>3, <2>2
  <1>5. \A i \in 1 .. Len(t \o w) : (t \o w)[i] = (s \o w)[n + i]
    <2> SUFFICES ASSUME NEW i \in 1 .. Len(t \o w)
                 PROVE  (t \o w)[i] = (s \o w)[n + i]
      OBVIOUS
    <2>1. CASE i <= Len(s) - n
      <3>1. t[i] = s[n + i] /\ n + i \in 1 .. Len(s)
        BY <1>1, <1>3, <2>1
      <3> QED
        BY <1>1, <1>3, <2>1, <3>1
    <2>2. CASE i > Len(s) - n
      <3>1. (t \o w)[i] = w[i - (Len(s) - n)]
        BY <1>1, <1>3, <1>4, <2>2
      <3>2. (s \o w)[n + i] = w[n + i - Len(s)]
        BY <1>1, <1>4, <2>2
      <3>3. n + i - Len(s) = i - (Len(s) - n)
        BY <1>1
      <3> QED
        BY <3>1, <3>2, <3>3
    <2> QED
      BY <1>1, <1>4, <2>1, <2>2
  <1> QED
    BY <1>1, <1>3, <1>4, <1>5 DEF t

LEMMA BothEmpty ==
    ASSUME NEW s \in Seq(Bytes), NEW w \in Seq(Bytes), s \o w = << >>
    PROVE  s = << >> /\ w = << >>
  <1>1. Len(s) \in Nat /\ Len(w) \in Nat /\ Len(s) + Len(w) = 0
    <2>1. Len(s \o w) = Len(s) + Len(w)
      OBVIOUS
    <2> QED
      BY <2>1
  <1>2. Len(s) = 0 /\ Len(w) = 0
    BY ONLY <1>1
  <1> QED
    BY <1>2

-----------------------------------------------------------------------------
(* Operations on a connection *)

\* The bytes of a request.
LEMMA FrameIs ==
    ASSUME NEW n \in 1 .. MaxRequests, NEW b \in Bodies, NEW p \in BOOLEAN
    PROVE  /\ Frame(n, b, p) \in Seq(Bytes)
           /\ Len(Frame(n, b, p)) = HeadLen + b
           /\ \A k \in 1 .. HeadLen + b :
                Frame(n, b, p)[k] = [req |-> n, pos |-> k, len |-> b, probe |-> p]
  <1> DEFINE most == CHOOSE m \in Bodies : \A q \in Bodies : q <= m
  <1>1. HeadLen \in Nat \ {0} /\ Bodies \subseteq Nat /\ b \in Nat
    BY ConnectionAssumption
  <1>2. most \in Bodies /\ b <= most
    BY ConnectionAssumption
  <1>3. Bytes = [req : 1 .. MaxRequests, pos : 1 .. HeadLen + most, len : Bodies,
                 probe : BOOLEAN]
    BY DEF Bytes
  <1> HIDE DEF most
  <1>4. \A k \in 1 .. HeadLen + b : k \in 1 .. HeadLen + most
    BY <1>1, <1>2
  <1>5. \A k \in 1 .. HeadLen + b :
          [req |-> n, pos |-> k, len |-> b, probe |-> p] \in Bytes
    BY <1>3, <1>4
  <1>6. HeadLen + b \in Nat
    BY <1>1
  <1>7. Frame(n, b, p) = [k \in 1 .. HeadLen + b |->
                            [req |-> n, pos |-> k, len |-> b, probe |-> p]]
    BY DEF Frame
  <1>8. Frame(n, b, p) \in [1 .. HeadLen + b -> Bytes]
    BY <1>5, <1>7
  <1>9. Frame(n, b, p) \in Seq(Bytes) /\ Len(Frame(n, b, p)) = HeadLen + b
    BY ONLY <1>6, <1>8
  <1> QED
    BY <1>7, <1>9

LEMMA ByteIs ==
    ASSUME NEW x \in Bytes
    PROVE  /\ x.req \in 1 .. MaxRequests /\ x.pos \in Nat
           /\ x.len \in Bodies /\ x.len \in Nat /\ x.probe \in BOOLEAN
           /\ x = [req |-> x.req, pos |-> x.pos, len |-> x.len, probe |-> x.probe]
  <1> DEFINE most == CHOOSE m \in Bodies : \A q \in Bodies : q <= m
  <1>1. HeadLen \in Nat \ {0} /\ Bodies \subseteq Nat /\ most \in Bodies
    BY ConnectionAssumption
  <1>2. Bytes = [req : 1 .. MaxRequests, pos : 1 .. HeadLen + most, len : Bodies,
                 probe : BOOLEAN]
    BY DEF Bytes
  <1> HIDE DEF most
  <1>3. \A k \in 1 .. HeadLen + most : k \in Nat
    BY <1>1
  <1> QED
    BY <1>1, <1>2, <1>3

LEMMA Numbers ==
    /\ HeadLen \in Nat /\ HeadLen >= 1 /\ HighFactor \in Nat
    /\ MaxRequests \in Nat /\ Bodies \subseteq Nat
    /\ \A k \in Nat : k * HighFactor \in Nat
  BY ConnectionAssumption

LEMMA NumbersGot ==
    ASSUME NEW a \in Seq(1 .. MaxRequests), NEW j \in DOMAIN a
    PROVE  a[j] \in 1 .. MaxRequests /\ a[j] \in Nat
  <1> DEFINE numbers == 1 .. MaxRequests
  <1>1. numbers \subseteq Nat
    BY Numbers
  <1>2. a \in Seq(numbers)
    OBVIOUS
  <1> HIDE DEF numbers
  <1>3. a[j] \in numbers
    BY <1>2
  <1> QED
    BY <1>1, <1>3 DEF numbers

\* connection_prepare_read
LEMMA PrepareReadIs ==
    ASSUME NEW cn \in ConnType
    PROVE  LET p == PrepareRead(cn)
           IN  /\ p \in ConnType
               /\ p.state = "head" /\ p.expected = HeadLen /\ p.reading
               /\ p.readbuf = cn.readbuf /\ p.input = cn.input
               /\ p.logId = cn.logId /\ p.monitor = cn.monitor
               /\ p.isProcessing = cn.isProcessing /\ p.hasError = cn.hasError
               /\ p.readDue = cn.readDue /\ p.eventDue = cn.eventDue
  BY Numbers DEF PrepareRead, SetExpectedInputLen, ConnType

LEMMA NewConnectionIs ==
    LET p == NewConnection
    IN  /\ p \in ConnType
        /\ p.state = "head" /\ p.expected = HeadLen
        /\ p.readbuf = << >> /\ p.input = << >> /\ p.logId = 0
        /\ ~p.monitor /\ ~p.isProcessing /\ ~p.hasError
        /\ ~p.readDue /\ ~p.eventDue
  <1> DEFINE cn == [state |-> "head", expected |-> 0, readbuf |-> << >>,
                    logId |-> 0, monitor |-> FALSE,
                    isProcessing |-> FALSE, hasError |-> FALSE,
                    input |-> << >>, high |-> 0, reading |-> FALSE,
                    readDue |-> FALSE, eventDue |-> FALSE]
  <1>1. cn \in ConnType
    BY Numbers DEF ConnType
  <1>2. /\ cn.readbuf = << >> /\ cn.input = << >> /\ cn.logId = 0
        /\ ~cn.monitor /\ ~cn.isProcessing /\ ~cn.hasError
        /\ ~cn.readDue /\ ~cn.eventDue
    OBVIOUS
  <1>3. NewConnection = PrepareRead(cn)
    BY DEF NewConnection
  <1> HIDE DEF cn
  <1> QED
    BY <1>1, <1>2, <1>3, PrepareReadIs

LEMMA ArrivedIs ==
    ASSUME NEW cn \in ConnType, NEW bs \in Seq(Bytes)
    PROVE  LET p == Arrived(cn, bs)
           IN  /\ p \in ConnType
               /\ p.state = cn.state /\ p.expected = cn.expected
               /\ p.reading = cn.reading /\ p.readbuf = cn.readbuf
               /\ p.input = cn.input \o bs
               /\ p.logId = cn.logId /\ p.monitor = cn.monitor
               /\ p.isProcessing = cn.isProcessing /\ p.hasError = cn.hasError
  <1> DEFINE due == cn.readDue \/ Len(cn.input) + Len(bs) >= cn.expected
             all == cn.input \o bs
  <1>1. due \in BOOLEAN /\ all \in Seq(Bytes)
    BY DEF ConnType
  <1>2. Arrived(cn, bs) = [cn EXCEPT !.input = all, !.readDue = due]
    BY DEF Arrived
  <1> HIDE DEF due, all
  <1>3. Arrived(cn, bs) \in ConnType
    BY <1>1, <1>2 DEF ConnType
  <1>4. LET p == Arrived(cn, bs)
        IN  /\ p.state = cn.state /\ p.expected = cn.expected
            /\ p.reading = cn.reading /\ p.readbuf = cn.readbuf
            /\ p.input = all
            /\ p.logId = cn.logId /\ p.monitor = cn.monitor
            /\ p.isProcessing = cn.isProcessing /\ p.hasError = cn.hasError
    BY <1>2 DEF ConnType
  <1> QED
    BY <1>3, <1>4 DEF all

LEMMA BrokenIs ==
    ASSUME NEW cn \in ConnType
    PROVE  LET p == Broken(cn)
           IN  /\ p \in ConnType
               /\ p.state = cn.state /\ p.expected = cn.expected
               /\ ~p.reading /\ p.readbuf = cn.readbuf /\ p.input = cn.input
               /\ p.logId = cn.logId /\ p.monitor = cn.monitor
               /\ p.isProcessing = cn.isProcessing /\ p.hasError = cn.hasError
               /\ p.readDue = cn.readDue
  BY DEF Broken, ConnType

\* connection_read_cb and connection_event_cb are about to run.
Called(cn) == [cn EXCEPT !.readDue = FALSE, !.eventDue = FALSE]

LEMMA CalledIs ==
    ASSUME NEW cn \in ConnType
    PROVE  LET p == Called(cn)
           IN  /\ p \in ConnType
               /\ p.state = cn.state /\ p.expected = cn.expected
               /\ p.reading = cn.reading /\ p.readbuf = cn.readbuf
               /\ p.input = cn.input
               /\ p.logId = cn.logId /\ p.monitor = cn.monitor
               /\ p.isProcessing = cn.isProcessing /\ p.hasError = cn.hasError
               /\ ~p.readDue
  BY DEF Called, ConnType

\* nshead_conn_read, the head.
LEMMA ReadHeadIs ==
    ASSUME NEW cn, ConnOK(cn), cn.state = "head", Len(cn.input) >= cn.expected
    PROVE  LET g == ReadHead(cn)
               x == cn.input[1]
           IN  /\ x \in Bytes /\ HeadLen \in 0 .. Len(cn.input)
               /\ g \in ConnType
               /\ g.state = "body" /\ g.expected = x.len
               /\ g.logId = x.req /\ g.monitor = x.probe
               /\ g.input = SubSeq(cn.input, HeadLen + 1, Len(cn.input))
               /\ g.expected <= Len(g.readbuf)
               /\ NoJunk(g.readbuf) \/ Len(g.readbuf) = g.expected
               /\ g.isProcessing = cn.isProcessing /\ g.hasError = cn.hasError
               /\ g.reading = cn.reading
               /\ g.readDue = cn.readDue /\ g.eventDue = cn.eventDue
  <1> DEFINE g == ReadHead(cn)
             x == cn.input[1]
             fresh == [k \in 1 .. x.len |-> Junk]
             left == SubSeq(cn.input, HeadLen + 1, Len(cn.input))
  <1>1. cn \in ConnType /\ cn.expected = HeadLen /\ NoJunk(cn.readbuf)
    BY DEF ConnOK
  <1>2. /\ cn.input \in Seq(Bytes) /\ cn.readbuf \in Seq(Bytes \cup {Junk})
        /\ cn.logId \in 0 .. MaxRequests
    BY <1>1 DEF ConnType
  <1>3. HeadLen \in 1 .. Len(cn.input)
    BY <1>1, <1>2, Numbers
  <1>4. x \in Bytes
    BY <1>2, <1>3
  <1>5. /\ x.req \in 1 .. MaxRequests /\ x.len \in Nat /\ x.probe \in BOOLEAN
    BY <1>4, ByteIs
  <1>6. left \in Seq(Bytes)
    <2>1. HeadLen \in 0 .. Len(cn.input) /\ << >> \in Seq(Bytes)
      BY <1>3
    <2> QED
      BY <1>2, <2>1, Cut
  <1>7. /\ fresh \in Seq(Bytes \cup {Junk}) /\ Len(fresh) = x.len
    BY <1>5
  <1> DEFINE buffer == IF Len(cn.readbuf) < x.len THEN fresh ELSE cn.readbuf
  <1>8. /\ buffer \in Seq(Bytes \cup {Junk})
        /\ x.len <= Len(buffer)
        /\ NoJunk(buffer) \/ Len(buffer) = x.len
    BY <1>1, <1>2, <1>5, <1>7
  <1>9. g = [cn EXCEPT !.expected = x.len, !.high = x.len * HighFactor,
                       !.input = left, !.state = "body", !.logId = x.req,
                       !.monitor = x.probe, !.readbuf = buffer]
    <2> HIDE DEF x, fresh
    <2> QED
      BY <1>1 DEF ReadHead, SetExpectedInputLen, ConnType, x, fresh
  <1>10. x.len * HighFactor \in Nat
    BY <1>5, Numbers
  <1> HIDE DEF x, fresh, left, buffer, g
  <1>14. g \in ConnType
    <2> DEFINE h == [cn EXCEPT !.expected = x.len, !.high = x.len * HighFactor,
                               !.input = left, !.state = "body"]
    <2>1. h \in ConnType
      BY <1>1, <1>5, <1>6, <1>10 DEF ConnType
    <2>2. g = [h EXCEPT !.logId = x.req, !.monitor = x.probe, !.readbuf = buffer]
      BY <1>9
    <2>3. x.req \in 0 .. MaxRequests /\ x.probe \in BOOLEAN
      BY <1>5, Numbers
    <2>4. buffer \in Seq(Bytes \cup {Junk})
      BY <1>8
    <2> HIDE DEF h
    <2> QED
      BY <2>1, <2>2, <2>3, <2>4 DEF ConnType
  <1>11. /\ g.state = "body" /\ g.expected = x.len
         /\ g.logId = x.req /\ g.monitor = x.probe
         /\ g.input = left /\ g.readbuf = buffer
         /\ g.isProcessing = cn.isProcessing /\ g.hasError = cn.hasError
         /\ g.reading = cn.reading
         /\ g.readDue = cn.readDue /\ g.eventDue = cn.eventDue
    BY <1>1, <1>9 DEF ConnType
  <1>12. HeadLen \in 0 .. Len(cn.input)
    BY <1>3
  <1>13. /\ g.expected <= Len(g.readbuf)
         /\ NoJunk(g.readbuf) \/ Len(g.readbuf) = g.expected
    BY <1>8, <1>11
  <1> QED
    BY <1>4, <1>11, <1>12, <1>13, <1>14 DEF g, x, left

\* nshead_conn_read, the body: all of it is there, and as much of what is
\* behind it as there is room for.
LEMMA ReadBodyIs ==
    ASSUME NEW cn \in ConnType, cn.expected <= Len(cn.readbuf),
           Len(cn.input) >= cn.expected,
           NoJunk(cn.readbuf) \/ Len(cn.readbuf) = cn.expected
    PROVE  \E n \in 0 .. Len(cn.input) :
               LET g == ReadBody(cn)
               IN  /\ n >= cn.expected
                   /\ Len(cn.readbuf) < Len(cn.input) \/ n = Len(cn.input)
                   /\ g \in ConnType
                   /\ g.state = "processing" /\ g.expected = cn.expected
                   /\ g.logId = cn.logId /\ g.monitor = cn.monitor
                   /\ g.input = SubSeq(cn.input, n + 1, Len(cn.input))
                   /\ g.readbuf \in Seq(Bytes \cup {Junk}) /\ n <= Len(g.readbuf)
                   /\ \A k \in 1 .. n : g.readbuf[k] = cn.input[k]
                   /\ NoJunk(g.readbuf)
                   /\ g.isProcessing = cn.isProcessing /\ g.hasError = cn.hasError
                   /\ g.reading = cn.reading
                   /\ g.readDue = cn.readDue /\ g.eventDue = cn.eventDue
  <1> DEFINE g == ReadBody(cn)
             n == IF Len(cn.readbuf) < Len(cn.input) THEN Len(cn.readbuf)
                  ELSE Len(cn.input)
             buffer == [k \in DOMAIN cn.readbuf |->
                          IF k <= n THEN cn.input[k] ELSE cn.readbuf[k]]
             left == SubSeq(cn.input, n + 1, Len(cn.input))
  <1>1. /\ cn.input \in Seq(Bytes) /\ cn.readbuf \in Seq(Bytes \cup {Junk})
        /\ cn.expected \in Nat
    BY DEF ConnType
  <1>2. /\ n \in 0 .. Len(cn.input) /\ n >= cn.expected /\ n <= Len(cn.readbuf)
        /\ Len(cn.readbuf) < Len(cn.input) \/ n = Len(cn.input)
    BY <1>1
  <1>3. g = [cn EXCEPT !.readbuf = buffer, !.input = left, !.state = "processing"]
    BY DEF ReadBody
  <1> HIDE DEF n
  <1>4. left \in Seq(Bytes)
    <2>1. << >> \in Seq(Bytes)
      OBVIOUS
    <2> QED
      BY <1>1, <1>2, <2>1, Cut
  <1>5. \A k \in 1 .. Len(cn.readbuf) :
          /\ buffer[k] = IF k <= n THEN cn.input[k] ELSE cn.readbuf[k]
          /\ k <= n => cn.input[k] \in Bytes
          /\ cn.readbuf[k] \in Bytes \cup {Junk}
    BY <1>1, <1>2
  <1>6. buffer \in [1 .. Len(cn.readbuf) -> Bytes \cup {Junk}]
    <2>1. DOMAIN cn.readbuf = 1 .. Len(cn.readbuf)
      BY <1>1
    <2>2. \A k \in 1 .. Len(cn.readbuf) : buffer[k] \in Bytes \cup {Junk}
      <3> HIDE DEF buffer
      <3> QED
        BY <1>5
    <2>3. buffer = [k \in 1 .. Len(cn.readbuf) |-> buffer[k]]
      BY <2>1
    <2> HIDE DEF buffer
    <2> QED
      BY <2>2, <2>3
  <1>7. buffer \in Seq(Bytes \cup {Junk}) /\ Len(buffer) = Len(cn.readbuf)
    <2> HIDE DEF buffer
    <2> QED
      BY <1>1, <1>6
  <1>8. \A k \in 1 .. n : buffer[k] = cn.input[k]
    BY <1>1, <1>2, <1>5
  <1>9. NoJunk(buffer)
    <2> SUFFICES ASSUME NEW k \in 1 .. Len(cn.readbuf) PROVE buffer[k] # Junk
      BY <1>6 DEF NoJunk
    <2>1. CASE k <= n
      BY <1>5, <2>1, JunkAssumption
    <2>2. CASE ~(k <= n)
      <3>1. Len(cn.readbuf) # cn.expected
        BY <1>1, <1>2, <2>2
      <3>2. cn.readbuf[k] # Junk
        BY <1>1, <3>1 DEF NoJunk
      <3> QED
        BY <1>5, <2>2, <3>2
    <2> QED
      BY <2>1, <2>2
  <1> HIDE DEF buffer, left, g
  <1>10. g \in ConnType
    BY <1>3, <1>4, <1>7 DEF ConnType
  <1>11. /\ g.state = "processing" /\ g.expected = cn.expected
         /\ g.logId = cn.logId /\ g.monitor = cn.monitor
         /\ g.input = left /\ g.readbuf = buffer
         /\ g.isProcessing = cn.isProcessing /\ g.hasError = cn.hasError
         /\ g.reading = cn.reading
         /\ g.readDue = cn.readDue /\ g.eventDue = cn.eventDue
    BY <1>3 DEF ConnType
  <1> QED
    BY <1>2, <1>7, <1>8, <1>9, <1>10, <1>11 DEF left, g

\* read_done_cb
Taken(g) == [g EXCEPT !.isProcessing = TRUE, !.reading = FALSE]

LEMMA TakenIs ==
    ASSUME NEW cn \in ConnType
    PROVE  LET p == Taken(cn)
           IN  /\ p \in ConnType
               /\ p.state = cn.state /\ p.expected = cn.expected
               /\ p.readbuf = cn.readbuf /\ p.input = cn.input
               /\ p.logId = cn.logId /\ p.monitor = cn.monitor
               /\ p.isProcessing /\ p.hasError = cn.hasError
               /\ ~p.reading
               /\ p.readDue = cn.readDue /\ p.eventDue = cn.eventDue
  BY DEF Taken, ConnType

\* server_process_done without an error
Released(cn) == PrepareRead([cn EXCEPT !.isProcessing = FALSE])

LEMMA ReleasedIs ==
    ASSUME NEW cn \in ConnType
    PROVE  LET p == Released(cn)
           IN  /\ p \in ConnType
               /\ p.state = "head" /\ p.expected = HeadLen
               /\ p.readbuf = cn.readbuf /\ p.input = cn.input
               /\ p.logId = cn.logId
               /\ ~p.isProcessing /\ p.hasError = cn.hasError
  <1> DEFINE h == [cn EXCEPT !.isProcessing = FALSE]
  <1>1. /\ h \in ConnType
        /\ h.readbuf = cn.readbuf /\ h.input = cn.input /\ h.logId = cn.logId
        /\ ~h.isProcessing /\ h.hasError = cn.hasError
    BY DEF ConnType
  <1>2. Released(cn) = PrepareRead(h)
    BY DEF Released
  <1> HIDE DEF h
  <1> QED
    BY <1>1, <1>2, PrepareReadIs

-----------------------------------------------------------------------------
(* What the operations keep *)

\* What is true of a stream is true of the end of it.
LEMMA Later ==
    ASSUME NEW s \in Seq(Bytes), NEW t \in Seq(Bytes), NEW k \in Nat,
           Len(t) + k <= Len(s), \A i \in 1 .. Len(t) : t[i] = s[k + i]
    PROVE  /\ Ordered(s) => Ordered(t)
           /\ \A n, m : Between(s, n, m) => Between(t, n, m)
  <1>1. \A i \in 1 .. Len(t) : k + i \in 1 .. Len(s)
    OBVIOUS
  <1>2. DOMAIN s = 1 .. Len(s) /\ DOMAIN t = 1 .. Len(t)
    OBVIOUS
  <1>3. \A i, j \in 1 .. Len(t) : i < j => k + i < k + j
    OBVIOUS
  <1>4. ASSUME Ordered(s) PROVE Ordered(t)
    <2> SUFFICES ASSUME NEW i \in 1 .. Len(t), NEW j \in 1 .. Len(t), i < j
                 PROVE  \/ t[i].req < t[j].req
                        \/ t[i].req = t[j].req /\ t[i].pos < t[j].pos
      BY <1>2 DEF Ordered
    <2>1. t[i] = s[k + i] /\ t[j] = s[k + j] /\ k + i < k + j
      BY <1>3
    <2>2. k + i \in DOMAIN s /\ k + j \in DOMAIN s
      BY <1>1, <1>2
    <2>3. \/ s[k + i].req < s[k + j].req
          \/ s[k + i].req = s[k + j].req /\ s[k + i].pos < s[k + j].pos
      BY <1>4, <2>1, <2>2 DEF Ordered
    <2> QED
      BY <2>1, <2>3
  <1>5. ASSUME NEW n, NEW m, Between(s, n, m) PROVE Between(t, n, m)
    <2> SUFFICES ASSUME NEW i \in 1 .. Len(t)
                 PROVE  /\ t[i].req <= m
                        /\ \/ t[i].req > n
                           \/ t[i].req = n /\ t[i].pos > HeadLen
      BY <1>2 DEF Between
    <2>1. t[i] = s[k + i] /\ k + i \in DOMAIN s
      BY <1>1, <1>2
    <2>2. /\ s[k + i].req <= m
          /\ \/ s[k + i].req > n
             \/ s[k + i].req = n /\ s[k + i].pos > HeadLen
      BY <1>5, <2>1 DEF Between
    <2> QED
      BY <2>1, <2>2
  <1> QED
    BY <1>4, <1>5

LEMMA UnreadIs ==
    ASSUME NEW cn \in ConnType, NEW w \in Seq(Bytes)
    PROVE  /\ cn.input \in Seq(Bytes)
           /\ Unread(cn, w) \in Seq(Bytes)
           /\ Len(Unread(cn, w)) = Len(cn.input) + Len(w)
           /\ \A i \in 1 .. Len(cn.input) : Unread(cn, w)[i] = cn.input[i]
  <1>1. cn.input \in Seq(Bytes)
    BY DEF ConnType
  <1> QED
    BY <1>1 DEF Unread

LEMMA NewConnectionOK ==
    ASSUME NEW q \in BOOLEAN PROVE Good(NewConnection, << >>, 0, << >>, q)
  <1>1. /\ << >> \in Seq(Bytes) /\ << >> \in Seq(1 .. MaxRequests) /\ Len(<< >>) = 0
        /\ 0 \in 0 .. MaxRequests /\ DOMAIN << >> = {}
    BY Numbers
  <1>2. Unread(NewConnection, << >>) = << >>
    BY NewConnectionIs, ConcatEmptySeq, <1>1 DEF Unread
  <1>3. ConnOK(NewConnection)
    BY NewConnectionIs DEF ConnOK, NoJunk
  <1>4. OrderOK(NewConnection, << >>, 0, << >>)
    BY <1>1, <1>2, NewConnectionIs
    DEF OrderOK, Ordered, Between, Increasing, Pending
  <1>5. FrameOK(NewConnection, << >>, 0, << >>)
    <2>1. PICK b \in Bodies : b \in Nat
      BY ConnectionAssumption
    <2>2. PartOf(<< >>, 0, 0, b)
      BY <1>1, <2>1, Numbers DEF PartOf
    <2> QED
      BY <1>1, <1>2, <2>2, NewConnectionIs DEF FrameOK
  <1> QED
    BY <1>3, <1>4, <1>5 DEF Good

\* A client sends a request.
LEMMA SendOK ==
    ASSUME NEW cn, NEW w, NEW n, NEW a, NEW q \in BOOLEAN, Good(cn, w, n, a, q),
           n < MaxRequests, NEW b \in Bodies, NEW p \in BOOLEAN,
           q => Len(a) = n /\ ~p
    PROVE  Good(cn, w \o Frame(n + 1, b, p), n + 1, a, q)
  <1> DEFINE f == Frame(n + 1, b, p)
             s == Unread(cn, w)
             t == Unread(cn, w \o f)
  <1>0. ConnOK(cn) /\ OrderOK(cn, w, n, a)
    BY DEF Good
  <1>1. /\ cn \in ConnType /\ cn.input \in Seq(Bytes) /\ cn.logId \in 0 .. MaxRequests
        /\ w \in Seq(Bytes) /\ n \in 0 .. MaxRequests /\ a \in Seq(1 .. MaxRequests)
        /\ n \in Nat /\ n + 1 \in 1 .. MaxRequests /\ b \in Nat
    BY <1>0, Numbers DEF ConnOK, ConnType, OrderOK
  <1>2. /\ f \in Seq(Bytes) /\ Len(f) = HeadLen + b
        /\ \A k \in 1 .. HeadLen + b :
             f[k] = [req |-> n + 1, pos |-> k, len |-> b, probe |-> p]
    BY <1>1, FrameIs
  <1>3. s \in Seq(Bytes)
    BY <1>1, UnreadIs
  <1> HIDE DEF f
  <1>4. t = s \o f
    <2>1. cn.input \in Seq(Bytes) /\ w \in Seq(Bytes) /\ f \in Seq(Bytes)
      BY <1>1, <1>2
    <2>2. (cn.input \o w) \o f = cn.input \o (w \o f)
      BY <2>1, Joined
    <2> QED
      BY <2>2 DEF Unread
  <1> HIDE DEF s, t
  <1>5. /\ t \in Seq(Bytes) /\ Len(t) = Len(s) + Len(f)
        /\ \A i \in 1 .. Len(s) : t[i] = s[i]
        /\ \A i \in 1 .. Len(t) : i > Len(s) =>
             /\ i - Len(s) \in 1 .. HeadLen + b
             /\ t[i] = f[i - Len(s)]
    <2>1. /\ t \in Seq(Bytes) /\ Len(t) = Len(s) + Len(f)
          /\ \A i \in 1 .. Len(s) + Len(f) :
               t[i] = IF i <= Len(s) THEN s[i] ELSE f[i - Len(s)]
      BY ONLY <1>2, <1>3, <1>4, ConcatProperties
    <2>2. Len(s) \in Nat /\ Len(f) \in Nat
      BY <1>2, <1>3
    <2>3. \A i \in 1 .. Len(s) : i \in 1 .. Len(s) + Len(f) /\ i <= Len(s)
      BY <2>2
    <2>4. \A i \in 1 .. Len(s) + Len(f) :
            i > Len(s) => i - Len(s) \in 1 .. Len(f) /\ ~(i <= Len(s))
      BY <2>2
    <2> QED
      BY ONLY <1>2, <2>1, <2>3, <2>4
  <1>6. \A i \in 1 .. Len(t) : i > Len(s) =>
             t[i].req = n + 1 /\ t[i].pos = i - Len(s)
    BY <1>2, <1>5
  <1>7. \A i \in 1 .. Len(s) : t[i].req <= n
    <2>1. DOMAIN s = 1 .. Len(s)
      BY <1>3
    <2>2. Between(s, cn.logId, n)
      BY <1>0 DEF OrderOK, s
    <2>3. \A i \in 1 .. Len(s) : s[i].req <= n
      BY <2>1, <2>2 DEF Between
    <2> QED
      BY <1>5, <2>3
  <1>8. \A i \in 1 .. Len(t) : t[i].req \in Nat /\ t[i].pos \in Nat
    BY <1>5, ByteIs
  <1>9. Ordered(t)
    <2> SUFFICES ASSUME NEW i \in 1 .. Len(t), NEW j \in 1 .. Len(t), i < j
                 PROVE  \/ t[i].req < t[j].req
                        \/ t[i].req = t[j].req /\ t[i].pos < t[j].pos
      BY <1>5 DEF Ordered
    <2>1. CASE j <= Len(s)
      <3>1. i \in 1 .. Len(s) /\ j \in 1 .. Len(s)
        BY <1>3, <2>1
      <3>2. \/ s[i].req < s[j].req
            \/ s[i].req = s[j].req /\ s[i].pos < s[j].pos
        BY <1>0, <1>3, <3>1 DEF OrderOK, Ordered, s
      <3> QED
        BY <1>5, <3>1, <3>2
    <2>2. CASE i <= Len(s) /\ j > Len(s)
      <3>1. i \in 1 .. Len(s)
        BY <1>3, <2>2
      <3> QED
        BY <1>1, <1>6, <1>7, <1>8, <2>2, <3>1
    <2>3. CASE i > Len(s)
      <3>1. j > Len(s)
        BY <1>3, <2>3
      <3> QED
        BY <1>3, <1>6, <2>3, <3>1
    <2> QED
      BY <1>3, <2>1, <2>2, <2>3
  <1>10. Between(t, cn.logId, n + 1)
    <2> SUFFICES ASSUME NEW i \in 1 .. Len(t)
                 PROVE  /\ t[i].req <= n + 1
                        /\ \/ t[i].req > cn.logId
                           \/ t[i].req = cn.logId /\ t[i].pos > HeadLen
      BY <1>5 DEF Between
    <2>1. CASE i <= Len(s)
      <3>1. i \in 1 .. Len(s)
        BY <1>3, <2>1
      <3>2. t[i] = s[i] /\ i \in DOMAIN s
        BY <1>3, <1>5, <3>1
      <3>3. Between(s, cn.logId, n)
        BY <1>0 DEF OrderOK, s
      <3>4. /\ s[i].req <= n
            /\ \/ s[i].req > cn.logId
               \/ s[i].req = cn.logId /\ s[i].pos > HeadLen
        BY <3>2, <3>3 DEF Between
      <3> QED
        BY <1>1, <1>8, <3>2, <3>4
    <2>2. CASE i > Len(s)
      BY <1>0, <1>1, <1>6, <2>2 DEF OrderOK
    <2> QED
      BY <1>3, <2>1, <2>2
  <1>11. OrderOK(cn, w \o f, n + 1, a)
    <2>1. w \o f \in Seq(Bytes) /\ n + 1 \in 0 .. MaxRequests /\ cn.logId <= n + 1
      BY <1>0, <1>1, <1>2 DEF OrderOK
    <2> QED
      BY <1>0, <1>9, <1>10, <2>1 DEF OrderOK, t
  <1>12. ASSUME q PROVE FrameOK(cn, w \o f, n + 1, a)
    <2>1. cn.state = "head" /\ s = << >>
      BY <1>12 DEF Good, FrameOK, s
    <2>2. t = f
      BY <1>2, <1>4, <2>1
    <2>3. PartOf(t, 0, n + 1, b)
      BY <1>2, <1>12, <2>2, Numbers, <1>1 DEF PartOf
    <2> QED
      BY <1>1, <1>12, <2>1, <2>3 DEF FrameOK, t
  <1> QED
    BY <1>0, <1>11, <1>12 DEF f, Good

\* Bytes come in, if the connection reads at all.
LEMMA ArrivedOK ==
    ASSUME NEW cn, NEW w, NEW n, NEW a, NEW q \in BOOLEAN, Good(cn, w, n, a, q),
           cn.reading, NEW m \in 0 .. Len(w)
    PROVE  Good(Arrived(cn, SubSeq(w, 1, m)), SubSeq(w, m + 1, Len(w)), n, a, q)
  <1> DEFINE bs == SubSeq(w, 1, m)
             rest == SubSeq(w, m + 1, Len(w))
             p == Arrived(cn, bs)
  <1>1. ConnOK(cn) /\ OrderOK(cn, w, n, a) /\ (q => FrameOK(cn, w, n, a))
    BY DEF Good
  <1>2. cn \in ConnType /\ w \in Seq(Bytes)
    BY <1>1 DEF ConnOK, OrderOK
  <1>3. cn.input \in Seq(Bytes)
    BY <1>2, UnreadIs
  <1>4. /\ bs \in Seq(Bytes) /\ rest \in Seq(Bytes)
        /\ (cn.input \o bs) \o rest = cn.input \o w
    <2>1. w \in Seq(Bytes) /\ cn.input \in Seq(Bytes) /\ m \in 0 .. Len(w)
      BY <1>2, <1>3
    <2>2. \A x, y \in Seq(Bytes) : \A k \in 0 .. Len(y) :
            /\ SubSeq(y, 1, k) \in Seq(Bytes)
            /\ SubSeq(y, k + 1, Len(y)) \in Seq(Bytes)
            /\ (x \o SubSeq(y, 1, k)) \o SubSeq(y, k + 1, Len(y)) = x \o y
      BY Moved
    <2> HIDE DEF bs, rest
    <2>3. /\ SubSeq(w, 1, m) \in Seq(Bytes)
          /\ SubSeq(w, m + 1, Len(w)) \in Seq(Bytes)
          /\ (cn.input \o SubSeq(w, 1, m)) \o SubSeq(w, m + 1, Len(w)) = cn.input \o w
      BY ONLY <2>1, <2>2
    <2> QED
      BY <2>3 DEF bs, rest
  <1> HIDE DEF bs, rest
  <1>5. /\ p \in ConnType
        /\ p.state = cn.state /\ p.expected = cn.expected
        /\ p.reading = cn.reading /\ p.readbuf = cn.readbuf
        /\ p.input = cn.input \o bs
        /\ p.logId = cn.logId /\ p.monitor = cn.monitor
        /\ p.isProcessing = cn.isProcessing /\ p.hasError = cn.hasError
    BY <1>2, <1>4, ArrivedIs
  <1> HIDE DEF p
  <1>6. Unread(p, rest) = Unread(cn, w)
    BY <1>4, <1>5 DEF Unread
  <1>7. ConnOK(p)
    BY <1>1, <1>5 DEF ConnOK
  <1>8. OrderOK(p, rest, n, a)
    BY <1>1, <1>4, <1>5, <1>6 DEF OrderOK, Pending
  <1>9. ASSUME q PROVE FrameOK(p, rest, n, a)
    BY <1>1, <1>5, <1>6, <1>9 DEF FrameOK
  <1> QED
    BY <1>7, <1>8, <1>9 DEF Good, p, bs, rest

\* What is on the way is lost.
LEMMA LostOK ==
    ASSUME NEW cn, NEW w, NEW n, NEW a, NEW q \in BOOLEAN, Good(cn, w, n, a, q)
    PROVE  Good(cn, << >>, n, a, q)
  <1> DEFINE s == Unread(cn, w)
             t == Unread(cn, << >>)
  <1>1. ConnOK(cn) /\ OrderOK(cn, w, n, a) /\ (q => FrameOK(cn, w, n, a))
    BY DEF Good
  <1>2. cn \in ConnType /\ w \in Seq(Bytes) /\ << >> \in Seq(Bytes)
    BY <1>1 DEF ConnOK, OrderOK
  <1>3. /\ cn.input \in Seq(Bytes)
        /\ s \in Seq(Bytes) /\ Len(s) = Len(cn.input) + Len(w)
        /\ \A i \in 1 .. Len(cn.input) : s[i] = cn.input[i]
    BY <1>2, UnreadIs
  <1>4. t = cn.input
    BY <1>3, ConcatEmptySeq DEF Unread
  <1> HIDE DEF s, t
  <1>5. /\ t \in Seq(Bytes) /\ Len(t) <= Len(s)
        /\ \A i \in 1 .. Len(t) : t[i] = s[i]
    BY <1>2, <1>3, <1>4
  <1>6. /\ Ordered(s) => Ordered(t)
        /\ \A k, m : Between(s, k, m) => Between(t, k, m)
    <2>1. /\ s \in Seq(Bytes) /\ t \in Seq(Bytes) /\ 0 \in Nat /\ Len(t) + 0 <= Len(s)
          /\ \A i \in 1 .. Len(t) : t[i] = s[0 + i]
      BY <1>3, <1>5
    <2> QED
      BY ONLY <2>1, Later
  <1>7. OrderOK(cn, << >>, n, a)
    BY <1>1, <1>2, <1>6 DEF OrderOK, s, t
  <1>8. ASSUME NEW from, NEW b \in Nat, from \in Nat, PartOf(s, from, n, b)
        PROVE  PartOf(t, from, n, b)
    <2>1. DOMAIN s = 1 .. Len(s) /\ DOMAIN t = 1 .. Len(t) /\ HeadLen \in Nat
      BY <1>3, <1>5, Numbers
    <2>2. from + Len(t) <= HeadLen + b
      BY <1>3, <1>5, <1>8, <2>1 DEF PartOf
    <2>3. ASSUME NEW i \in 1 .. Len(t)
          PROVE  t[i] = [req |-> n, pos |-> from + i, len |-> b, probe |-> FALSE]
      <3>1. i \in DOMAIN s /\ t[i] = s[i]
        BY <1>3, <1>5, <2>1
      <3> QED
        BY <1>8, <3>1 DEF PartOf
    <2> QED
      BY <2>1, <2>2, <2>3 DEF PartOf
  <1>9. ASSUME q PROVE FrameOK(cn, << >>, n, a)
    <2>1. FrameOK(cn, w, n, a) /\ cn.expected \in Nat
      BY <1>1, <1>2, <1>9 DEF ConnType
    <2>2. s = << >> => t = << >>
      BY <1>3, <1>5
    <2>3. cn.state = "head" => \E b \in Bodies : PartOf(t, 0, n, b)
      BY <1>8, <2>1, Numbers DEF FrameOK, s
    <2>4. cn.state = "body" => PartOf(t, HeadLen, n, cn.expected)
      BY <1>8, <2>1, Numbers DEF FrameOK, s
    <2> QED
      BY <2>1, <2>2, <2>3, <2>4 DEF FrameOK, s, t
  <1> QED
    BY <1>1, <1>7, <1>9 DEF Good

\* Whatever the connection is told, as long as state and buffers stay.
LEMMA ToldOK ==
    ASSUME NEW cn, NEW w, NEW n, NEW a, NEW q \in BOOLEAN, Good(cn, w, n, a, q),
           NEW p \in ConnType,
           p.state = cn.state, p.expected = cn.expected, p.readbuf = cn.readbuf,
           p.input = cn.input, p.logId = cn.logId, p.monitor = cn.monitor,
           p.isProcessing = cn.isProcessing,
           p.hasError => p.isProcessing,
           p.reading => cn.reading, p.readDue => cn.readDue
    PROVE  Good(p, w, n, a, q)
  <1>1. ConnOK(cn) /\ OrderOK(cn, w, n, a) /\ (q => FrameOK(cn, w, n, a))
    BY DEF Good
  <1>2. Unread(p, w) = Unread(cn, w)
    BY DEF Unread
  <1>3. ConnOK(p)
    BY <1>1 DEF ConnOK
  <1>4. OrderOK(p, w, n, a)
    BY <1>1, <1>2 DEF OrderOK, Pending
  <1>5. q => FrameOK(p, w, n, a)
    BY <1>1, <1>2 DEF FrameOK
  <1> QED
    BY <1>3, <1>4, <1>5 DEF Good

\* A head is read: its request has not been seen before.
LEMMA HeadOK ==
    ASSUME NEW cn, NEW w, NEW n, NEW a, NEW q \in BOOLEAN, Good(cn, w, n, a, q),
           cn.state = "head", Len(cn.input) >= cn.expected, MagicOK(cn)
    PROVE  Good(ReadHead(cn), w, n, a, q)
  <1> DEFINE g == ReadHead(cn)
             x == cn.input[1]
             s == Unread(cn, w)
             t == Unread(g, w)
  <1>1. ConnOK(cn) /\ OrderOK(cn, w, n, a) /\ (q => FrameOK(cn, w, n, a))
    BY DEF Good
  <1>2. /\ cn \in ConnType /\ w \in Seq(Bytes) /\ cn.expected = HeadLen
        /\ ~cn.isProcessing /\ ~cn.hasError
        /\ n \in Nat /\ cn.logId \in Nat /\ a \in Seq(1 .. MaxRequests)
    BY <1>1, Numbers DEF ConnOK, OrderOK, ConnType
  <1>3. /\ x \in Bytes /\ HeadLen \in 0 .. Len(cn.input)
        /\ g \in ConnType
        /\ g.state = "body" /\ g.expected = x.len
        /\ g.logId = x.req /\ g.monitor = x.probe
        /\ g.input = SubSeq(cn.input, HeadLen + 1, Len(cn.input))
        /\ g.expected <= Len(g.readbuf)
        /\ NoJunk(g.readbuf) \/ Len(g.readbuf) = g.expected
        /\ g.isProcessing = cn.isProcessing /\ g.hasError = cn.hasError
    BY <1>1, ReadHeadIs
  <1>4. x.req \in 1 .. MaxRequests /\ x.len \in Bodies /\ x.len \in Nat
    BY <1>3, ByteIs
  <1>5. /\ cn.input \in Seq(Bytes)
        /\ s \in Seq(Bytes) /\ Len(s) = Len(cn.input) + Len(w)
        /\ \A i \in 1 .. Len(cn.input) : s[i] = cn.input[i]
    BY <1>2, UnreadIs
  <1> HIDE DEF g, x
  <1>6. /\ t \in Seq(Bytes) /\ Len(t) = Len(s) - HeadLen
        /\ \A i \in 1 .. Len(t) : t[i] = s[HeadLen + i]
    <2>1. cn.input \in Seq(Bytes) /\ w \in Seq(Bytes) /\ HeadLen \in 0 .. Len(cn.input)
      BY <1>2, <1>3, <1>5
    <2>2. /\ SubSeq(cn.input, HeadLen + 1, Len(cn.input)) \o w \in Seq(Bytes)
          /\ Len(SubSeq(cn.input, HeadLen + 1, Len(cn.input)) \o w)
               = Len(cn.input \o w) - HeadLen
          /\ \A i \in 1 .. Len(SubSeq(cn.input, HeadLen + 1, Len(cn.input)) \o w) :
               (SubSeq(cn.input, HeadLen + 1, Len(cn.input)) \o w)[i]
                 = (cn.input \o w)[HeadLen + i]
      BY <2>1, Cut
    <2> QED
      BY <1>3, <2>2 DEF Unread
  <1> HIDE DEF s, t
  <1>7. /\ HeadLen \in 1 .. Len(s) /\ DOMAIN s = 1 .. Len(s) /\ HeadLen \in Nat
        /\ s[1] = x /\ x.pos = 1 /\ s[HeadLen].pos = HeadLen
    <2>1. HeadLen \in 1 .. Len(cn.input) /\ 1 \in 1 .. Len(cn.input)
      BY <1>3, <1>5, Numbers
    <2>2. cn.input[1].pos = 1 /\ cn.input[HeadLen].pos = HeadLen
      BY <2>1, Numbers DEF MagicOK
    <2> QED
      BY <1>2, <1>5, <2>1, <2>2, Numbers DEF x
  <1>8. Ordered(s) /\ Between(s, cn.logId, n)
    BY <1>1 DEF OrderOK, s
  <1>9. Ordered(t) /\ (\A k, m : Between(s, k, m) => Between(t, k, m))
    <2>1. /\ s \in Seq(Bytes) /\ t \in Seq(Bytes) /\ HeadLen \in Nat
          /\ Len(t) + HeadLen <= Len(s)
          /\ \A i \in 1 .. Len(t) : t[i] = s[HeadLen + i]
      BY <1>5, <1>6, <1>7
    <2> QED
      BY ONLY <1>8, <2>1, Later
  \* The request is later than the last one, of which the head was looked at.
  <1>10. cn.logId < x.req /\ x.req <= n
    <2>1. 1 \in DOMAIN s
      BY <1>5, <1>7
    <2>2. /\ s[1].req <= n
          /\ \/ s[1].req > cn.logId
             \/ s[1].req = cn.logId /\ s[1].pos > HeadLen
      BY <1>8, <2>1 DEF Between
    <2> QED
      BY <1>2, <1>4, <1>7, <2>2, Numbers
  <1>11. Between(t, x.req, n)
    <2> SUFFICES ASSUME NEW i \in 1 .. Len(t)
                 PROVE  /\ t[i].req <= n
                        /\ \/ t[i].req > x.req
                           \/ t[i].req = x.req /\ t[i].pos > HeadLen
      BY <1>6 DEF Between
    <2>1. HeadLen + i \in DOMAIN s /\ HeadLen \in DOMAIN s /\ 1 \in DOMAIN s
          /\ HeadLen < HeadLen + i
      BY <1>5, <1>6, <1>7
    <2>2. t[i] = s[HeadLen + i]
      BY <1>6
    <2>3. \/ s[HeadLen].req < t[i].req
          \/ s[HeadLen].req = t[i].req /\ s[HeadLen].pos < t[i].pos
      BY <1>8, <2>1, <2>2 DEF Ordered
    <2>4. x.req <= s[HeadLen].req
      <3>1. CASE HeadLen = 1
        BY <1>4, <1>7, <3>1
      <3>2. CASE HeadLen > 1
        <4>1. s[1].req < s[HeadLen].req \/ s[1].req = s[HeadLen].req
          BY <1>8, <2>1, <3>2 DEF Ordered
        <4>2. s[1].req \in Nat /\ s[HeadLen].req \in Nat
          <5>1. s[1] \in Bytes /\ s[HeadLen] \in Bytes
            BY <1>5, <2>1
          <5> QED
            BY <5>1, ByteIs
        <4> QED
          BY <1>7, <4>1, <4>2
      <3> QED
        BY <1>7, <3>1, <3>2
    <2>5. t[i].req <= n
      BY <1>8, <2>1, <2>2 DEF Between
    <2>6. /\ t[i].req \in Nat /\ t[i].pos \in Nat
          /\ s[HeadLen].req \in Nat /\ x.req \in Nat
      <3>1. s[HeadLen] \in Bytes /\ t[i] \in Bytes
        BY <1>5, <1>6, <2>1
      <3>2. \A y \in Bytes : y.req \in Nat /\ y.pos \in Nat
        BY ByteIs
      <3> QED
        BY <1>4, <3>1, <3>2
    <2> QED
      BY <1>7, <2>3, <2>4, <2>5, <2>6
  <1>12. ConnOK(g)
    BY <1>2, <1>3, <1>4 DEF ConnOK
  <1>13. OrderOK(g, w, n, a)
    <2>1. \A j \in DOMAIN a : a[j] <= cn.logId /\ a[j] \in Nat
      <3>1. \A j \in DOMAIN a : a[j] <= cn.logId
        BY <1>1 DEF OrderOK
      <3> QED
        BY <1>2, <3>1, NumbersGot
    <2>2. \A j \in DOMAIN a : a[j] < g.logId /\ a[j] <= g.logId
      BY <1>2, <1>3, <1>4, <1>10, <2>1
    <2>3. Between(t, g.logId, n) /\ g.logId <= n
      BY <1>3, <1>10, <1>11
    <2> QED
      BY <1>1, <1>9, <2>2, <2>3 DEF OrderOK, t
  <1>14. ASSUME q PROVE FrameOK(g, w, n, a)
    <2>1. PICK b \in Bodies : PartOf(s, 0, n, b)
      BY <1>1, <1>14 DEF FrameOK, s
    <2>2. b \in Nat
      BY Numbers
    <2>3. x = [req |-> n, pos |-> 0 + 1, len |-> b, probe |-> FALSE]
      <3>1. 1 \in DOMAIN s
        BY <1>5, <1>7
      <3>2. s[1] = [req |-> n, pos |-> 0 + 1, len |-> b, probe |-> FALSE]
        BY <2>1, <3>1 DEF PartOf
      <3> QED
        BY <1>7, <3>2
    <2>4. x.req = n /\ x.len = b /\ x.probe = FALSE
      BY <2>3
    <2>5. Len(a) <= n /\ n <= Len(a) + 1 /\ Len(a) # n
      <3>1. s # << >>
        BY <1>5, <1>7
      <3> QED
        BY <1>1, <1>14, <3>1 DEF FrameOK, s
    <2>6. PartOf(t, HeadLen, n, b)
      <3>1. HeadLen + Len(t) <= HeadLen + b
        BY <1>5, <1>6, <1>7, <2>1, <2>2 DEF PartOf
      <3>2. ASSUME NEW i \in 1 .. Len(t)
            PROVE  t[i] = [req |-> n, pos |-> HeadLen + i, len |-> b, probe |-> FALSE]
        <4>1. HeadLen + i \in DOMAIN s /\ t[i] = s[HeadLen + i]
          BY <1>5, <1>6, <1>7
        <4>2. 0 + (HeadLen + i) = HeadLen + i
          BY <1>7
        <4> QED
          BY <2>1, <4>1, <4>2 DEF PartOf
      <3> QED
        BY <1>6, <3>1, <3>2 DEF PartOf
    <2> QED
      BY <1>3, <1>4, <2>4, <2>5, <2>6 DEF FrameOK, t
  <1> QED
    BY <1>12, <1>13, <1>14 DEF Good, g

\* One more answer, to a request that is later than those before.
LEMMA AnswerLast ==
    ASSUME NEW a \in Seq(1 .. MaxRequests), NEW x \in 1 .. MaxRequests,
           Increasing(a), \A j \in DOMAIN a : a[j] < x
    PROVE  LET b == Append(a, x)
           IN  /\ b \in Seq(1 .. MaxRequests) /\ Len(b) = Len(a) + 1
               /\ Increasing(b)
               /\ \A j \in DOMAIN b : b[j] <= x
  <1> DEFINE b == Append(a, x)
  <1>1. x \in Nat
    BY Numbers
  <1>2. /\ b \in Seq(1 .. MaxRequests) /\ Len(b) = Len(a) + 1
        /\ \A j \in 1 .. Len(a) : b[j] = a[j]
        /\ b[Len(a) + 1] = x
        /\ DOMAIN b = 1 .. Len(a) + 1 /\ DOMAIN a = 1 .. Len(a) /\ Len(a) \in Nat
    OBVIOUS
  <1> HIDE DEF b
  <1>3. \A j \in 1 .. Len(a) : a[j] < x /\ a[j] \in Nat
    BY <1>2, NumbersGot
  <1>4. ASSUME NEW j \in 1 .. Len(a) + 1, NEW k \in 1 .. Len(a) + 1, j < k
        PROVE  b[j] < b[k]
    <2>1. j \in 1 .. Len(a)
      BY <1>2, <1>4
    <2>2. CASE k = Len(a) + 1
      BY <1>2, <1>3, <2>1, <2>2
    <2>3. CASE k \in 1 .. Len(a)
      <3>1. a[j] < a[k]
        BY <1>2, <1>4, <2>1, <2>3 DEF Increasing
      <3> QED
        BY <1>2, <2>1, <2>3, <3>1
    <2>4. k = Len(a) + 1 \/ k \in 1 .. Len(a)
      BY <1>2
    <2> QED
      BY <2>2, <2>3, <2>4
  <1>5. ASSUME NEW j \in 1 .. Len(a) + 1 PROVE b[j] <= x
    <2>1. CASE j = Len(a) + 1
      BY <1>1, <1>2, <2>1
    <2>2. CASE j \in 1 .. Len(a)
      BY <1>1, <1>2, <1>3, <2>2
    <2> QED
      BY <1>2, <2>1, <2>2
  <1> QED
    BY <1>2, <1>4, <1>5 DEF b, Increasing

\* A buffer that starts with the bytes behind the head of a request starts
\* with its body.
LEMMA BodyIs ==
    ASSUME NEW buffer \in Seq(Bytes \cup {Junk}), NEW n \in 1 .. MaxRequests,
           NEW e \in Bodies, e <= Len(buffer),
           \A i \in 1 .. e : buffer[i] =
              [req |-> n, pos |-> HeadLen + i, len |-> e, probe |-> FALSE]
    PROVE  SubSeq(buffer, 1, e) = BodyOf(n, e)
  <1> DEFINE f == Frame(n, e, FALSE)
             z == SubSeq(buffer, 1, e)
             y == SubSeq(f, HeadLen + 1, HeadLen + e)
  <1>1. e \in Nat /\ HeadLen \in Nat
    BY Numbers
  <1>2. /\ f \in Seq(Bytes) /\ Len(f) = HeadLen + e
        /\ \A k \in 1 .. HeadLen + e :
             f[k] = [req |-> n, pos |-> k, len |-> e, probe |-> FALSE]
    BY FrameIs
  <1> HIDE DEF f
  <1>3. /\ z = [i \in 1 .. e |-> buffer[i]]
    <2>1. z = [i \in 1 .. e - 1 + 1 |-> buffer[i + 1 - 1]]
      BY <1>1
    <2>2. e - 1 + 1 = e /\ \A i \in 1 .. e : i + 1 - 1 = i
      BY <1>1
    <2> QED
      BY <2>1, <2>2
  <1>4. /\ y = [i \in 1 .. e |-> f[HeadLen + i]]
    BY <1>1, <1>2
  <1>5. \A i \in 1 .. e : buffer[i] = f[HeadLen + i]
    <2>1. \A i \in 1 .. e : HeadLen + i \in 1 .. HeadLen + e
      BY <1>1
    <2> QED
      BY <1>2, <2>1
  <1> HIDE DEF y, z
  <1>6. z = y
    BY <1>3, <1>4, <1>5
  <1> QED
    BY <1>6 DEF BodyOf, f, y, z

\* A request is answered and the next one is prepared for.
LEMMA AnsweredOK ==
    ASSUME NEW cn, NEW w, NEW n, NEW a, NEW q \in BOOLEAN, Good(cn, w, n, a, q),
           cn.isProcessing, ~cn.monitor, ~cn.hasError
    PROVE  Good(Released(cn), w, n, Append(a, cn.logId), q)
  <1> DEFINE p == Released(cn)
             s == Unread(cn, w)
             b == Append(a, cn.logId)
  <1>1. ConnOK(cn) /\ OrderOK(cn, w, n, a) /\ (q => FrameOK(cn, w, n, a))
    BY DEF Good
  <1>2. /\ cn \in ConnType /\ w \in Seq(Bytes)
        /\ cn.state = "processing" /\ NoJunk(cn.readbuf)
        /\ a \in Seq(1 .. MaxRequests) /\ cn.logId \in 1 .. MaxRequests
    BY <1>1, Numbers DEF ConnOK, OrderOK, ConnType
  <1>3. /\ p \in ConnType
        /\ p.state = "head" /\ p.expected = HeadLen
        /\ p.readbuf = cn.readbuf /\ p.input = cn.input
        /\ p.logId = cn.logId
        /\ ~p.isProcessing /\ ~p.hasError
    BY <1>2, ReleasedIs
  <1>4. /\ b \in Seq(1 .. MaxRequests) /\ Len(b) = Len(a) + 1
        /\ \A j \in 1 .. Len(a) : b[j] = a[j]
        /\ b[Len(a) + 1] = cn.logId
        /\ DOMAIN b = 1 .. Len(a) + 1 /\ DOMAIN a = 1 .. Len(a) /\ Len(a) \in Nat
    BY <1>2
  <1> HIDE DEF p, b
  <1>5. Unread(p, w) = s
    BY <1>3 DEF Unread
  <1> HIDE DEF s
  <1>6. ConnOK(p)
    BY <1>2, <1>3 DEF ConnOK
  <1>7. \A j \in 1 .. Len(a) : a[j] < cn.logId /\ a[j] \in Nat
    <2>1. Pending(cn)
      BY <1>2 DEF Pending
    <2>2. \A j \in DOMAIN a : a[j] < cn.logId
      BY <1>1, <2>1 DEF OrderOK
    <2> QED
      BY <1>2, <1>4, <2>2, NumbersGot
  <1>8. Increasing(b) /\ (\A j \in DOMAIN b : b[j] <= cn.logId)
    <2>1. Increasing(a) /\ \A j \in DOMAIN a : a[j] < cn.logId
      BY <1>1, <1>4, <1>7 DEF OrderOK
    <2> QED
      BY <1>2, <2>1, AnswerLast DEF b
  <1>9. OrderOK(p, w, n, b)
    BY <1>1, <1>3, <1>4, <1>5, <1>8 DEF OrderOK, Pending, s
  <1>10. ASSUME q PROVE FrameOK(p, w, n, b)
    <2>1. /\ s = << >> /\ Len(a) <= n /\ n <= Len(a) + 1 /\ Len(a) # n
          /\ n \in Nat
      BY <1>1, <1>2, <1>10 DEF FrameOK, s, OrderOK
    <2>2. Len(b) = n
      <3>1. Len(a) \in Nat /\ Len(b) = Len(a) + 1
        BY <1>4
      <3> HIDE DEF b
      <3> QED
        BY ONLY <2>1, <3>1
    <2>3. PICK e \in Bodies : e \in Nat
      BY ConnectionAssumption
    <2>4. PartOf(s, 0, n, e)
      BY <2>1, <2>3, Numbers DEF PartOf
    <2> QED
      BY <1>3, <1>5, <2>1, <2>2, <2>4 DEF FrameOK
  <1> QED
    BY <1>6, <1>9, <1>10 DEF Good, p, b

\* A body is read, and maybe the front of what follows it, and its request
\* is taken.
LEMMA BodyOK ==
    ASSUME NEW cn, NEW w, NEW n, NEW a, NEW q \in BOOLEAN, Good(cn, w, n, a, q),
           cn.state = "body", Len(cn.input) >= cn.expected, ~cn.readDue
    PROVE  LET p == Taken(ReadBody(cn))
           IN  /\ p.monitor = cn.monitor /\ p.logId = cn.logId
               /\ p.isProcessing /\ ~p.hasError
               /\ ~cn.monitor => Good(p, w, n, a, q)
               /\ cn.monitor => Good(p, w, n, Append(a, cn.logId), q)
  <1> DEFINE g == ReadBody(cn)
             p == Taken(g)
             s == Unread(cn, w)
             t == Unread(p, w)
  <1>1. ConnOK(cn) /\ OrderOK(cn, w, n, a) /\ (q => FrameOK(cn, w, n, a))
    BY DEF Good
  <1>2. /\ cn \in ConnType /\ w \in Seq(Bytes)
        /\ ~cn.isProcessing /\ ~cn.hasError
        /\ n \in 0 .. MaxRequests /\ n \in Nat /\ a \in Seq(1 .. MaxRequests)
        /\ cn.logId \in 1 .. MaxRequests /\ cn.logId \in Nat
        /\ cn.expected \in Nat /\ cn.expected <= Len(cn.readbuf)
        /\ NoJunk(cn.readbuf) \/ Len(cn.readbuf) = cn.expected
    BY <1>1, Numbers DEF ConnOK, OrderOK, ConnType
  <1>3. PICK k \in 0 .. Len(cn.input) :
          /\ k >= cn.expected
          /\ g \in ConnType
          /\ g.state = "processing" /\ g.expected = cn.expected
          /\ g.logId = cn.logId /\ g.monitor = cn.monitor
          /\ g.input = SubSeq(cn.input, k + 1, Len(cn.input))
          /\ g.readbuf \in Seq(Bytes \cup {Junk}) /\ k <= Len(g.readbuf)
          /\ \A i \in 1 .. k : g.readbuf[i] = cn.input[i]
          /\ NoJunk(g.readbuf)
          /\ g.isProcessing = cn.isProcessing /\ g.hasError = cn.hasError
          /\ g.readDue = cn.readDue
    BY <1>2, ReadBodyIs
  <1> HIDE DEF g
  <1>4. /\ p \in ConnType
        /\ p.state = "processing" /\ p.expected = cn.expected
        /\ p.readbuf = g.readbuf /\ p.input = g.input
        /\ p.logId = cn.logId /\ p.monitor = cn.monitor
        /\ p.isProcessing /\ ~p.hasError /\ ~p.reading /\ ~p.readDue
    BY <1>2, <1>3, TakenIs
  <1> HIDE DEF p
  <1>5. /\ cn.input \in Seq(Bytes)
        /\ s \in Seq(Bytes) /\ Len(s) = Len(cn.input) + Len(w)
        /\ \A i \in 1 .. Len(cn.input) : s[i] = cn.input[i]
    BY <1>2, UnreadIs
  <1>6. /\ t \in Seq(Bytes) /\ Len(t) = Len(s) - k
        /\ \A i \in 1 .. Len(t) : t[i] = s[k + i]
    <2>1. cn.input \in Seq(Bytes) /\ w \in Seq(Bytes) /\ k \in 0 .. Len(cn.input)
      BY <1>2, <1>3, <1>5
    <2>2. /\ SubSeq(cn.input, k + 1, Len(cn.input)) \o w \in Seq(Bytes)
          /\ Len(SubSeq(cn.input, k + 1, Len(cn.input)) \o w) = Len(cn.input \o w) - k
          /\ \A i \in 1 .. Len(SubSeq(cn.input, k + 1, Len(cn.input)) \o w) :
               (SubSeq(cn.input, k + 1, Len(cn.input)) \o w)[i] = (cn.input \o w)[k + i]
      BY <2>1, Cut
    <2> QED
      BY <1>3, <1>4, <2>2 DEF Unread
  <1> HIDE DEF s, t
  <1>7. /\ Ordered(s) => Ordered(t)
        /\ \A m1, m2 : Between(s, m1, m2) => Between(t, m1, m2)
    <2>1. /\ s \in Seq(Bytes) /\ t \in Seq(Bytes) /\ k \in Nat
          /\ Len(t) + k <= Len(s)
          /\ \A i \in 1 .. Len(t) : t[i] = s[k + i]
      BY <1>5, <1>6
    <2> QED
      BY ONLY <2>1, Later
  <1>8. ConnOK(p)
    BY <1>2, <1>3, <1>4 DEF ConnOK
  <1>9. \A j \in DOMAIN a : a[j] < cn.logId
    BY <1>1 DEF OrderOK, Pending
  <1>10. ASSUME ~cn.monitor PROVE OrderOK(p, w, n, a)
    BY <1>1, <1>4, <1>7, <1>9 DEF OrderOK, s, t
  <1>11. ASSUME cn.monitor PROVE OrderOK(p, w, n, Append(a, cn.logId))
    <2> DEFINE b == Append(a, cn.logId)
    <2>1. b \in Seq(1 .. MaxRequests)
      BY <1>2
    <2>2. Increasing(b) /\ \A j \in DOMAIN b : b[j] <= cn.logId
      BY <1>1, <1>2, <1>9, AnswerLast DEF OrderOK
    <2>3. ~Pending(p)
      BY <1>4, <1>11 DEF Pending
    <2>4. Ordered(t) /\ Between(t, p.logId, n) /\ p.logId <= n
      BY <1>1, <1>4, <1>7 DEF OrderOK, s
    <2> HIDE DEF b
    <2>5. OrderOK(p, w, n, b)
      BY <1>2, <1>4, <2>1, <2>2, <2>3, <2>4 DEF OrderOK, t
    <2> QED
      BY <2>5 DEF b
  <1>12. ASSUME q PROVE ~cn.monitor /\ FrameOK(p, w, n, a)
    <2> DEFINE e == cn.expected
    <2>1. /\ Len(a) <= n /\ n <= Len(a) + 1 /\ Len(a) # n
          /\ cn.logId = n /\ ~cn.monitor /\ e \in Bodies
          /\ PartOf(s, HeadLen, n, e)
      BY <1>1, <1>12 DEF FrameOK, s
    <2>2. /\ HeadLen \in Nat /\ e \in Nat
          /\ Len(cn.input) \in Nat /\ Len(w) \in Nat /\ k \in Nat
      BY <1>2, <1>5, Numbers
    <2>3. HeadLen + Len(s) <= HeadLen + e
      BY <2>1 DEF PartOf
    <2>4. Len(w) = 0 /\ Len(cn.input) = e /\ k = e /\ Len(s) = e
      BY <1>3, <1>5, <2>2, <2>3
    <2>5. t = << >>
      <3>1. Len(t) = 0
        BY <1>6, <2>2, <2>4
      <3> QED
        BY <1>6, <3>1
    <2>6. \A i \in 1 .. e : g.readbuf[i] =
            [req |-> n, pos |-> HeadLen + i, len |-> e, probe |-> FALSE]
      <3>1. ASSUME NEW i \in 1 .. e
            PROVE  s[i] = [req |-> n, pos |-> HeadLen + i, len |-> e, probe |-> FALSE]
        <4>1. i \in DOMAIN s
          BY <1>5, <2>4
        <4> QED
          BY <2>1, <4>1 DEF PartOf
      <3> QED
        BY <1>3, <1>5, <2>4, <3>1
    <2>7. SubSeq(p.readbuf, 1, e) = BodyOf(n, e)
      <3>1. n \in 1 .. MaxRequests
        BY <1>2, <2>1
      <3>2. p.readbuf \in Seq(Bytes \cup {Junk}) /\ e <= Len(p.readbuf)
        BY <1>3, <1>4, <2>4
      <3>3. \A i \in 1 .. e : p.readbuf[i] =
              [req |-> n, pos |-> HeadLen + i, len |-> e, probe |-> FALSE]
        BY <1>4, <2>6
      <3> HIDE DEF e
      <3> QED
        BY <2>1, <3>1, <3>2, <3>3, BodyIs
    <2> QED
      BY <1>4, <2>1, <2>5, <2>7 DEF FrameOK, t
  <1>13. Good(p, w, n, a, q) \/ cn.monitor
    BY <1>8, <1>10, <1>12 DEF Good
  <1>14. cn.monitor => Good(p, w, n, Append(a, cn.logId), q)
    BY <1>8, <1>11, <1>12 DEF Good
  <1> QED
    BY <1>4, <1>13, <1>14 DEF p, g

\* What the read callback leaves behind.
LEMMA OutcomesOK ==
    ASSUME NEW c, NEW cn, NEW w, NEW n, NEW a, NEW q \in BOOLEAN,
           Good(cn, w, n, a, q), ~cn.isProcessing, ~cn.readDue,
           NEW out \in ReadOutcomes(c, cn)
    PROVE  \/ out[1] = NoConn
           \/ ~out[1].hasError /\ Good(out[1], w, n, a \o out[2], q)
  <1> DEFINE got == NsheadConnRead(cn)
  <1>1. /\ cn \in ConnType /\ cn.state \in {"head", "body"} /\ ~cn.hasError
        /\ a \in Seq(1 .. MaxRequests)
    BY DEF Good, ConnOK, OrderOK, ConnType
  <1>2. a \o << >> = a /\ \A x \in 1 .. MaxRequests : a \o << x >> = Append(a, x)
    BY <1>1, ConcatEmptySeq, AppendIsConcat
  <1>3. CASE ReadFails(cn)
    <2>1. out = << ErrorCb(cn), << >> >>
      BY <1>3 DEF ReadOutcomes
    <2> QED
      BY <2>1 DEF ErrorCb
  <1>4. CASE ~ReadFails(cn)
    \* The connection before the body is looked at.
    <2>1. PICK h : /\ Good(h, w, n, a, q) /\ ~h.readDue /\ ~h.hasError
                   /\ h.state \in {"head", "body"}
                   /\ \/ got = h
                      \/ /\ h.state = "body" /\ Len(h.input) >= h.expected
                         /\ got = ReadBody(h)
      <3>1. CASE cn.state = "head" /\ Len(cn.input) >= cn.expected
        <4>1. MagicOK(cn)
          BY <1>4, <3>1 DEF ReadFails
        <4>2. Good(ReadHead(cn), w, n, a, q)
          BY <3>1, <4>1, HeadOK
        <4>3. /\ ReadHead(cn).state = "body"
              /\ ReadHead(cn).readDue = cn.readDue
              /\ ReadHead(cn).hasError = cn.hasError
          BY <3>1, ReadHeadIs DEF Good
        <4>4. \/ got = ReadHead(cn)
              \/ /\ Len(ReadHead(cn).input) >= ReadHead(cn).expected
                 /\ got = ReadBody(ReadHead(cn))
          BY <3>1 DEF NsheadConnRead
        <4> HIDE DEF got
        <4> QED
          BY <1>1, <4>2, <4>3, <4>4
      <3>2. CASE cn.state = "head" /\ ~(Len(cn.input) >= cn.expected)
        <4>1. got = cn
          BY <3>2 DEF NsheadConnRead
        <4> QED
          BY <1>1, <4>1
      <3>3. CASE cn.state = "body"
        <4>1. \/ got = cn
              \/ Len(cn.input) >= cn.expected /\ got = ReadBody(cn)
          BY <3>3 DEF NsheadConnRead
        <4> HIDE DEF got
        <4> QED
          BY <1>1, <3>3, <4>1
      <3> QED
        BY <1>1, <3>1, <3>2, <3>3
    <2>2. CASE got = h
      <3>1. out = << got, << >> >>
        BY <1>4, <2>1, <2>2 DEF ReadOutcomes
      <3> HIDE DEF got
      <3> QED
        BY <1>2, <2>1, <2>2, <3>1
    <2>3. CASE h.state = "body" /\ Len(h.input) >= h.expected /\ got = ReadBody(h)
      <3> DEFINE p == Taken(ReadBody(h))
      <3>1. /\ h \in ConnType /\ h.expected <= Len(h.readbuf)
            /\ NoJunk(h.readbuf) \/ Len(h.readbuf) = h.expected
            /\ h.logId \in 1 .. MaxRequests
        BY <2>1, <2>3, Numbers DEF Good, ConnOK, ConnType
      <3>2. got.state = "processing" /\ got.logId = h.logId
        BY <2>3, <3>1, ReadBodyIs
      <3>3. /\ p.monitor = h.monitor /\ p.logId = h.logId
            /\ p.isProcessing /\ ~p.hasError
            /\ ~h.monitor => Good(p, w, n, a, q)
            /\ h.monitor => Good(p, w, n, Append(a, h.logId), q)
        BY <2>1, <2>3, BodyOK
      <3>4. got.monitor = h.monitor
        BY <2>3, <3>1, ReadBodyIs
      <3>5. p = [got EXCEPT !.isProcessing = TRUE, !.reading = FALSE]
        BY <2>3 DEF Taken
      <3> HIDE DEF got, p
      <3>6. CASE h.monitor
        <4>1. out = << p, << h.logId >> >>
          BY <1>4, <3>2, <3>4, <3>5, <3>6 DEF ReadOutcomes, got
        <4> QED
          BY <1>2, <3>1, <3>3, <3>6, <4>1
      <3>7. CASE ~h.monitor
        <4>1. \/ out = << p, << >> >>
              \/ out = << ServerProcessDone(p), << h.logId >> >>
          BY <1>4, <3>2, <3>4, <3>5, <3>7 DEF ReadOutcomes, got
        <4>2. CASE out = << p, << >> >>
          BY <1>2, <3>3, <3>7, <4>2
        <4>3. CASE out = << ServerProcessDone(p), << h.logId >> >>
          <5>1. ServerProcessDone(p) = Released(p)
            BY <3>3 DEF ServerProcessDone, Released
          <5>2. Good(Released(p), w, n, Append(a, h.logId), q)
            BY <3>3, <3>7, AnsweredOK
          <5>3. ~Released(p).hasError
            <6>1. p \in ConnType
              BY <3>3, <3>7 DEF Good, ConnOK
            <6> QED
              BY <3>3, <6>1, ReleasedIs
          <5> QED
            BY <1>2, <3>1, <4>3, <5>1, <5>2, <5>3
        <4> QED
          BY <4>1, <4>2, <4>3
      <3> QED
        BY <3>6, <3>7
    <2> QED
      BY <2>1, <2>2, <2>3
  <1> QED
    BY <1>3, <1>4

-----------------------------------------------------------------------------
(* Steps *)

LEMMA NoConnection == NewConnection # NoConn /\ NoConn \notin ConnType
  BY NewConnectionIs, ServerAssumption

LEMMA ServerInvInit == ServerInit => ServerInv
  <1> SUFFICES ASSUME ServerInit PROVE ServerInv
    OBVIOUS
  <1>1. ServerTypeOK
    <2>1. /\ << >> \in Seq(Bytes) /\ << >> \in Seq(1 .. MaxRequests)
          /\ << >> \in Seq(Clients) /\ 0 \in 0 .. MaxRequests
      BY Numbers
    <2>2. /\ net \in [Clients -> Seq(Bytes)]
          /\ answered \in [Clients -> Seq(1 .. MaxRequests)]
      BY <2>1 DEF ServerInit
    <2> QED
      BY <2>1, <2>2 DEF ServerInit, ServerTypeOK
  <1>2. Waiting
    BY DEF ServerInit, Waiting
  <1>3. ASSUME NEW c \in Clients PROVE Served(c)
    <2>1. (c \in Plain) \in BOOLEAN
      OBVIOUS
    <2>2. /\ View(c) = NewConnection /\ net[c] = << >> /\ sent[c] = 0
          /\ answered[c] = << >>
      BY DEF ServerInit, View, Seen
    <2> QED
      BY <2>1, <2>2, NewConnectionOK DEF Served
  <1> QED
    BY <1>1, <1>2, <1>3 DEF ServerInv

\* A step that is about one client, who is not waiting to be accepted or goes
\* on waiting.
Becomes(c, k, w, n, a, r) ==
    /\ conn' = [conn EXCEPT ![c] = k]
    /\ net' = [net EXCEPT ![c] = w]
    /\ sent' = [sent EXCEPT ![c] = n]
    /\ answered' = [answered EXCEPT ![c] = a]
    /\ peer' = [peer EXCEPT ![c] = r]
    /\ UNCHANGED listenVars

LEMMA OneClient ==
    ASSUME ServerInv, NEW c \in Clients, NEW k, NEW w, NEW n, NEW a, NEW r,
           Becomes(c, k, w, n, a, r), r \in {"away", "up", "closed"},
           k = NoConn => a = << >>,
           Good(Seen(k), w, n, a, c \in Plain),
           k # NoConn => r # "away",
           conn[c] # NoConn \/ (k = NoConn /\ r # "away")
    PROVE  ServerInv'
  <1>0. /\ conn' = [conn EXCEPT ![c] = k] /\ net' = [net EXCEPT ![c] = w]
        /\ sent' = [sent EXCEPT ![c] = n] /\ answered' = [answered EXCEPT ![c] = a]
        /\ peer' = [peer EXCEPT ![c] = r] /\ UNCHANGED listenVars
    BY DEF Becomes
  <1>1. /\ peer \in [Clients -> {"away", "up", "closed"}]
        /\ net \in [Clients -> Seq(Bytes)]
        /\ sent \in [Clients -> 0 .. MaxRequests]
        /\ answered \in [Clients -> Seq(1 .. MaxRequests)]
        /\ backlog \in Seq(Clients)
        /\ accepting \in BOOLEAN /\ timer \in BOOLEAN
        /\ conn \in [Clients -> ConnType \cup {NoConn}]
        /\ Waiting /\ \A d \in Clients : Served(d)
    BY DEF ServerInv, ServerTypeOK
  <1>2. /\ w \in Seq(Bytes) /\ n \in 0 .. MaxRequests /\ a \in Seq(1 .. MaxRequests)
        /\ k \in ConnType \cup {NoConn}
    BY DEF Good, ConnOK, OrderOK, Seen
  <1>3. /\ backlog' = backlog /\ accepting' = accepting /\ timer' = timer
    BY <1>0 DEF listenVars
  <1>4. ServerTypeOK'
    <2>1. net' \in [Clients -> Seq(Bytes)] /\ answered' \in [Clients -> Seq(1 .. MaxRequests)]
      BY <1>0, <1>1, <1>2
    <2>2. /\ peer' \in [Clients -> {"away", "up", "closed"}]
          /\ sent' \in [Clients -> 0 .. MaxRequests]
      BY <1>0, <1>1, <1>2
    <2>3. conn' \in [Clients -> ConnType \cup {NoConn}]
      BY <1>0, <1>1, <1>2
    <2> QED
      BY <1>1, <1>3, <2>1, <2>2, <2>3 DEF ServerTypeOK
  <1>5. /\ conn'[c] = k /\ net'[c] = w /\ sent'[c] = n /\ answered'[c] = a
        /\ peer'[c] = r
        /\ \A d \in Clients \ {c} :
             /\ conn'[d] = conn[d] /\ net'[d] = net[d] /\ sent'[d] = sent[d]
             /\ answered'[d] = answered[d] /\ peer'[d] = peer[d]
    BY <1>0, <1>1
  <1>6. Waiting'
    <2>1. \A i \in DOMAIN backlog : conn'[backlog[i]] = NoConn /\ peer'[backlog[i]] # "away"
      <3> TAKE i \in DOMAIN backlog
      <3>1. /\ backlog[i] \in Clients
            /\ conn[backlog[i]] = NoConn /\ peer[backlog[i]] # "away"
        BY <1>1 DEF Waiting
      <3> QED
        BY <1>5, <3>1
    <2>2. \A d \in Clients : conn'[d] # NoConn => peer'[d] # "away"
      BY <1>1, <1>5 DEF Waiting
    <2> QED
      BY <1>1, <1>3, <2>1, <2>2 DEF Waiting
  <1>7. ASSUME NEW d \in Clients PROVE Served(d)'
    <2>1. CASE d = c
      BY <1>5, <2>1 DEF Served, View, Seen
    <2>2. CASE d # c
      <3>1. Served(d)
        BY <1>1
      <3> QED
        BY <1>5, <2>2, <3>1 DEF Served, View, Seen
    <2> QED
      BY <2>1, <2>2
  <1> QED
    BY <1>4, <1>6, <1>7 DEF ServerInv

\* The client is gone.
LEMMA GoneOK ==
    ASSUME ServerInv, NEW c \in Clients, conn[c] # NoConn,
           conn' = [conn EXCEPT ![c] = NoConn], Disconnect(c),
           answered' = [answered EXCEPT ![c] = << >>], UNCHANGED listenVars
    PROVE  ServerInv'
  <1>1. Good(NewConnection, << >>, 0, << >>, c \in Plain)
    <2>1. (c \in Plain) \in BOOLEAN
      OBVIOUS
    <2> QED
      BY <2>1, NewConnectionOK
  <1>2. Becomes(c, NoConn, << >>, 0, << >>, "away")
    BY DEF Becomes, Disconnect
  <1>3. Good(Seen(NoConn), << >>, 0, << >>, c \in Plain)
    BY <1>1 DEF Seen
  <1> QED
    BY <1>2, <1>3, OneClient

LEMMA ConnectStep ==
    ASSUME ServerInv, NEW c \in Clients, Connect(c) PROVE ServerInv'
  <1>1. /\ peer \in [Clients -> {"away", "up", "closed"}] /\ backlog \in Seq(Clients)
        /\ peer[c] = "away" /\ peer' = [peer EXCEPT ![c] = "up"]
        /\ backlog' = Append(backlog, c)
        /\ UNCHANGED << net, sent, answered, accepting, timer, conn >>
    BY DEF ServerInv, ServerTypeOK, Connect
  <1>2. /\ peer' \in [Clients -> {"away", "up", "closed"}] /\ peer'[c] = "up"
        /\ \A d \in Clients \ {c} : peer'[d] = peer[d]
    BY <1>1
  <1>3. conn[c] = NoConn /\ \A i \in DOMAIN backlog : backlog[i] # c
    BY <1>1 DEF ServerInv, Waiting
  <1>4. /\ backlog' \in Seq(Clients)
        /\ DOMAIN backlog = 1 .. Len(backlog) /\ Len(backlog) \in Nat
        /\ DOMAIN backlog' = 1 .. Len(backlog) + 1
        /\ \A i \in DOMAIN backlog : backlog'[i] = backlog[i] /\ backlog[i] \in Clients
        /\ backlog'[Len(backlog) + 1] = c
    BY <1>1
  <1>5. Waiting'
    <2>1. ASSUME NEW i \in DOMAIN backlog', NEW j \in DOMAIN backlog',
                 backlog'[i] = backlog'[j]
          PROVE  i = j
      <3>1. i \in DOMAIN backlog \/ i = Len(backlog) + 1
        BY <1>4
      <3>2. j \in DOMAIN backlog \/ j = Len(backlog) + 1
        BY <1>4
      <3>3. \A k, l \in DOMAIN backlog : backlog[k] = backlog[l] => k = l
        BY DEF ServerInv, Waiting
      <3> QED
        BY ONLY <1>3, <1>4, <2>1, <3>1, <3>2, <3>3
    <2>2. ASSUME NEW i \in DOMAIN backlog'
          PROVE  conn[backlog'[i]] = NoConn /\ peer'[backlog'[i]] # "away"
      <3>1. CASE i \in DOMAIN backlog
        <4>1. conn[backlog[i]] = NoConn /\ peer[backlog[i]] # "away"
          BY <3>1 DEF ServerInv, Waiting
        <4> QED
          BY <1>2, <1>3, <1>4, <3>1, <4>1
      <3>2. CASE i = Len(backlog) + 1
        BY <1>2, <1>3, <1>4, <3>2
      <3> QED
        BY <1>4, <3>1, <3>2
    <2>3. \A d \in Clients : conn[d] # NoConn => peer'[d] # "away"
      BY <1>2, <1>3 DEF ServerInv, Waiting
    <2> QED
      BY <1>1, <1>4, <2>1, <2>2, <2>3 DEF Waiting
  <1>6. ServerTypeOK'
    BY <1>1, <1>2, <1>4 DEF ServerInv, ServerTypeOK
  <1>7. \A d \in Clients : Served(d)'
    BY <1>1 DEF ServerInv, Served, View
  <1> QED
    BY <1>5, <1>6, <1>7 DEF ServerInv

\* Who is taken off the queue has waited in no other place of it.
LEMMA HeadOfBacklog ==
    ASSUME ServerInv, backlog # << >>
    PROVE  LET c == Head(backlog)
               rest == Tail(backlog)
           IN  /\ c \in Clients /\ conn[c] = NoConn /\ peer[c] # "away"
               /\ rest \in Seq(Clients)
               /\ \A i, j \in DOMAIN rest : rest[i] = rest[j] => i = j
               /\ \A i \in DOMAIN rest : /\ rest[i] \in Clients /\ rest[i] # c
                                         /\ conn[rest[i]] = NoConn
                                         /\ peer[rest[i]] # "away"
  <1> DEFINE c == Head(backlog)
             rest == Tail(backlog)
  <1>1. /\ backlog \in Seq(Clients)
        /\ \A i, j \in DOMAIN backlog : backlog[i] = backlog[j] => i = j
        /\ \A i \in DOMAIN backlog : /\ conn[backlog[i]] = NoConn
                                     /\ peer[backlog[i]] # "away"
    BY DEF ServerInv, Waiting
  <1>2. /\ rest \in Seq(Clients) /\ DOMAIN rest = 1 .. Len(backlog) - 1
        /\ DOMAIN backlog = 1 .. Len(backlog) /\ 1 \in DOMAIN backlog
        /\ Len(backlog) \in Nat /\ c = backlog[1]
        /\ \A i \in 1 .. Len(backlog) - 1 : rest[i] = backlog[i + 1]
    BY <1>1
  <1>3. \A i \in 1 .. Len(backlog) - 1 :
          i \in Int /\ i + 1 \in 1 .. Len(backlog) /\ i + 1 # 1
    BY <1>2
  <1>4. \A i \in 1 .. Len(backlog) : backlog[i] \in Clients
    BY <1>1
  <1> HIDE DEF c, rest
  <1>5. /\ c \in Clients /\ conn[c] = NoConn /\ peer[c] # "away"
    BY <1>1, <1>2, <1>4
  <1>6. \A i, j \in DOMAIN rest : rest[i] = rest[j] => i = j
    <2> TAKE i, j \in DOMAIN rest
    <2> HAVE rest[i] = rest[j]
    <2>1. /\ backlog[i + 1] = backlog[j + 1]
          /\ i + 1 \in DOMAIN backlog /\ j + 1 \in DOMAIN backlog
          /\ i \in Int /\ j \in Int
      BY <1>2, <1>3
    <2>2. i + 1 = j + 1
      BY <1>1, <2>1
    <2> QED
      BY <2>1, <2>2
  <1>7. \A i \in DOMAIN rest : /\ rest[i] \in Clients /\ rest[i] # c
                               /\ conn[rest[i]] = NoConn
                               /\ peer[rest[i]] # "away"
    <2> TAKE i \in DOMAIN rest
    <2>1. rest[i] = backlog[i + 1] /\ i + 1 \in DOMAIN backlog /\ i + 1 # 1
      BY <1>2, <1>3
    <2> QED
      BY <1>1, <1>2, <1>4, <2>1
  <1> QED
    BY <1>2, <1>5, <1>6, <1>7 DEF c, rest

LEMMA AcceptRefusedStep ==
    ASSUME ServerInv, AcceptRefused PROVE ServerInv'
  <1> DEFINE c == Head(backlog)
             rest == Tail(backlog)
  <1>1. /\ c \in Clients /\ conn[c] = NoConn /\ peer[c] # "away"
        /\ rest \in Seq(Clients)
        /\ \A i, j \in DOMAIN rest : rest[i] = rest[j] => i = j
        /\ \A i \in DOMAIN rest : /\ rest[i] \in Clients /\ rest[i] # c
                                  /\ conn[rest[i]] = NoConn
                                  /\ peer[rest[i]] # "away"
    BY HeadOfBacklog DEF AcceptRefused
  <1>2. /\ backlog' = rest
        /\ peer' = [peer EXCEPT ![c] = "away"] /\ net' = [net EXCEPT ![c] = << >>]
        /\ sent' = [sent EXCEPT ![c] = 0]
        /\ answered' = [answered EXCEPT ![c] = << >>]
        /\ UNCHANGED << accepting, timer, conn >>
    BY DEF AcceptRefused, Disconnect
  <1> HIDE DEF c, rest
  <1>3. /\ peer \in [Clients -> {"away", "up", "closed"}]
        /\ net \in [Clients -> Seq(Bytes)]
        /\ sent \in [Clients -> 0 .. MaxRequests]
        /\ answered \in [Clients -> Seq(1 .. MaxRequests)]
        /\ accepting \in BOOLEAN /\ timer \in BOOLEAN
        /\ conn \in [Clients -> ConnType \cup {NoConn}]
        /\ \A d \in Clients : Served(d)
    BY DEF ServerInv, ServerTypeOK
  <1>4. /\ << >> \in Seq(Bytes) /\ << >> \in Seq(1 .. MaxRequests)
        /\ 0 \in 0 .. MaxRequests /\ "away" \in {"away", "up", "closed"}
    BY Numbers
  <1>5. ServerTypeOK'
    <2>1. /\ peer' \in [Clients -> {"away", "up", "closed"}]
          /\ sent' \in [Clients -> 0 .. MaxRequests]
      BY <1>1, <1>2, <1>3, <1>4
    <2>2. /\ net' \in [Clients -> Seq(Bytes)]
          /\ answered' \in [Clients -> Seq(1 .. MaxRequests)]
      BY <1>1, <1>2, <1>3, <1>4
    <2> QED
      BY <1>1, <1>2, <1>3, <2>1, <2>2 DEF ServerTypeOK
  <1>6. /\ peer'[c] = "away" /\ net'[c] = << >> /\ sent'[c] = 0 /\ answered'[c] = << >>
        /\ \A d \in Clients \ {c} :
             /\ peer'[d] = peer[d] /\ net'[d] = net[d] /\ sent'[d] = sent[d]
             /\ answered'[d] = answered[d]
    BY <1>1, <1>2, <1>3
  <1>7. Waiting'
    <2>1. \A i \in DOMAIN rest : conn[rest[i]] = NoConn /\ peer'[rest[i]] # "away"
      BY <1>1, <1>6
    <2>2. \A d \in Clients : conn[d] # NoConn => peer'[d] # "away"
      BY <1>1, <1>6 DEF ServerInv, Waiting
    <2> QED
      BY <1>1, <1>2, <2>1, <2>2 DEF Waiting
  <1>8. ASSUME NEW d \in Clients PROVE Served(d)'
    <2>1. CASE d = c
      <3>1. View(d)' = NewConnection
        BY <1>1, <1>2, <2>1 DEF View, Seen
      <3>2. (d \in Plain) \in BOOLEAN
        OBVIOUS
      <3>3. Good(NewConnection, << >>, 0, << >>, d \in Plain)
        BY <3>2, NewConnectionOK
      <3> QED
        BY <1>6, <2>1, <3>1, <3>3 DEF Served
    <2>2. CASE d # c
      <3>1. Served(d)
        BY <1>3
      <3> QED
        BY <1>2, <1>6, <2>2, <3>1 DEF Served, View, Seen
    <2> QED
      BY <2>1, <2>2
  <1> QED
    BY <1>5, <1>7, <1>8 DEF ServerInv

LEMMA AcceptCbStep ==
    ASSUME ServerInv, AcceptCb PROVE ServerInv'
  <1> DEFINE c == Head(backlog)
             rest == Tail(backlog)
  <1>1. /\ c \in Clients /\ conn[c] = NoConn /\ peer[c] # "away"
        /\ rest \in Seq(Clients)
        /\ \A i, j \in DOMAIN rest : rest[i] = rest[j] => i = j
        /\ \A i \in DOMAIN rest : /\ rest[i] \in Clients /\ rest[i] # c
                                  /\ conn[rest[i]] = NoConn
                                  /\ peer[rest[i]] # "away"
    BY HeadOfBacklog DEF AcceptCb
  <1>2. /\ backlog' = rest /\ conn' = [conn EXCEPT ![c] = NewConnection]
        /\ UNCHANGED << peer, net, sent, answered, accepting, timer >>
    BY DEF AcceptCb, clientVars
  <1> HIDE DEF c, rest
  <1>3. conn \in [Clients -> ConnType \cup {NoConn}]
    BY DEF ServerInv, ServerTypeOK
  <1>4. /\ conn' \in [Clients -> ConnType \cup {NoConn}]
        /\ conn'[c] = NewConnection
        /\ \A d \in Clients \ {c} : conn'[d] = conn[d]
    BY <1>1, <1>2, <1>3, NewConnectionIs
  <1>5. ServerTypeOK'
    BY <1>1, <1>2, <1>4 DEF ServerInv, ServerTypeOK
  <1>6. Waiting'
    <2>1. \A i \in DOMAIN rest : conn'[rest[i]] = NoConn /\ peer[rest[i]] # "away"
      BY <1>1, <1>4
    <2>2. \A d \in Clients : conn'[d] # NoConn => peer[d] # "away"
      BY <1>1, <1>4 DEF ServerInv, Waiting
    <2> QED
      BY <1>1, <1>2, <2>1, <2>2 DEF Waiting
  \* A new connection is what one is taken for that is still to come.
  <1>7. ASSUME NEW d \in Clients PROVE Served(d)'
    <2>1. View(d)' = View(d)
      BY <1>1, <1>4, NoConnection DEF View, Seen
    <2>2. conn'[d] = NoConn => conn[d] = NoConn
      BY <1>1, <1>4
    <2>3. Served(d)
      BY DEF ServerInv
    <2> QED
      BY <1>2, <2>1, <2>2, <2>3 DEF Served
  <1> QED
    BY <1>5, <1>6, <1>7 DEF ServerInv

\* What the invariant says of the connection of one client.
LEMMA OfClient ==
    ASSUME ServerInv, NEW c \in Clients
    PROVE  /\ conn \in [Clients -> ConnType \cup {NoConn}]
           /\ peer \in [Clients -> {"away", "up", "closed"}]
           /\ net \in [Clients -> Seq(Bytes)]
           /\ sent \in [Clients -> 0 .. MaxRequests]
           /\ answered \in [Clients -> Seq(1 .. MaxRequests)]
           /\ (c \in Plain) \in BOOLEAN
           /\ conn = [conn EXCEPT ![c] = conn[c]] /\ net = [net EXCEPT ![c] = net[c]]
           /\ sent = [sent EXCEPT ![c] = sent[c]] /\ peer = [peer EXCEPT ![c] = peer[c]]
           /\ answered = [answered EXCEPT ![c] = answered[c]]
           /\ conn[c] = NoConn => answered[c] = << >>
           /\ Good(Seen(conn[c]),
                   net[c], sent[c], answered[c], c \in Plain)
           /\ conn[c] # NoConn => peer[c] # "away"
  <1>1. /\ conn \in [Clients -> ConnType \cup {NoConn}]
        /\ peer \in [Clients -> {"away", "up", "closed"}]
        /\ net \in [Clients -> Seq(Bytes)]
        /\ sent \in [Clients -> 0 .. MaxRequests]
        /\ answered \in [Clients -> Seq(1 .. MaxRequests)]
    BY DEF ServerInv, ServerTypeOK
  <1>2. /\ conn = [conn EXCEPT ![c] = conn[c]] /\ net = [net EXCEPT ![c] = net[c]]
        /\ sent = [sent EXCEPT ![c] = sent[c]] /\ peer = [peer EXCEPT ![c] = peer[c]]
        /\ answered = [answered EXCEPT ![c] = answered[c]]
    BY <1>1
  <1>3. Served(c) /\ (conn[c] # NoConn => peer[c] # "away")
    BY DEF ServerInv, Waiting
  <1> QED
    BY <1>1, <1>2, <1>3 DEF Served, View, Seen

LEMMA SendStep ==
    ASSUME ServerInv, NEW c \in Clients, NEW b \in Bodies, NEW probe \in BOOLEAN,
           Send(c, b, probe)
    PROVE  ServerInv'
  <1> DEFINE cn == Seen(conn[c])
             f == Frame(sent[c] + 1, b, probe)
  <1>1. /\ sent[c] < MaxRequests /\ peer[c] = "up"
        /\ c \in Plain => Len(answered[c]) = sent[c] /\ ~probe
        /\ sent' = [sent EXCEPT ![c] = @ + 1]
        /\ net' = [net EXCEPT ![c] = @ \o Frame(sent'[c], b, probe)]
        /\ UNCHANGED << peer, answered, listenVars, conn >>
    BY DEF Send
  <1>2. /\ (c \in Plain) \in BOOLEAN
        /\ Good(cn, net[c], sent[c], answered[c], c \in Plain)
        /\ sent \in [Clients -> 0 .. MaxRequests]
        /\ conn[c] = NoConn => answered[c] = << >>
    BY OfClient
  <1> HIDE DEF cn
  <1>3. Good(cn, net[c] \o f, sent[c] + 1, answered[c], c \in Plain)
    <2> DEFINE q == c \in Plain
    <2>1. /\ q \in BOOLEAN /\ Good(cn, net[c], sent[c], answered[c], q)
          /\ q => Len(answered[c]) = sent[c] /\ ~probe
      BY <1>1, <1>2
    <2> HIDE DEF q, f
    <2>2. Good(cn, net[c] \o Frame(sent[c] + 1, b, probe), sent[c] + 1, answered[c], q)
      BY <1>1, <2>1, SendOK
    <2> QED
      BY <2>2 DEF q, f
  <1>4. sent'[c] = sent[c] + 1
    BY <1>1, <1>2
  <1>5. /\ net' = [net EXCEPT ![c] = net[c] \o f]
        /\ sent' = [sent EXCEPT ![c] = sent[c] + 1]
    BY <1>1, <1>4
  <1> HIDE DEF f
  <1>6. /\ conn' = [conn EXCEPT ![c] = conn[c]] /\ peer' = [peer EXCEPT ![c] = "up"]
        /\ answered' = [answered EXCEPT ![c] = answered[c]]
        /\ UNCHANGED listenVars
    BY <1>1, OfClient
  <1> QED
    <2>1. Becomes(c, conn[c], net[c] \o f, sent[c] + 1, answered[c], "up")
      BY <1>5, <1>6 DEF Becomes
    <2> QED
      BY <1>2, <1>3, <2>1, OneClient DEF cn

\* The client closes, with all its answers or without.
LEMMA CloseStep ==
    ASSUME ServerInv, NEW c \in Clients, Leave(c) \/ GiveUp(c) PROVE ServerInv'
  <1>1. /\ peer' = [peer EXCEPT ![c] = "closed"]
        /\ UNCHANGED << net, sent, answered, listenVars, conn >>
    BY DEF Leave, GiveUp
  <1>2. /\ conn' = [conn EXCEPT ![c] = conn[c]] /\ net' = [net EXCEPT ![c] = net[c]]
        /\ sent' = [sent EXCEPT ![c] = sent[c]]
        /\ answered' = [answered EXCEPT ![c] = answered[c]]
        /\ UNCHANGED listenVars
    BY <1>1, OfClient
  <1>3. /\ conn[c] = NoConn => answered[c] = << >>
        /\ Good(Seen(conn[c]),
                net[c], sent[c], answered[c], c \in Plain)
    BY OfClient
  <1>4. Becomes(c, conn[c], net[c], sent[c], answered[c], "closed")
    BY <1>1, <1>2 DEF Becomes
  <1> QED
    BY <1>3, <1>4, OneClient

LEMMA SocketReadStep ==
    ASSUME ServerInv, NEW c \in Clients, NEW m \in 1 .. Len(net[c]), SocketRead(c, m)
    PROVE  ServerInv'
  <1> DEFINE k == Arrived(conn[c], SubSeq(net[c], 1, m))
             w == SubSeq(net[c], m + 1, Len(net[c]))
  <1>1. /\ conn[c] # NoConn /\ conn[c].reading
        /\ conn' = [conn EXCEPT ![c] = k] /\ net' = [net EXCEPT ![c] = w]
        /\ UNCHANGED << peer, sent, answered, listenVars >>
    BY DEF SocketRead, MayRead, Connected
  <1>2. /\ Good(conn[c], net[c], sent[c], answered[c], c \in Plain)
        /\ (c \in Plain) \in BOOLEAN /\ peer[c] # "away"
        /\ peer[c] \in {"away", "up", "closed"} /\ net[c] \in Seq(Bytes)
    BY <1>1, OfClient DEF Seen
  <1>3. m \in 0 .. Len(net[c])
    BY <1>2
  <1>4. Good(k, w, sent[c], answered[c], c \in Plain)
    BY <1>1, <1>2, <1>3, ArrivedOK
  <1> HIDE DEF k, w
  <1>5. k # NoConn
    BY <1>4, NoConnection DEF Good, ConnOK
  <1>6. /\ sent' = [sent EXCEPT ![c] = sent[c]] /\ peer' = [peer EXCEPT ![c] = peer[c]]
        /\ answered' = [answered EXCEPT ![c] = answered[c]]
        /\ UNCHANGED listenVars
    BY <1>1, OfClient
  <1>7. Good(Seen(k), w, sent[c], answered[c], c \in Plain)
    BY <1>4, <1>5 DEF Seen
  <1>8. Becomes(c, k, w, sent[c], answered[c], peer[c])
    BY <1>1, <1>6 DEF Becomes
  <1> QED
    BY <1>1, <1>2, <1>5, <1>7, <1>8, OneClient

\* EOF or a reset, which may lose what was on the way.
LEMMA SocketBrokenStep ==
    ASSUME ServerInv, NEW c \in Clients, SocketEof(c) \/ SocketReset(c)
    PROVE  ServerInv'
  <1> DEFINE cn == conn[c]
             k == Broken(cn)
  <1>1. /\ cn # NoConn
        /\ conn' = [conn EXCEPT ![c] = k]
        /\ net' = net \/ net' = [net EXCEPT ![c] = << >>]
        /\ UNCHANGED << peer, sent, answered, listenVars >>
    BY DEF SocketEof, SocketReset, Connected, clientVars
  <1>2. /\ Good(cn, net[c], sent[c], answered[c], c \in Plain)
        /\ (c \in Plain) \in BOOLEAN /\ peer[c] # "away"
        /\ peer[c] \in {"away", "up", "closed"}
    BY <1>1, OfClient DEF Seen
  <1> HIDE DEF cn
  <1>3. PICK w : /\ net' = [net EXCEPT ![c] = w]
                 /\ Good(cn, w, sent[c], answered[c], c \in Plain)
    <2>1. Good(cn, << >>, sent[c], answered[c], c \in Plain)
      BY <1>2, LostOK
    <2>2. CASE net' = net
      <3>1. net' = [net EXCEPT ![c] = net[c]]
        BY <2>2, OfClient
      <3> QED
        BY <1>2, <3>1
    <2>3. CASE net' = [net EXCEPT ![c] = << >>]
      BY <2>1, <2>3
    <2> QED
      BY <1>1, <2>2, <2>3
  <1>4. /\ k \in ConnType
        /\ k.state = cn.state /\ k.expected = cn.expected
        /\ ~k.reading /\ k.readbuf = cn.readbuf /\ k.input = cn.input
        /\ k.logId = cn.logId /\ k.monitor = cn.monitor
        /\ k.isProcessing = cn.isProcessing /\ k.hasError = cn.hasError
        /\ k.readDue = cn.readDue
        /\ cn.hasError => cn.isProcessing
    <2>1. cn \in ConnType /\ (cn.hasError => cn.isProcessing)
      BY <1>2 DEF Good, ConnOK
    <2> QED
      BY <2>1, BrokenIs
  <1> HIDE DEF k
  <1>5. Good(k, w, sent[c], answered[c], c \in Plain)
    BY <1>2, <1>3, <1>4, ToldOK
  <1>6. k # NoConn
    BY <1>4, NoConnection
  <1>7. /\ sent' = [sent EXCEPT ![c] = sent[c]] /\ peer' = [peer EXCEPT ![c] = peer[c]]
        /\ answered' = [answered EXCEPT ![c] = answered[c]]
        /\ UNCHANGED listenVars
    BY <1>1, OfClient
  <1>8. Good(Seen(k), w, sent[c], answered[c], c \in Plain)
    BY <1>5, <1>6 DEF Seen
  <1>9. Becomes(c, k, w, sent[c], answered[c], peer[c])
    BY <1>1, <1>3, <1>7 DEF Becomes, cn
  <1> QED
    BY <1>1, <1>2, <1>6, <1>8, <1>9, OneClient DEF cn

\* An error is noted as long as the connection is in processing.
LEMMA NotedOK ==
    ASSUME NEW cn, NEW w, NEW n, NEW a, NEW q \in BOOLEAN, Good(cn, w, n, a, q)
    PROVE  \/ ErrorCb(cn) = NoConn /\ ~cn.isProcessing
           \/ /\ cn.isProcessing /\ ErrorCb(cn).isProcessing /\ ErrorCb(cn).hasError
              /\ Good(ErrorCb(cn), w, n, a, q)
  <1>1. CASE ~cn.isProcessing
    BY <1>1 DEF ErrorCb
  <1>2. CASE cn.isProcessing
    <2> DEFINE k == ErrorCb(cn)
    <2>1. cn \in ConnType
      BY DEF Good, ConnOK
    <2>2. k = [cn EXCEPT !.hasError = TRUE]
      BY <1>2 DEF ErrorCb
    <2> HIDE DEF k
    <2>3. /\ k \in ConnType
          /\ k.state = cn.state /\ k.expected = cn.expected
          /\ k.reading = cn.reading /\ k.readbuf = cn.readbuf /\ k.input = cn.input
          /\ k.logId = cn.logId /\ k.monitor = cn.monitor
          /\ k.isProcessing = cn.isProcessing /\ k.hasError
          /\ k.readDue = cn.readDue
      BY <2>1, <2>2 DEF ConnType
    <2>4. Good(k, w, n, a, q)
      BY <1>2, <2>3, ToldOK
    <2> QED
      BY <1>2, <2>3, <2>4 DEF k
  <1> QED
    BY <1>1, <1>2

\* The deferred callbacks of c: what they leave behind, and the phase of the
\* connection.
LEMMA DeferredIs ==
    ASSUME ServerInv, NEW c \in Clients, Deferred(c)
    PROVE  \E left, a :
             /\ conn[c] # NoConn
             /\ conn' = [conn EXCEPT ![c] = left]
             /\ UNCHANGED listenVars
             /\ left = NoConn => /\ ~conn[c].isProcessing /\ Disconnect(c)
                                 /\ answered' = [answered EXCEPT ![c] = << >>]
             /\ left # NoConn =>
                  /\ Good(left, net[c], sent[c], a, c \in Plain)
                  /\ answered' = [answered EXCEPT ![c] = a]
                  /\ UNCHANGED << peer, net, sent >>
                  /\ conn[c].isProcessing => left.isProcessing
                  /\ conn[c].hasError => left.hasError
                  /\ left.hasError => left.isProcessing
  <1> DEFINE old == conn[c]
             cn == [old EXCEPT !.readDue = FALSE, !.eventDue = FALSE]
             q == c \in Plain
             outs == IF old.readDue THEN ReadOutcomes(c, cn) ELSE {<< cn, << >> >>}
             Left(out) == IF old.eventDue /\ out[1] # NoConn
                          THEN ErrorCb(out[1]) ELSE out[1]
  <1>1. /\ old # NoConn /\ UNCHANGED listenVars
        /\ \E out \in outs :
             /\ conn' = [conn EXCEPT ![c] = Left(out)]
             /\ IF Left(out) = NoConn
                THEN /\ Disconnect(c)
                     /\ answered' = [answered EXCEPT ![c] = << >>]
                ELSE /\ answered' = [answered EXCEPT ![c] = @ \o out[2]]
                     /\ UNCHANGED << peer, net, sent >>
    BY DEF Deferred, Connected
  <1>2. PICK out \in outs :
             /\ conn' = [conn EXCEPT ![c] = Left(out)]
             /\ IF Left(out) = NoConn
                THEN /\ Disconnect(c)
                     /\ answered' = [answered EXCEPT ![c] = << >>]
                ELSE /\ answered' = [answered EXCEPT ![c] = @ \o out[2]]
                     /\ UNCHANGED << peer, net, sent >>
    BY <1>1
  <1>3. /\ Good(old, net[c], sent[c], answered[c], q) /\ q \in BOOLEAN
        /\ answered[c] \in Seq(1 .. MaxRequests)
    BY <1>1, OfClient DEF Seen
  <1>4. /\ old \in ConnType /\ (old.hasError => old.isProcessing)
        /\ (old.isProcessing => ~old.readDue)
    BY <1>3 DEF Good, ConnOK
  <1>5. cn = Called(old)
    BY DEF Called
  <1> HIDE DEF old, cn, q
  <1>6. /\ cn \in ConnType
        /\ cn.state = old.state /\ cn.expected = old.expected
        /\ cn.reading = old.reading /\ cn.readbuf = old.readbuf
        /\ cn.input = old.input
        /\ cn.logId = old.logId /\ cn.monitor = old.monitor
        /\ cn.isProcessing = old.isProcessing /\ cn.hasError = old.hasError
        /\ ~cn.readDue
    BY <1>4, <1>5, CalledIs
  <1>7. Good(cn, net[c], sent[c], answered[c], q)
    BY <1>3, <1>4, <1>6, ToldOK
  <1> DEFINE a == answered[c] \o out[2]
  <1>8. \/ out[1] = NoConn /\ ~old.isProcessing
        \/ /\ Good(out[1], net[c], sent[c], a, q)
           /\ old.isProcessing => out[1].isProcessing
           /\ old.hasError => out[1].hasError
           /\ ~old.isProcessing => ~out[1].hasError
    <2>1. CASE old.readDue
      <3>1. ~cn.isProcessing /\ ~old.hasError /\ ~old.isProcessing
        BY <1>4, <1>6, <2>1
      <3>2. out \in ReadOutcomes(c, cn)
        BY <2>1
      <3>3. \/ out[1] = NoConn
            \/ ~out[1].hasError /\ Good(out[1], net[c], sent[c], a, q)
        BY <1>3, <1>6, <1>7, <3>1, <3>2, OutcomesOK
      <3> QED
        BY <3>1, <3>3
    <2>2. CASE ~old.readDue
      <3>1. out = << cn, << >> >>
        BY <2>2
      <3>2. a = answered[c]
        BY <1>3, <3>1, ConcatEmptySeq
      <3> HIDE DEF a, outs
      <3> QED
        BY <1>4, <1>6, <1>7, <3>1, <3>2
    <2> QED
      BY <2>1, <2>2
  <1> DEFINE left == Left(out)
  <1>9. \/ left = NoConn /\ ~old.isProcessing
        \/ /\ left # NoConn
           /\ Good(left, net[c], sent[c], a, q)
           /\ old.isProcessing => left.isProcessing
           /\ old.hasError => left.hasError
           /\ left.hasError => left.isProcessing
    <2> HIDE DEF a
    <2>1. CASE out[1] = NoConn
      BY <1>8, <2>1, NoConnection DEF Good, ConnOK
    <2>2. CASE out[1] # NoConn /\ ~old.eventDue
      <3>1. left = out[1]
        BY <2>2
      <3> HIDE DEF left
      <3> QED
        BY <1>8, <2>2, <3>1 DEF Good, ConnOK
    <2>3. CASE out[1] # NoConn /\ old.eventDue
      <3>1. left = ErrorCb(out[1])
        BY <2>3
      <3>2. Good(out[1], net[c], sent[c], a, q)
        BY <1>8, <2>3
      <3>3. \/ ErrorCb(out[1]) = NoConn /\ ~out[1].isProcessing
            \/ /\ ErrorCb(out[1]).isProcessing /\ ErrorCb(out[1]).hasError
               /\ Good(ErrorCb(out[1]), net[c], sent[c], a, q)
        BY <1>3, <3>2, NotedOK
      <3> HIDE DEF left
      <3> QED
        BY <1>8, <2>3, <3>1, <3>3, NoConnection DEF Good, ConnOK
    <2> QED
      BY <2>1, <2>2, <2>3
  <1>10. /\ conn' = [conn EXCEPT ![c] = left]
         /\ left = NoConn => /\ Disconnect(c)
                             /\ answered' = [answered EXCEPT ![c] = << >>]
         /\ left # NoConn => /\ answered' = [answered EXCEPT ![c] = a]
                             /\ UNCHANGED << peer, net, sent >>
    BY <1>2
  <1> HIDE DEF left, a
  <1> QED
    BY <1>1, <1>9, <1>10 DEF old, q

LEMMA DeferredStep ==
    ASSUME ServerInv, NEW c \in Clients, Deferred(c) PROVE ServerInv'
  <1>1. PICK left, a :
             /\ conn[c] # NoConn
             /\ conn' = [conn EXCEPT ![c] = left]
             /\ UNCHANGED listenVars
             /\ left = NoConn => /\ ~conn[c].isProcessing /\ Disconnect(c)
                                 /\ answered' = [answered EXCEPT ![c] = << >>]
             /\ left # NoConn =>
                  /\ Good(left, net[c], sent[c], a, c \in Plain)
                  /\ answered' = [answered EXCEPT ![c] = a]
                  /\ UNCHANGED << peer, net, sent >>
    BY DeferredIs
  <1>2. CASE left = NoConn
    BY <1>1, <1>2, GoneOK
  <1>3. CASE left # NoConn
    <2>1. Becomes(c, left, net[c], sent[c], a, peer[c])
      <3>1. /\ net' = [net EXCEPT ![c] = net[c]]
            /\ sent' = [sent EXCEPT ![c] = sent[c]]
            /\ peer' = [peer EXCEPT ![c] = peer[c]]
        BY <1>1, <1>3, OfClient
      <3> QED
        BY <1>1, <1>3, <3>1 DEF Becomes
    <2>2. peer[c] \in {"away", "up", "closed"} /\ peer[c] # "away"
      BY <1>1, OfClient
    <2>3. Good(Seen(left), net[c], sent[c], a, c \in Plain)
      BY <1>1, <1>3 DEF Seen
    <2> QED
      BY <1>1, <1>3, <2>1, <2>2, <2>3, OneClient
  <1> QED
    BY <1>2, <1>3

LEMMA ProcessDoneStep ==
    ASSUME ServerInv, NEW c \in Clients, ProcessDone(c) PROVE ServerInv'
  <1> DEFINE cn == conn[c]
             left == ServerProcessDone(cn)
             a == Append(answered[c], cn.logId)
  <1>1. /\ cn # NoConn /\ cn.isProcessing /\ ~cn.monitor
        /\ conn' = [conn EXCEPT ![c] = left]
        /\ left = NoConn => /\ Disconnect(c)
                            /\ answered' = [answered EXCEPT ![c] = << >>]
        /\ left # NoConn => /\ answered' = [answered EXCEPT ![c] = a]
                            /\ UNCHANGED << peer, net, sent >>
        /\ UNCHANGED listenVars
    BY DEF ProcessDone, Connected
  <1>2. /\ Good(cn, net[c], sent[c], answered[c], c \in Plain)
        /\ (c \in Plain) \in BOOLEAN /\ peer[c] # "away"
        /\ peer[c] \in {"away", "up", "closed"}
    BY <1>1, OfClient DEF Seen
  <1>3. CASE cn.hasError
    <2>1. left = NoConn
      BY <1>3 DEF ServerProcessDone
    <2> QED
      BY <1>1, <2>1, GoneOK
  <1>4. CASE ~cn.hasError
    <2>1. left = Released(cn)
      BY <1>4 DEF ServerProcessDone, Released
    <2> HIDE DEF cn, left
    <2>2. Good(Released(cn), net[c], sent[c], Append(answered[c], cn.logId), c \in Plain)
      <3> DEFINE q == c \in Plain
      <3>1. q \in BOOLEAN /\ Good(cn, net[c], sent[c], answered[c], q)
        BY <1>2
      <3> HIDE DEF q
      <3>2. Good(Released(cn), net[c], sent[c], Append(answered[c], cn.logId), q)
        BY <1>1, <1>4, <3>1, AnsweredOK
      <3> QED
        BY <3>2 DEF q
    <2>3. left # NoConn
      BY <2>1, <2>2, NoConnection DEF Good, ConnOK
    <2>4. Good(Seen(left), net[c], sent[c], a, c \in Plain)
      BY <2>1, <2>2, <2>3 DEF Seen
    <2>5. Becomes(c, left, net[c], sent[c], a, peer[c])
      <3>1. /\ net' = [net EXCEPT ![c] = net[c]]
            /\ sent' = [sent EXCEPT ![c] = sent[c]]
            /\ peer' = [peer EXCEPT ![c] = peer[c]]
        BY <1>1, <2>3, OfClient
      <3> QED
        BY <1>1, <2>3, <3>1 DEF Becomes
    <2> HIDE DEF a
    <2> QED
      BY <1>1, <1>2, <2>3, <2>4, <2>5, OneClient DEF cn
  <1> QED
    BY <1>3, <1>4

LEMMA ServerInvStep == ServerInv /\ [ServerNext]_serverVars => ServerInv'
  <1> SUFFICES ASSUME ServerInv, [ServerNext]_serverVars PROVE ServerInv'
    OBVIOUS
  <1>1. CASE AcceptLimit \/ EnableAccept \/ UNCHANGED serverVars
    <2>1. /\ UNCHANGED << peer, net, sent, answered, backlog, conn >>
          /\ accepting' \in BOOLEAN /\ timer' \in BOOLEAN
      BY <1>1 DEF ServerInv, ServerTypeOK, AcceptLimit, EnableAccept, serverVars,
                  clientVars, listenVars
    <2>2. ServerTypeOK'
      BY <2>1 DEF ServerInv, ServerTypeOK
    <2>3. Waiting'
      BY <2>1 DEF ServerInv, Waiting
    <2>4. \A c \in Clients : Served(c)'
      BY <2>1 DEF ServerInv, Served, View
    <2> QED
      BY <2>2, <2>3, <2>4 DEF ServerInv
  <1>2. CASE AcceptRefused
    BY <1>2, AcceptRefusedStep
  <1>3. CASE AcceptCb
    BY <1>3, AcceptCbStep
  <1>4. ASSUME NEW c \in Clients, Connect(c) PROVE ServerInv'
    BY <1>4, ConnectStep
  <1>5. ASSUME NEW c \in Clients, NEW b \in Bodies, NEW probe \in BOOLEAN,
               Send(c, b, probe)
        PROVE  ServerInv'
    BY <1>5, SendStep
  <1>6. ASSUME NEW c \in Clients, Leave(c) \/ GiveUp(c) PROVE ServerInv'
    BY <1>6, CloseStep
  <1>7. ASSUME NEW c \in Clients, NEW m \in 1 .. Len(net[c]), SocketRead(c, m)
        PROVE  ServerInv'
    BY <1>7, SocketReadStep
  <1>8. ASSUME NEW c \in Clients, SocketEof(c) \/ SocketReset(c) PROVE ServerInv'
    BY <1>8, SocketBrokenStep
  <1>9. ASSUME NEW c \in Clients, Deferred(c) PROVE ServerInv'
    BY <1>9, DeferredStep
  <1>10. ASSUME NEW c \in Clients, ProcessDone(c) PROVE ServerInv'
    BY <1>10, ProcessDoneStep
  <1> QED
    BY <1>1, <1>2, <1>3, <1>4, <1>5, <1>6, <1>7, <1>8, <1>9, <1>10 DEF ServerNext

\* ServerInv holds in every state.
THEOREM ServerInvariance == ServerSpec => []ServerInv
  BY ServerInvInit, ServerInvStep, PTL DEF ServerSpec

-----------------------------------------------------------------------------
(* The properties *)

\* A client that waits for its answers has its whole request, and nothing
\* else, read into the buffer that req_ready gets, and no byte of a buffer is
\* memory that was never written, for every number of clients, all lengths of
\* bodies, every size of a head, and however the bytes arrive
\* (nshead_conn_read, nshead_conn_set_expected_input_len).
THEOREM FramesStayIntact == ServerSpec => []FrameIntact
  <1>1. ServerInv => FrameIntact
    <2> SUFFICES ASSUME ServerInv PROVE FrameIntact
      OBVIOUS
    <2>1. ASSUME NEW c \in Clients, Processing(c)
          PROVE  /\ Junk \notin Range(conn[c].readbuf)
                 /\ c \in Plain =>
                      /\ conn[c].logId = sent[c]
                      /\ SubSeq(conn[c].readbuf, 1, conn[c].expected)
                           = BodyOf(sent[c], conn[c].expected)
                      /\ conn[c].input = << >> /\ net[c] = << >>
      <3> DEFINE cn == conn[c]
      <3>1. cn # NoConn /\ cn.isProcessing
        BY <2>1 DEF Processing, Connected
      <3>2. /\ Good(cn, net[c], sent[c], answered[c], c \in Plain)
            /\ net[c] \in Seq(Bytes)
        BY <3>1, OfClient DEF Seen
      <3> HIDE DEF cn
      <3>3. cn \in ConnType /\ cn.state = "processing" /\ NoJunk(cn.readbuf)
        BY <3>1, <3>2 DEF Good, ConnOK
      <3>4. Junk \notin Range(cn.readbuf)
        BY <3>3 DEF NoJunk, Range
      <3>5. ASSUME c \in Plain
            PROVE  /\ cn.logId = sent[c]
                   /\ SubSeq(cn.readbuf, 1, cn.expected) = BodyOf(sent[c], cn.expected)
                   /\ cn.input = << >> /\ net[c] = << >>
        <4>1. FrameOK(cn, net[c], sent[c], answered[c])
          BY <3>2, <3>5 DEF Good
        <4>2. /\ cn.logId = sent[c]
              /\ SubSeq(cn.readbuf, 1, cn.expected) = BodyOf(sent[c], cn.expected)
              /\ Unread(cn, net[c]) = << >>
          BY <3>3, <4>1 DEF FrameOK
        <4>3. /\ cn.input \in Seq(Bytes) /\ net[c] \in Seq(Bytes)
              /\ cn.input \o net[c] = << >>
          BY <3>2, <3>3, <4>2, UnreadIs DEF Unread
        <4>4. cn.input = << >> /\ net[c] = << >>
          BY ONLY <4>3, BothEmpty
        <4> QED
          BY <4>2, <4>4
      <3> QED
        BY <3>4, <3>5 DEF cn
    <2> QED
      BY <2>1 DEF FrameIntact, ServerInv
  <1> QED
    BY <1>1, ServerInvariance, PTL

\* Answers come in the order of the requests, none twice, and none to a
\* request that was not sent, also if bytes of pipelined requests were lost
\* (read_done_cb, req_done, server_process_done).
THEOREM AnswersStayInOrder == ServerSpec => []AnswersInOrder
  <1>1. ServerInv => AnswersInOrder
    <2> SUFFICES ASSUME ServerInv, NEW c \in Clients
                 PROVE  /\ \A j, k \in DOMAIN answered[c] :
                             j < k => answered[c][j] < answered[c][k]
                        /\ \A j \in DOMAIN answered[c] : answered[c][j] <= sent[c]
      BY DEF AnswersInOrder
    <2> DEFINE cn == Seen(conn[c])
    <2>1. /\ Good(cn, net[c], sent[c], answered[c], c \in Plain)
          /\ answered[c] \in Seq(1 .. MaxRequests) /\ sent[c] \in Nat
      BY OfClient, Numbers
    <2> HIDE DEF cn
    <2>2. /\ Increasing(answered[c]) /\ cn.logId <= sent[c] /\ cn.logId \in Nat
          /\ \A j \in DOMAIN answered[c] : answered[c][j] <= cn.logId
      BY <2>1, Numbers DEF Good, OrderOK, ConnOK, ConnType
    <2>3. \A j \in DOMAIN answered[c] : answered[c][j] \in Nat
      BY <2>1, NumbersGot
    <2> QED
      BY <2>1, <2>2, <2>3 DEF Increasing
  <1> QED
    BY <1>1, ServerInvariance, PTL

-----------------------------------------------------------------------------
(* The connection's life *)

Phase(k) ==
    IF k = NoConn THEN "closed"
    ELSE IF k.isProcessing THEN "processing" ELSE "reading"

Failed(k) == k # NoConn /\ k.hasError

Phases == [c \in Clients |-> Phase(conn[c])]

FailedOnes == {c \in Connected : conn[c].hasError}

LEMMA LifeIs ==
    /\ Life!CLInit <=> (Phases = [c \in Clients |-> "closed"] /\ FailedOnes = {})
    /\ \A c \in Clients :
         /\ Life!Open(c) <=>
              /\ Phases[c] = "closed" /\ Phases' = [Phases EXCEPT ![c] = "reading"]
              /\ FailedOnes' = FailedOnes
         /\ Life!Take(c) <=>
              /\ Phases[c] = "reading"
              /\ Phases' = [Phases EXCEPT ![c] = "processing"]
              /\ FailedOnes' \in {FailedOnes, FailedOnes \cup {c}}
         /\ Life!Fail(c) <=>
              /\ Phases[c] # "closed"
              /\ IF Phases[c] = "reading"
                 THEN /\ Phases' = [Phases EXCEPT ![c] = "closed"]
                      /\ FailedOnes' = FailedOnes
                 ELSE FailedOnes' = FailedOnes \cup {c} /\ Phases' = Phases
         /\ Life!Finish(c) <=>
              /\ Phases[c] = "processing"
              /\ Phases' = [Phases EXCEPT ![c] = IF c \in FailedOnes THEN "closed"
                                                 ELSE "reading"]
              /\ FailedOnes' = FailedOnes \ {c}
    /\ UNCHANGED Life!clvars <=> (Phases' = Phases /\ FailedOnes' = FailedOnes)
  BY DEF Phases, Phase, FailedOnes, Life!CLInit, Life!Open, Life!Take, Life!Fail,
         Life!Finish, Life!clvars

\* The step of one connection, as ConnLife sees it.
LEMMA OneConnection ==
    ASSUME conn \in [Clients -> ConnType \cup {NoConn}],
           NEW c \in Clients, NEW k \in ConnType \cup {NoConn},
           conn' = [conn EXCEPT ![c] = k]
    PROVE  /\ Phases[c] = Phase(conn[c]) /\ (c \in FailedOnes <=> Failed(conn[c]))
           /\ Phases' = [Phases EXCEPT ![c] = Phase(k)]
           /\ Failed(k) => FailedOnes' = FailedOnes \cup {c}
           /\ ~Failed(k) => FailedOnes' = FailedOnes \ {c}
  <1>1. /\ conn'[c] = k
        /\ \A d \in Clients \ {c} : conn'[d] = conn[d]
    OBVIOUS
  <1>2. \A d : /\ d \in FailedOnes <=> d \in Clients /\ Failed(conn[d])
               /\ d \in FailedOnes' <=> d \in Clients /\ Failed(conn'[d])
    BY DEF FailedOnes, Connected, Failed
  <1>3. \A d \in Clients : Phases'[d] = Phase(conn'[d]) /\ Phases[d] = Phase(conn[d])
    BY DEF Phases, Phase
  <1>4. Phases' = [Phases EXCEPT ![c] = Phase(k)]
    <2>1. DOMAIN Phases = Clients /\ DOMAIN Phases' = Clients
      BY DEF Phases
    <2>2. Phases' = [d \in Clients |-> Phases'[d]]
      BY DEF Phases
    <2>3. Phases = [d \in Clients |-> Phases[d]]
      BY DEF Phases
    <2>4. \A d \in Clients : Phases'[d] = IF d = c THEN Phase(k) ELSE Phases[d]
      BY <1>1, <1>3
    <2> QED
      BY <2>2, <2>3, <2>4
  <1>5. Failed(k) => FailedOnes' = FailedOnes \cup {c}
    BY <1>1, <1>2
  <1>6. ~Failed(k) => FailedOnes' = FailedOnes \ {c}
    BY <1>1, <1>2
  <1> QED
    BY <1>2, <1>3, <1>4, <1>5, <1>6

LEMMA LifeInit == ServerInit => Life!CLInit
  <1> SUFFICES ASSUME ServerInit PROVE Life!CLInit
    OBVIOUS
  <1>1. \A c \in Clients : conn[c] = NoConn
    BY DEF ServerInit
  <1>2. Phases = [c \in Clients |-> "closed"] /\ FailedOnes = {}
    BY <1>1 DEF Phases, Phase, FailedOnes, Connected
  <1> QED
    BY <1>2, LifeIs

LEMMA LifeStep ==
    ServerInv /\ [ServerNext]_serverVars => [Life!CLNext]_Life!clvars
  <1> SUFFICES ASSUME ServerInv, [ServerNext]_serverVars
               PROVE  Life!CLNext \/ UNCHANGED Life!clvars
    OBVIOUS
  <1>1. /\ conn \in [Clients -> ConnType \cup {NoConn}]
        /\ Phases \in [Clients -> {"closed", "reading", "processing"}]
    BY DEF ServerInv, ServerTypeOK, Phases, Phase
  \* What a connection is told does not matter as long as it stays in its phase
  \* and no error is noted.
  <1>2. ASSUME NEW c \in Clients, NEW k \in ConnType \cup {NoConn},
               conn' = [conn EXCEPT ![c] = k],
               Phase(k) = Phase(conn[c]), Failed(k) <=> Failed(conn[c])
        PROVE  UNCHANGED Life!clvars
    <2>1. /\ Phases[c] = Phase(conn[c]) /\ (c \in FailedOnes <=> Failed(conn[c]))
          /\ Phases' = [Phases EXCEPT ![c] = Phase(k)]
          /\ Failed(k) => FailedOnes' = FailedOnes \cup {c}
          /\ ~Failed(k) => FailedOnes' = FailedOnes \ {c}
      BY <1>1, <1>2, OneConnection
    <2>2. Phases' = Phases
      BY <1>1, <1>2, <2>1
    <2>3. FailedOnes' = FailedOnes
      BY <1>2, <2>1
    <2> QED
      BY <2>2, <2>3, LifeIs
  <1>3. CASE UNCHANGED conn
    <2>1. Phases' = Phases /\ FailedOnes' = FailedOnes
      BY <1>3 DEF Phases, Phase, FailedOnes, Connected
    <2> QED
      BY <2>1, LifeIs
  <1>4. CASE AcceptCb
    <2>1. PICK c \in Clients :
            conn[c] = NoConn /\ conn' = [conn EXCEPT ![c] = NewConnection]
      <3>1. /\ Head(backlog) \in Clients /\ conn[Head(backlog)] = NoConn
            /\ conn' = [conn EXCEPT ![Head(backlog)] = NewConnection]
        BY <1>4, HeadOfBacklog DEF AcceptCb
      <3> QED
        BY <3>1
    <2>2. /\ NewConnection \in ConnType /\ NewConnection # NoConn
          /\ ~NewConnection.isProcessing /\ ~NewConnection.hasError
      BY NewConnectionIs, NoConnection
    <2>3. /\ Phase(conn[c]) = "closed" /\ Phase(NewConnection) = "reading"
          /\ ~Failed(conn[c]) /\ ~Failed(NewConnection)
      BY <2>1, <2>2 DEF Phase, Failed
    <2>4. /\ Phases[c] = "closed" /\ c \notin FailedOnes
          /\ Phases' = [Phases EXCEPT ![c] = "reading"]
          /\ FailedOnes' = FailedOnes \ {c}
      BY <1>1, <2>1, <2>2, <2>3, OneConnection
    <2>5. Life!Open(c)
      BY <2>1, <2>4, LifeIs
    <2> QED
      BY <2>1, <2>5 DEF Life!CLNext
  <1>5. ASSUME NEW c \in Clients,
               \/ \E m \in 1 .. Len(net[c]) : SocketRead(c, m)
               \/ SocketEof(c) \/ SocketReset(c)
        PROVE  UNCHANGED Life!clvars
    <2>1. PICK k \in ConnType :
            /\ conn[c] # NoConn /\ conn' = [conn EXCEPT ![c] = k]
            /\ k.isProcessing = conn[c].isProcessing
            /\ k.hasError = conn[c].hasError
      <3>1. CASE \E m \in 1 .. Len(net[c]) : SocketRead(c, m)
        <4>1. PICK m \in 1 .. Len(net[c]) : SocketRead(c, m)
          BY <3>1
        <4> DEFINE bs == SubSeq(net[c], 1, m)
        <4>2. /\ conn[c] # NoConn /\ conn[c] \in ConnType
              /\ conn' = [conn EXCEPT ![c] = Arrived(conn[c], bs)]
          BY <1>1, <4>1 DEF SocketRead, Connected
        <4>3. bs \in Seq(Bytes)
          <5>1. net[c] \in Seq(Bytes)
            BY OfClient
          <5>2. m \in 0 .. Len(net[c])
            BY <5>1
          <5> QED
            BY <5>1, <5>2, Moved
        <4> HIDE DEF bs
        <4>4. /\ Arrived(conn[c], bs) \in ConnType
              /\ Arrived(conn[c], bs).isProcessing = conn[c].isProcessing
              /\ Arrived(conn[c], bs).hasError = conn[c].hasError
          BY <4>2, <4>3, ArrivedIs
        <4> QED
          BY <4>2, <4>4
      <3>2. CASE SocketEof(c) \/ SocketReset(c)
        <4>1. /\ conn[c] # NoConn /\ conn[c] \in ConnType
              /\ conn' = [conn EXCEPT ![c] = Broken(conn[c])]
          BY <1>1, <3>2 DEF SocketEof, SocketReset, Connected
        <4>2. /\ Broken(conn[c]) \in ConnType
              /\ Broken(conn[c]).isProcessing = conn[c].isProcessing
              /\ Broken(conn[c]).hasError = conn[c].hasError
          BY <4>1, BrokenIs
        <4> QED
          BY <4>1, <4>2
      <3> QED
        BY <1>5, <3>1, <3>2
    <2>2. Phase(k) = Phase(conn[c]) /\ (Failed(k) <=> Failed(conn[c]))
      BY <2>1, NoConnection DEF Phase, Failed
    <2> QED
      BY <1>2, <2>1, <2>2
  <1>6. ASSUME NEW c \in Clients, Deferred(c)
        PROVE  Life!CLNext \/ UNCHANGED Life!clvars
    <2>1. PICK left, a :
             /\ conn[c] # NoConn
             /\ conn' = [conn EXCEPT ![c] = left]
             /\ left = NoConn => ~conn[c].isProcessing
             /\ left # NoConn =>
                  /\ Good(left, net[c], sent[c], a, c \in Plain)
                  /\ conn[c].isProcessing => left.isProcessing
                  /\ conn[c].hasError => left.hasError
                  /\ left.hasError => left.isProcessing
      BY <1>6, DeferredIs
    <2>2. left \in ConnType \cup {NoConn}
      BY <2>1 DEF Good, ConnOK
    <2>3. conn[c].hasError => conn[c].isProcessing
      BY <2>1, OfClient DEF Seen, Good, ConnOK
    <2>4. /\ Phases[c] = Phase(conn[c]) /\ (c \in FailedOnes <=> Failed(conn[c]))
          /\ Phases' = [Phases EXCEPT ![c] = Phase(left)]
          /\ Failed(left) => FailedOnes' = FailedOnes \cup {c}
          /\ ~Failed(left) => FailedOnes' = FailedOnes \ {c}
      BY <1>1, <2>1, <2>2, OneConnection
    <2>5. CASE left = NoConn
      <3>1. /\ Phases[c] = "reading" /\ c \notin FailedOnes
            /\ Phase(left) = "closed" /\ ~Failed(left)
        BY <2>1, <2>3, <2>4, <2>5 DEF Phase, Failed
      <3>2. Life!Fail(c)
        BY <2>4, <3>1, LifeIs
      <3> QED
        BY <3>2 DEF Life!CLNext
    <2>6. CASE left # NoConn /\ conn[c].isProcessing
      <3>1. /\ Phases[c] = "processing" /\ Phase(left) = "processing"
            /\ c \in FailedOnes => Failed(left)
        BY <2>1, <2>4, <2>6 DEF Phase, Failed
      <3>2. Phases' = Phases
        BY <1>1, <2>4, <3>1
      <3>3. CASE Failed(left)
        <4>1. Life!Fail(c)
          BY <2>4, <3>1, <3>2, <3>3, LifeIs
        <4> QED
          BY <4>1 DEF Life!CLNext
      <3>4. CASE ~Failed(left)
        <4>1. FailedOnes' = FailedOnes
          BY <2>4, <3>1, <3>4
        <4> QED
          BY <3>2, <4>1, LifeIs
      <3> QED
        BY <3>3, <3>4
    <2>7. CASE left # NoConn /\ ~conn[c].isProcessing
      <3>1. Phases[c] = "reading" /\ c \notin FailedOnes
        BY <2>1, <2>3, <2>4, <2>7 DEF Phase, Failed
      <3>2. FailedOnes' \in {FailedOnes, FailedOnes \cup {c}}
        BY <2>4, <3>1
      <3>3. CASE left.isProcessing
        <4>1. Phase(left) = "processing"
          BY <2>7, <3>3 DEF Phase
        <4>2. Life!Take(c)
          BY <2>4, <3>1, <3>2, <4>1, LifeIs
        <4> QED
          BY <4>2 DEF Life!CLNext
      <3>4. CASE ~left.isProcessing
        <4>1. Phase(left) = "reading" /\ ~Failed(left)
          BY <2>1, <2>7, <3>4 DEF Phase, Failed
        <4>2. Phases' = Phases /\ FailedOnes' = FailedOnes
          BY <1>1, <2>4, <3>1, <4>1
        <4> QED
          BY <4>2, LifeIs
      <3> QED
        BY <3>3, <3>4
    <2> QED
      BY <2>5, <2>6, <2>7
  <1>7. ASSUME NEW c \in Clients, ProcessDone(c) PROVE Life!CLNext
    <2> DEFINE k == ServerProcessDone(conn[c])
    <2>1. /\ conn[c] # NoConn /\ conn[c].isProcessing /\ conn[c] \in ConnType
          /\ conn' = [conn EXCEPT ![c] = k]
      BY <1>1, <1>7 DEF ProcessDone, Connected
    <2>2. /\ Failed(conn[c]) => k = NoConn
          /\ ~Failed(conn[c]) => k = Released(conn[c])
      BY <2>1 DEF ServerProcessDone, Released, Failed
    <2>3. /\ Released(conn[c]) \in ConnType
          /\ ~Released(conn[c]).isProcessing
          /\ Released(conn[c]).hasError = conn[c].hasError
      BY <2>1, ReleasedIs
    <2> HIDE DEF k
    <2>4. /\ k \in ConnType \cup {NoConn} /\ ~Failed(k)
          /\ Phase(k) = IF Failed(conn[c]) THEN "closed" ELSE "reading"
      BY <2>1, <2>2, <2>3, NoConnection DEF Phase, Failed
    <2>5. /\ Phases[c] = Phase(conn[c]) /\ (c \in FailedOnes <=> Failed(conn[c]))
          /\ Phases' = [Phases EXCEPT ![c] = Phase(k)]
          /\ FailedOnes' = FailedOnes \ {c}
      BY <1>1, <2>1, <2>4, OneConnection
    <2>6. Phases[c] = "processing"
      BY <2>1, <2>5 DEF Phase
    <2>7. Life!Finish(c)
      BY <2>4, <2>5, <2>6, LifeIs
    <2> QED
      BY <2>7 DEF Life!CLNext
  <1>8. \/ UNCHANGED conn
        \/ AcceptCb
        \/ \E c \in Clients :
             \/ \E m \in 1 .. Len(net[c]) : SocketRead(c, m)
             \/ SocketEof(c) \/ SocketReset(c) \/ Deferred(c) \/ ProcessDone(c)
    BY DEF ServerNext, serverVars, AcceptLimit, AcceptRefused, EnableAccept,
           Connect, Send, Leave, GiveUp
  <1> QED
    BY <1>3, <1>4, <1>5, <1>6, <1>7, <1>8

\* A connection lives as those who point to it rely on: it takes one request
\* at a time, and is not freed under it, an error being noted until the
\* request is finished (accept_cb, connection_call_error_cb,
\* server_process_done).
THEOREM ServerImplementsConnLife == ServerSpec => ImplementsConnLife
  <1>1. ServerInit => Life!CLInit
    BY LifeInit
  <1>2. ServerInv /\ [ServerNext]_serverVars => [Life!CLNext]_Life!clvars
    BY LifeStep
  <1> QED
    BY <1>1, <1>2, ServerInvariance, PTL
    DEF ServerSpec, ImplementsConnLife, Life!CLSpec
=============================================================================
