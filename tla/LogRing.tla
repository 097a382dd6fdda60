------------------------------ MODULE LogRing -------------------------------
(***************************************************************************)
(* The ring buffers of log.cpp, one for the log and one for its warnings.  *)
(* log_printf copies a line into a ring; the log thread, woken through a   *)
(* pipe, writes to the file what lies between the two offsets.  There is   *)
(* no lock, and the build does not optimise: every access to an offset     *)
(* that the other thread may see is a step of its own, so that an offset   *)
(* is seen before it is reduced modulo the size, and may change between a  *)
(* test and the expression that relies on it.                              *)
(*                                                                         *)
(* A byte is its number in the stream of bytes put into its ring; text is  *)
(* left out.  The event loop is the only thread that logs here, and writes *)
(* to a file are complete.                                                 *)
(***************************************************************************)
EXTENDS Integers, Sequences

CONSTANTS Rings,       \* a sequence: the thread serves them in this order
          Size,        \* LOG_BUF_SIZE
          MaxLine,     \* the longest line
          MaxBytes     \* bound on the bytes put into a ring

Ring == {Rings[i] : i \in DOMAIN Rings}

ASSUME LogRingAssumption ==
    /\ Rings \in Seq(Ring) /\ Rings # << >>
    /\ Size \in Nat \ {0} /\ MaxLine \in 1 .. Size - 1
    /\ MaxBytes \in Nat

VARIABLES
    buf,       \* log_buf, logwf_buf
    writeOff,  \* log_write_offset, logwf_write_offset
    readOff,   \* log_read_offset, logwf_read_offset
    logged,    \* the number of bytes that were put into a ring
    passed,    \* the number of bytes that the read offset has gone past
    clean,     \* the file has the bytes of the ring, each once and in order
    pipe,      \* log_pipe is not empty
    lpc,       \* where log_printf is
    dest,      \* the ring it writes to
    ret,       \* and the bytes it stores there
    tpc,       \* where log_thread_loop is
    turn,      \* the ring it is at, an index
    size       \* the bytes it has just written to the file

logVars == << buf, writeOff, readOff, logged, passed, clean, pipe, lpc, dest,
              ret, tpc, turn, size >>

RingTypeOK ==
    /\ buf \in [Ring -> [0 .. Size - 1 -> 0 .. MaxBytes]]
    /\ writeOff \in [Ring -> 0 .. Size + MaxLine - 1]
    /\ readOff \in [Ring -> 0 .. Size + MaxLine - 1]
    /\ logged \in [Ring -> 0 .. MaxBytes]
    /\ passed \in [Ring -> Nat] /\ clean \in [Ring -> BOOLEAN]
    /\ pipe \in BOOLEAN
    /\ lpc \in {"out", "copy", "add", "mod", "signal"}
    /\ dest \in Ring /\ ret \in 0 .. MaxLine
    /\ tpc \in {"wait", "empty", "compare", "tail", "head", "add", "mod",
                "addEnd", "modEnd", "crashed"}
    /\ turn \in DOMAIN Rings /\ size \in 0 .. Size + MaxLine

\* log_init
RingInit ==
    /\ buf = [q \in Ring |-> [n \in 0 .. Size - 1 |-> 0]]
    /\ writeOff = [q \in Ring |-> 0] /\ readOff = [q \in Ring |-> 0]
    /\ logged = [q \in Ring |-> 0] /\ passed = [q \in Ring |-> 0]
    /\ clean = [q \in Ring |-> TRUE]
    /\ pipe = FALSE
    /\ lpc = "out" /\ dest = Rings[1] /\ ret = 0
    /\ tpc = "wait" /\ turn = 1 /\ size = 0

-----------------------------------------------------------------------------
(* log_printf *)

\* The % of C: the remainder has the sign of a.
Rem(a, b) == IF a < 0 THEN - ((- a) % b) ELSE a % b

\* buf_left_size
Left(q) == Size - Rem(writeOff[q] - readOff[q] + Size, Size)

\* Mutant of Stored: the ring is filled completely.
Stored_Full(q, len) == IF len > Left(q) THEN Left(q) ELSE len

\* A line that does not fit is cut; one byte of the ring stays free.
Stored(q, len) == IF len > Left(q) - 1 THEN Left(q) - 1 ELSE len

\* The line is formatted, and the free space looked up.
Format(q, len) ==
    /\ lpc = "out"
    /\ logged[q] + len <= MaxBytes
    /\ lpc' = "copy" /\ dest' = q /\ ret' = Stored(q, len)
    /\ UNCHANGED << buf, writeOff, readOff, logged, passed, clean, pipe, tpc, turn, size >>

\* memcpy, in two parts if need be.
Copy ==
    /\ lpc = "copy"
    /\ lpc' = "add"
    /\ buf' = [buf EXCEPT ![dest] = [n \in 0 .. Size - 1 |->
                 LET k == (n - writeOff[dest] + Size) % Size
                 IN  IF k < ret THEN logged[dest] + k + 1 ELSE @[n]]]
    /\ logged' = [logged EXCEPT ![dest] = @ + ret]
    /\ UNCHANGED << writeOff, readOff, passed, clean, pipe, dest, ret, tpc, turn,
                    size >>

\* log_write_offset += ret
AddWrite ==
    /\ lpc = "add"
    /\ lpc' = "mod"
    /\ writeOff' = [writeOff EXCEPT ![dest] = @ + ret]
    /\ UNCHANGED << buf, readOff, logged, passed, clean, pipe, dest, ret, tpc, turn,
                    size >>

\* log_write_offset %= LOG_BUF_SIZE
ModWrite ==
    /\ lpc = "mod"
    /\ lpc' = "signal"
    /\ writeOff' = [writeOff EXCEPT ![dest] = @ % Size]
    /\ UNCHANGED << buf, readOff, logged, passed, clean, pipe, dest, ret, tpc, turn,
                    size >>

\* Mutant of Signal: the thread is not woken for a short line.
Signal_Long ==
    /\ lpc = "signal"
    /\ lpc' = "out"
    /\ pipe' = (pipe \/ ret > 1)
    /\ UNCHANGED << buf, writeOff, readOff, logged, passed, clean, dest, ret, tpc,
                    turn, size >>

\* write(log_pipe[1], "1", 1); a full pipe wakes the thread as well.
Signal ==
    /\ lpc = "signal"
    /\ lpc' = "out"
    /\ pipe' = TRUE
    /\ UNCHANGED << buf, writeOff, readOff, logged, passed, clean, dest, ret, tpc,
                    turn, size >>

LogPrintf == Copy \/ AddWrite \/ ModWrite \/ Signal

-----------------------------------------------------------------------------
(* log_thread_loop *)

cur == Rings[turn]

Thread(from, to) ==
    /\ tpc = from
    /\ tpc' = to
    /\ UNCHANGED << buf, writeOff, logged, lpc, dest, ret >>

\* read blocks until there is something in the pipe, and takes all of it.
Wake ==
    /\ pipe
    /\ Thread("wait", "empty")
    /\ pipe' = FALSE
    /\ UNCHANGED << readOff, passed, clean, turn, size >>

\* On to the next ring, or to sleep.
Served(from) ==
    IF turn = Len(Rings) THEN Thread(from, "wait") /\ turn' = 1
    ELSE Thread(from, "empty") /\ turn' = turn + 1

\* if (log_write_offset != log_read_offset)
TestEmpty ==
    /\ \/ writeOff[cur] # readOff[cur] /\ Thread("empty", "compare") /\ UNCHANGED turn
       \/ writeOff[cur] = readOff[cur] /\ Served("empty")
    /\ UNCHANGED << readOff, passed, clean, pipe, size >>

\* if (log_write_offset > log_read_offset)
Compare ==
    /\ Thread("compare", IF writeOff[cur] > readOff[cur] THEN "head" ELSE "tail")
    /\ UNCHANGED << readOff, passed, clean, pipe, turn, size >>

\* fwrite of count bytes from log_read_offset on.
Written(count) ==
    /\ size' = count
    /\ clean' = [clean EXCEPT ![cur] = @ /\ \A k \in 1 .. count :
                   /\ readOff[cur] + k <= Size
                   /\ buf[cur][readOff[cur] + k - 1] = passed[cur] + k]

\* fwrite up to the end of the buffer.
WriteTail ==
    /\ Thread("tail", "add")
    /\ Written(Size - readOff[cur])
    /\ UNCHANGED << readOff, passed, pipe, turn >>

\* fwrite of what lies between the offsets, with log_write_offset read again.
\* If it is smaller by now, the length is converted to a huge number.
WriteHead ==
    /\ IF writeOff[cur] >= readOff[cur]
       THEN Thread("head", "addEnd") /\ Written(writeOff[cur] - readOff[cur])
       ELSE Thread("head", "crashed") /\ UNCHANGED << clean, size >>
    /\ UNCHANGED << readOff, passed, pipe, turn >>

\* log_read_offset += size, after the first or the last fwrite
AddRead ==
    /\ \/ Thread("add", "mod")
       \/ Thread("addEnd", "modEnd")
    /\ readOff' = [readOff EXCEPT ![cur] = @ + size]
    /\ passed' = [passed EXCEPT ![cur] = @ + size]
    /\ UNCHANGED << clean, pipe, turn, size >>

\* log_read_offset %= LOG_BUF_SIZE
ModRead ==
    /\ \/ Thread("mod", "head") /\ UNCHANGED turn
       \/ Served("modEnd")
    /\ readOff' = [readOff EXCEPT ![cur] = @ % Size]
    /\ UNCHANGED << passed, clean, pipe, size >>

LogThread ==
    Wake \/ TestEmpty \/ Compare \/ WriteTail \/ WriteHead \/ AddRead \/ ModRead

-----------------------------------------------------------------------------

RingNext ==
    \/ \E q \in Ring, len \in 1 .. MaxLine : tpc # "crashed" /\ Format(q, len)
    \/ LogPrintf
    \/ LogThread

\* Both threads run; the program need not log.
RingSpec ==
    /\ RingInit /\ [][RingNext]_logVars
    /\ WF_logVars(LogPrintf) /\ WF_logVars(LogThread)

-----------------------------------------------------------------------------
(* Properties *)

\* The offsets stay in their ranges.  As long as the file has got nothing but
\* what was logged, the bytes that were put into a ring and not written to the
\* file are where the thread will look for them, in order: a line is cut rather
\* than written over one that is still waiting, although the free space is
\* computed from an offset that the thread moves at the same time
\* (buf_left_size).  Afterwards nothing of the kind holds: a thread that has
\* gone past the last byte logged takes the bytes that are put there later for
\* old ones.
UnreadIntact ==
    /\ RingTypeOK
    /\ \A q \in Ring : clean[q] =>
        /\ logged[q] - passed[q] \in 0 .. Size - 1
        /\ readOff[q] % Size = passed[q] % Size
        /\ \A n \in passed[q] + 1 .. logged[q] : buf[q][(n - 1) % Size] = n

\* When nothing more is logged the thread gets to the end of it, also of what
\* was logged when it was about to sleep (log_pipe); unless the file has got
\* something else before.
LogDrained ==
    \A q \in Ring :
        <>[](tpc = "crashed" \/ ~clean[q] \/ passed[q] = logged[q])

\* What gets into the file is what was put into the ring: every byte, once and
\* in order.
FileHasLines == tpc # "crashed" /\ \A q \in Ring : clean[q]
=============================================================================
