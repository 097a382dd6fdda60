--------------------------- MODULE LogRingProofs ----------------------------
(***************************************************************************)
(* Proofs about LogRing.  All of them turn on the offsets modulo the size: *)
(* the write offset is that of the number of bytes logged, and the read    *)
(* offset, as long as the file is clean, that of the number passed.        *)
(***************************************************************************)
EXTENDS LogRing, TLAPS

-----------------------------------------------------------------------------
(* Remainders *)

LEMMA ModDef ==
    ASSUME NEW a \in Int
    PROVE  /\ a = Size * (a \div Size) + (a % Size)
           /\ a \div Size \in Int /\ a % Size \in 0 .. Size - 1
  BY LogRingAssumption

LEMMA ModUnique ==
    ASSUME NEW a \in Int, NEW q \in Int, NEW r \in 0 .. Size - 1,
           a = Size * q + r
    PROVE  a % Size = r
  BY LogRingAssumption

LEMMA ModSmall ==
    ASSUME NEW a \in 0 .. Size - 1
    PROVE  a % Size = a
  BY LogRingAssumption

LEMMA ModOf ==
    ASSUME NEW a \in Int
    PROVE  (a % Size) % Size = a % Size
  BY LogRingAssumption

\* What is congruent stays so when the same is added.
LEMMA ModAdd ==
    ASSUME NEW a \in Int, NEW b \in Int, NEW c \in Int, a % Size = b % Size
    PROVE  (a + c) % Size = (b + c) % Size
  <1>1. PICK p \in Int, q \in Int, r \in 0 .. Size - 1 :
          a = Size * p + r /\ b = Size * q + r
    BY ModDef
  <1>2. r + c \in Int /\ Size \in Nat \ {0} /\ r \in Int
    BY LogRingAssumption
  <1>3. PICK u \in Int, v \in 0 .. Size - 1 : r + c = Size * u + v
    BY <1>2, ModDef
  <1>4. a + c = Size * (p + u) + v /\ b + c = Size * (q + u) + v
    BY ONLY <1>1, <1>2, <1>3, p \in Int, q \in Int, u \in Int, c \in Int
  <1>5. a + c \in Int /\ b + c \in Int /\ p + u \in Int /\ q + u \in Int
    OBVIOUS
  <1>6. (a + c) % Size = v
    BY <1>4, <1>5, ModUnique
  <1>7. (b + c) % Size = v
    BY <1>4, <1>5, ModUnique
  <1> QED
    BY <1>6, <1>7

LEMMA ModTurn ==
    ASSUME NEW a \in Int
    PROVE  (a + Size) % Size = a % Size
  <1>1. PICK p \in Int, r \in 0 .. Size - 1 : a = Size * p + r
    BY ModDef
  <1>2. a + Size = Size * (p + 1) + r /\ p + 1 \in Int /\ a + Size \in Int
    BY ONLY <1>1, LogRingAssumption, p \in Int, r \in 0 .. Size - 1, a \in Int
  <1>3. a % Size = r
    BY <1>1, ModUnique
  <1>4. (a + Size) % Size = r
    BY <1>2, ModUnique
  <1> QED
    BY <1>3, <1>4

\* The distance of two offsets round the ring.
LEMMA ModDistance ==
    ASSUME NEW x \in Int, NEW y \in Int, NEW a \in Int, NEW b \in Int,
           x % Size = a % Size, y % Size = b % Size, a - b \in 0 .. Size - 1
    PROVE  (x - y + Size) % Size = a - b
  <1>1. - y \in Int /\ - b \in Int /\ Size \in Int
    BY LogRingAssumption
  <1>2. (x - y + Size) % Size = (x - y) % Size
    <2>1. x - y \in Int
      OBVIOUS
    <2> QED
      BY <2>1, ModTurn
  <1>3. (x + (- y)) % Size = (a + (- y)) % Size
    BY <1>1, ModAdd
  <1>4. (a + (- y)) % Size = (a + (- b)) % Size
    <2>1. a - y - b \in Int
      OBVIOUS
    <2>2. (y + (a - y - b)) % Size = (b + (a - y - b)) % Size
      BY <2>1, ModAdd
    <2>3. y + (a - y - b) = a + (- b) /\ b + (a - y - b) = a + (- y)
      OBVIOUS
    <2> QED
      BY <2>2, <2>3
  <1>5. x + (- y) = x - y /\ a + (- b) = a - b
    OBVIOUS
  <1>6. (a - b) % Size = a - b
    BY ModSmall
  <1> QED
    BY <1>2, <1>3, <1>4, <1>5, <1>6

-----------------------------------------------------------------------------
(* The inductive invariant *)

\* The bytes in the buffers were logged.
BytesLogged == \A q \in Ring, n \in 0 .. Size - 1 : buf[q][n] <= logged[q]

\* The write offset is that of the bytes logged, except between the copy and
\* the two stores that move it.
WriterInv ==
    /\ lpc = "copy" => logged[dest] + ret <= MaxBytes
    /\ \A q \in Ring :
         IF lpc = "add" /\ q = dest
         THEN (writeOff[q] + ret) % Size = logged[q] % Size
         ELSE writeOff[q] % Size = logged[q] % Size
    /\ \A q \in Ring : ~(lpc = "mod" /\ q = dest) => writeOff[q] < Size

\* The read offset is past the end only until it is reduced.
ReaderInv ==
    /\ \A q \in Ring : ~(tpc \in {"mod", "modEnd"} /\ q = cur) => readOff[q] < Size
    /\ tpc \in {"add", "addEnd"} => readOff[cur] + size <= Size + MaxLine - 1

\* What the thread has written to the file but not gone past yet.
Pending(q) == IF tpc \in {"add", "addEnd"} /\ q = cur THEN size ELSE 0

\* What is copied but not logged yet.
Coming(q) == IF lpc = "copy" /\ q = dest THEN ret ELSE 0

\* A ring whose file is clean: the thread has not gone past what was logged or
\* past the end of the buffer, the line that is being copied fits, and what was
\* not passed is in its place.
CleanInv ==
    \A q \in Ring : clean[q] =>
        /\ passed[q] + Pending(q) <= logged[q]
        /\ logged[q] + Coming(q) - passed[q] <= Size - 1
        /\ readOff[q] + Pending(q) <= Size
        /\ readOff[q] % Size = passed[q] % Size
        /\ \A n \in passed[q] + 1 .. logged[q] : buf[q][(n - 1) % Size] = n

RingInv == RingTypeOK /\ BytesLogged /\ WriterInv /\ ReaderInv /\ CleanInv

-----------------------------------------------------------------------------
(* Steps of log_printf *)

LEMMA Sizes ==
    /\ Size \in Nat \ {0} /\ MaxLine \in 1 .. Size - 1 /\ MaxBytes \in Nat
    /\ Rings[1] \in Ring /\ 1 \in DOMAIN Rings
    /\ Len(Rings) \in Nat \ {0} /\ DOMAIN Rings = 1 .. Len(Rings)
  <1>1. Len(Rings) \in Nat \ {0} /\ DOMAIN Rings = 1 .. Len(Rings)
    BY LogRingAssumption
  <1> QED
    BY <1>1, LogRingAssumption DEF Ring

\* The types of one ring, as numbers.
LEMMA RingNumbers ==
    ASSUME RingTypeOK, NEW q \in Ring
    PROVE  /\ writeOff[q] \in Nat /\ writeOff[q] <= Size + MaxLine - 1
           /\ readOff[q] \in Nat /\ readOff[q] <= Size + MaxLine - 1
           /\ logged[q] \in Nat /\ logged[q] <= MaxBytes
           /\ passed[q] \in Nat /\ clean[q] \in BOOLEAN
           /\ ret \in Nat /\ ret <= MaxLine /\ size \in Nat
           /\ dest \in Ring /\ cur \in Ring
           /\ Pending(q) \in Nat /\ Coming(q) \in Nat
  <1>1. ret \in Nat /\ ret <= MaxLine /\ size \in Nat /\ dest \in Ring
    BY Sizes DEF RingTypeOK
  <1>2. cur \in Ring
    BY DEF RingTypeOK, cur, Ring
  <1>3. /\ writeOff[q] \in 0 .. Size + MaxLine - 1
        /\ readOff[q] \in 0 .. Size + MaxLine - 1
        /\ logged[q] \in 0 .. MaxBytes
        /\ passed[q] \in Nat /\ clean[q] \in BOOLEAN
    BY DEF RingTypeOK
  <1> QED
    BY <1>1, <1>2, <1>3, Sizes DEF Pending, Coming

LEMMA RingInvInit == RingInit => RingInv
  <1> SUFFICES ASSUME RingInit
               PROVE  RingInv
    OBVIOUS
  <1>1. RingTypeOK
    <2>1. /\ 0 \in 0 .. Size - 1 /\ 0 \in 0 .. Size + MaxLine - 1
          /\ 0 \in 0 .. MaxBytes /\ 0 \in 0 .. MaxLine /\ 0 \in 0 .. Size + MaxLine
      BY Sizes
    <2> QED
      BY <2>1, Sizes DEF RingInit, RingTypeOK
  <1>2. BytesLogged
    BY DEF RingInit, BytesLogged
  <1>3. WriterInv /\ ReaderInv
    BY <1>1, RingNumbers, Sizes DEF RingInit, WriterInv, ReaderInv
  <1>4. CleanInv
    BY Sizes DEF RingInit, CleanInv, Pending, Coming
  <1> QED
    BY <1>1, <1>2, <1>3, <1>4 DEF RingInv

\* How much is stored: not more than the line, and in a clean ring not more
\* than there is room for.
LEMMA StoredFits ==
    ASSUME RingInv, lpc = "out", NEW q \in Ring, NEW len \in 1 .. MaxLine
    PROVE  /\ Stored(q, len) \in 0 .. len
           /\ clean[q] => logged[q] + Stored(q, len) - passed[q] <= Size - 1
  <1>1. /\ writeOff[q] \in Nat /\ writeOff[q] < Size
        /\ readOff[q] \in Nat /\ logged[q] \in Nat /\ passed[q] \in Nat
        /\ len \in Nat /\ Pending(q) \in Nat
    BY RingNumbers, Sizes DEF RingInv, WriterInv
  <1>2. PICK d \in Int : d = writeOff[q] - readOff[q] + Size
    BY <1>1, Sizes
  <1>3. Rem(d, Size) \in Int /\ Rem(d, Size) <= Size - 1
    BY Sizes DEF Rem
  <1>4. PICK left \in Int : left = Left(q)
    BY <1>2, <1>3, Sizes DEF Left
  <1>5. left >= 1 /\ left = Size - Rem(d, Size)
    BY <1>2, <1>3, <1>4, Sizes DEF Left
  <1>6. Stored(q, len) \in 0 .. len /\ Stored(q, len) <= left - 1
    BY <1>1, <1>4, <1>5 DEF Stored
  <1>7. ASSUME clean[q]
        PROVE  logged[q] + Stored(q, len) - passed[q] <= Size - 1
    <2>1. /\ passed[q] <= logged[q] /\ logged[q] - passed[q] <= Size - 1
          /\ readOff[q] <= Size
          /\ readOff[q] % Size = passed[q] % Size
          /\ writeOff[q] % Size = logged[q] % Size
      BY <1>1, <1>7, Sizes, SMTT(30) DEF RingInv, CleanInv, WriterInv, Coming
    <2>2. logged[q] - passed[q] \in 0 .. Size - 1
      BY <1>1, <2>1, Sizes
    <2>3. d % Size = logged[q] - passed[q]
      BY <1>1, <1>2, <2>1, <2>2, ModDistance
    <2>4. d >= 0
      BY <1>1, <1>2, <2>1, Sizes
    <2>5. Rem(d, Size) = logged[q] - passed[q]
      BY <2>3, <2>4 DEF Rem
    <2> QED
      BY <1>1, <1>5, <1>6, <2>5, Sizes
  <1> QED
    BY <1>6, <1>7

LEMMA FormatOK ==
    ASSUME RingInv, NEW q \in Ring, NEW len \in 1 .. MaxLine, Format(q, len)
    PROVE  RingInv'
  <1>1. /\ lpc = "out" /\ lpc' = "copy" /\ dest' = q /\ ret' = Stored(q, len)
        /\ UNCHANGED << buf, writeOff, readOff, logged, passed, clean, pipe, tpc,
                        turn, size >>
        /\ logged[q] + len <= MaxBytes
    BY DEF Format
  <1>2. /\ ret' \in 0 .. len
        /\ clean[q] => logged[q] + ret' - passed[q] <= Size - 1
    BY <1>1, StoredFits
  <1>3. RingTypeOK'
    <2>1. ret' \in 0 .. MaxLine
      BY <1>2, Sizes
    <2> QED
      BY <1>1, <2>1 DEF RingInv, RingTypeOK
  <1>4. BytesLogged'
    BY <1>1 DEF RingInv, BytesLogged
  <1>5. WriterInv'
    <2>1. logged[q] + ret' <= MaxBytes
      BY <1>1, <1>2, RingNumbers, Sizes, SMTT(30) DEF RingInv
    <2> QED
      BY <1>1, <2>1 DEF RingInv, WriterInv
  <1>6. ReaderInv'
    BY <1>1 DEF RingInv, ReaderInv, cur
  <1>7. CleanInv'
    <2>1. \A r \in Ring : Pending(r)' = Pending(r)
      BY <1>1 DEF Pending, cur
    <2>2. \A r \in Ring : clean[r] => logged[r] + Coming(r)' - passed[r] <= Size - 1
      BY <1>1, <1>2 DEF RingInv, CleanInv, Coming
    <2> QED
      BY <1>1, <2>1, <2>2 DEF RingInv, CleanInv
  <1> QED
    BY <1>3, <1>4, <1>5, <1>6, <1>7 DEF RingInv

\* Where a byte of the line is copied to, and where an unread one is, counted
\* from the write offset; R bytes are copied.
LEMMA NewPlace ==
    ASSUME NEW L \in Nat, NEW P \in Nat, NEW R \in Nat, NEW p \in Nat, NEW n \in Int,
           P + p <= L, L + R - P <= Size - 1, n > L, n <= L + R
    PROVE  (n - 1) - L \in 0 .. Size - 1 /\ (n - 1) - L < R
  BY Sizes

LEMMA OldPlace ==
    ASSUME NEW L \in Nat, NEW P \in Nat, NEW R \in Nat, NEW n \in Int,
           L + R - P <= Size - 1, n <= L, n >= P + 1
    PROVE  /\ (n - 1 + Size) - L \in 0 .. Size - 1 /\ (n - 1 + Size) - L >= R
           /\ n - 1 + Size \in Int
  BY Sizes

LEMMA CopyOK ==
    ASSUME RingInv, Copy
    PROVE  RingInv'
  <1>1. /\ lpc = "copy" /\ lpc' = "add"
        /\ UNCHANGED << writeOff, readOff, passed, clean, pipe, dest, ret, tpc, turn,
                        size >>
    BY DEF Copy
  <1>2. /\ dest \in Ring /\ ret \in Nat
        /\ logged[dest] \in Nat /\ writeOff[dest] \in Nat
        /\ logged[dest] + ret <= MaxBytes
        /\ writeOff[dest] % Size = logged[dest] % Size
    BY <1>1, RingNumbers DEF RingInv, WriterInv, RingTypeOK
  <1> DEFINE k(n) == (n - writeOff[dest] + Size) % Size
  <1>3. /\ \A q \in Ring \ {dest} : buf'[q] = buf[q] /\ logged'[q] = logged[q]
        /\ logged'[dest] = logged[dest] + ret
        /\ buf'[dest] = [n \in 0 .. Size - 1 |->
             IF k(n) < ret THEN logged[dest] + k(n) + 1 ELSE buf[dest][n]]
    BY <1>2 DEF Copy, RingInv, RingTypeOK
  <1>4. \A n \in 0 .. Size - 1 : k(n) \in Nat
    <2> SUFFICES ASSUME NEW n \in 0 .. Size - 1
                 PROVE  k(n) \in Nat
      OBVIOUS
    <2>1. n - writeOff[dest] + Size \in Int
      BY <1>2, Sizes
    <2>2. k(n) \in 0 .. Size - 1
      BY <2>1, ModDef
    <2> HIDE DEF k
    <2> QED
      BY <2>2, Sizes
  <1>5. \A n \in 0 .. Size - 1 :
          buf'[dest][n] \in 0 .. MaxBytes /\ buf'[dest][n] <= logged'[dest]
    <2> SUFFICES ASSUME NEW n \in 0 .. Size - 1
                 PROVE  buf'[dest][n] \in 0 .. MaxBytes /\ buf'[dest][n] <= logged'[dest]
      OBVIOUS
    <2>1. k(n) \in Nat
      BY <1>4
    <2>2. buf[dest][n] \in 0 .. MaxBytes /\ buf[dest][n] <= logged[dest]
      BY <1>2 DEF RingInv, RingTypeOK, BytesLogged
    <2>3. buf'[dest][n] = IF k(n) < ret THEN logged[dest] + k(n) + 1 ELSE buf[dest][n]
      BY <1>3
    <2> HIDE DEF k
    <2> QED
      BY <1>2, <1>3, <2>1, <2>2, <2>3, Sizes, SMTT(30)
  <1> HIDE DEF k
  <1>6. RingTypeOK'
    <2>1. logged' \in [Ring -> 0 .. MaxBytes]
      <3>1. logged[dest] + ret \in 0 .. MaxBytes
        BY <1>2, Sizes
      <3> QED
        BY <3>1 DEF Copy, RingInv, RingTypeOK
    <2>2. buf' \in [Ring -> [0 .. Size - 1 -> 0 .. MaxBytes]]
      <3>1. buf'[dest] \in [0 .. Size - 1 -> 0 .. MaxBytes]
        BY <1>3, <1>5
      <3>2. \A q \in Ring : buf'[q] \in [0 .. Size - 1 -> 0 .. MaxBytes]
        BY <1>3, <3>1 DEF RingInv, RingTypeOK
      <3>3. buf' = [q \in Ring |-> buf'[q]]
        BY DEF Copy, RingInv, RingTypeOK
      <3> QED
        BY <3>2, <3>3
    <2> QED
      BY <1>1, <2>1, <2>2 DEF RingInv, RingTypeOK
  <1>7. BytesLogged'
    BY <1>3, <1>5 DEF RingInv, BytesLogged
  <1>8. WriterInv'
    <2>1. (writeOff[dest] + ret) % Size = (logged[dest] + ret) % Size
      BY <1>2, ModAdd
    <2> QED
      BY <1>1, <1>3, <2>1 DEF RingInv, WriterInv
  <1>9. ReaderInv'
    BY <1>1 DEF RingInv, ReaderInv, cur
  <1>10. CleanInv'
    <2>1. \A q \in Ring : Pending(q)' = Pending(q) /\ Coming(q)' = 0
      BY <1>1 DEF Pending, Coming, cur
    <2>2. \A q \in Ring \ {dest} : Coming(q) = 0
      BY DEF Coming
    <2>3. ASSUME clean[dest]
          PROVE  /\ passed[dest] + Pending(dest) <= logged'[dest]
                 /\ logged'[dest] - passed[dest] <= Size - 1
                 /\ \A n \in passed[dest] + 1 .. logged'[dest] :
                      buf'[dest][(n - 1) % Size] = n
      <3>1. /\ passed[dest] + Pending(dest) <= logged[dest]
            /\ logged[dest] + ret - passed[dest] <= Size - 1
            /\ passed[dest] \in Nat /\ Pending(dest) \in Nat
            /\ \A n \in passed[dest] + 1 .. logged[dest] :
                 buf[dest][(n - 1) % Size] = n
        BY <1>1, <1>2, <2>3, RingNumbers DEF RingInv, CleanInv, Coming
      <3>2. ASSUME NEW n \in passed[dest] + 1 .. logged'[dest]
            PROVE  buf'[dest][(n - 1) % Size] = n
        <4>0. /\ n \in Int /\ n - 1 \in Int /\ n >= passed[dest] + 1
              /\ n <= logged[dest] + ret
          BY <1>2, <1>3, <3>1
        <4>1. PICK m \in 0 .. Size - 1 : m = (n - 1) % Size
          BY <4>0, ModDef
        <4>2. m \in Int /\ m % Size = (n - 1) % Size
          BY <4>1, ModSmall
        <4>3. CASE n > logged[dest]
          <5>1. (n - 1) - logged[dest] \in 0 .. Size - 1 /\ (n - 1) - logged[dest] < ret
            BY <1>2, <3>1, <4>0, <4>3, NewPlace
          <5>2. k(m) = (n - 1) - logged[dest]
            <6>1. PICK a \in Int : a = n - 1
              BY <4>0
            <6>2. a - logged[dest] \in 0 .. Size - 1 /\ m % Size = a % Size
              BY <4>2, <5>1, <6>1
            <6>3. (m - writeOff[dest] + Size) % Size = a - logged[dest]
              BY <1>2, <4>2, <6>2, ModDistance, SMTT(30)
            <6> QED
              BY <6>1, <6>3 DEF k
          <5> QED
            BY <1>2, <1>3, <4>0, <4>1, <5>1, <5>2
        <4>4. CASE n <= logged[dest]
          <5>1. /\ (n - 1 + Size) - logged[dest] \in 0 .. Size - 1
                /\ (n - 1 + Size) - logged[dest] >= ret
                /\ n - 1 + Size \in Int
            BY <1>2, <3>1, <4>0, <4>4, OldPlace
          <5>2. m % Size = (n - 1 + Size) % Size
            BY <4>0, <4>2, ModTurn
          <5>3. k(m) = (n - 1 + Size) - logged[dest]
            BY <1>2, <4>0, <4>2, <5>1, <5>2, ModDistance DEF k
          <5>4. buf[dest][m] = n
            BY <1>2, <3>1, <4>0, <4>1, <4>4
          <5> QED
            BY <1>2, <1>3, <4>1, <5>1, <5>3, <5>4
        <4> QED
          BY <1>2, <4>0, <4>3, <4>4
      <3> QED
        BY <1>2, <1>3, <3>1, <3>2, Sizes, SMTT(30)
    <2> QED
      <3> SUFFICES ASSUME NEW q \in Ring, clean[q]
                   PROVE  /\ passed[q] + Pending(q) <= logged'[q]
                          /\ logged'[q] - passed[q] <= Size - 1
                          /\ readOff[q] + Pending(q) <= Size
                          /\ readOff[q] % Size = passed[q] % Size
                          /\ \A n \in passed[q] + 1 .. logged'[q] :
                               buf'[q][(n - 1) % Size] = n
        <4>1. \A q \in Ring : /\ logged'[q] \in Int /\ passed[q] \in Int
                               /\ logged'[q] + 0 - passed[q] = logged'[q] - passed[q]
          BY <1>2, <1>3, RingNumbers, SMTT(30) DEF RingInv
        <4> QED
          BY <1>1, <2>1, <4>1 DEF CleanInv
      <3>1. /\ readOff[q] + Pending(q) <= Size
            /\ readOff[q] % Size = passed[q] % Size
        BY DEF RingInv, CleanInv
      <3>2. CASE q = dest
        BY <2>3, <3>1, <3>2
      <3>3. CASE q # dest
        <4>1. /\ logged[q] + 0 - passed[q] <= Size - 1
              /\ logged[q] \in Int /\ passed[q] \in Int
          BY <2>2, <3>3, RingNumbers DEF RingInv, CleanInv
        <4>2. logged[q] - passed[q] <= Size - 1
          BY <4>1
        <4> QED
          BY <1>3, <3>1, <3>3, <4>2 DEF RingInv, CleanInv
      <3> QED
        BY <3>2, <3>3
  <1> QED
    BY <1>6, <1>7, <1>8, <1>9, <1>10 DEF RingInv

\* The stores to the write offset leave the bytes and the thread alone.
LEMMA OffsetOnly ==
    ASSUME RingInv, lpc # "copy", lpc' # "copy",
           UNCHANGED << buf, readOff, logged, passed, clean, dest, ret, tpc, turn,
                        size >>
    PROVE  BytesLogged' /\ ReaderInv' /\ CleanInv'
  <1>1. \A q \in Ring : Pending(q)' = Pending(q) /\ Coming(q)' = Coming(q)
    BY DEF Pending, Coming, cur
  <1> QED
    BY <1>1 DEF RingInv, BytesLogged, ReaderInv, CleanInv, cur

LEMMA AddWriteOK ==
    ASSUME RingInv, AddWrite
    PROVE  RingInv'
  <1>1. /\ lpc = "add" /\ lpc' = "mod"
        /\ UNCHANGED << buf, readOff, logged, passed, clean, pipe, dest, ret, tpc, turn,
                        size >>
    BY DEF AddWrite
  <1>2. /\ dest \in Ring /\ ret \in Nat /\ ret <= MaxLine
        /\ writeOff[dest] \in Nat /\ writeOff[dest] < Size
        /\ (writeOff[dest] + ret) % Size = logged[dest] % Size
    BY <1>1, RingNumbers DEF RingInv, WriterInv, RingTypeOK
  <1>3. /\ writeOff'[dest] = writeOff[dest] + ret
        /\ \A q \in Ring \ {dest} : writeOff'[q] = writeOff[q]
    BY <1>2 DEF AddWrite, RingInv, RingTypeOK
  <1>4. RingTypeOK'
    <2>1. writeOff[dest] + ret \in 0 .. Size + MaxLine - 1
      BY <1>2, Sizes
    <2> QED
      BY <1>1, <2>1 DEF AddWrite, RingInv, RingTypeOK
  <1>5. WriterInv'
    BY <1>1, <1>2, <1>3 DEF RingInv, WriterInv
  <1> QED
    BY <1>1, <1>4, <1>5, OffsetOnly DEF RingInv

LEMMA ModWriteOK ==
    ASSUME RingInv, ModWrite
    PROVE  RingInv'
  <1>1. /\ lpc = "mod" /\ lpc' = "signal"
        /\ UNCHANGED << buf, readOff, logged, passed, clean, pipe, dest, ret, tpc, turn,
                        size >>
    BY DEF ModWrite
  <1>2. /\ dest \in Ring /\ writeOff[dest] \in Nat
        /\ writeOff[dest] % Size = logged[dest] % Size
    BY <1>1, RingNumbers DEF RingInv, WriterInv, RingTypeOK
  <1>3. /\ writeOff'[dest] = writeOff[dest] % Size
        /\ \A q \in Ring \ {dest} : writeOff'[q] = writeOff[q]
    BY <1>2 DEF ModWrite, RingInv, RingTypeOK
  <1>4. PICK w \in 0 .. Size - 1 : w = writeOff[dest] % Size
    BY <1>2, ModDef
  <1>5. w % Size = w
    BY ModSmall
  <1>6. RingTypeOK'
    <2>1. w \in 0 .. Size + MaxLine - 1
      BY Sizes
    <2> QED
      BY <1>1, <1>4, <2>1 DEF ModWrite, RingInv, RingTypeOK
  <1>7. WriterInv'
    <2>1. w < Size
      BY Sizes
    <2> QED
      BY <1>1, <1>2, <1>3, <1>4, <1>5, <2>1 DEF RingInv, WriterInv
  <1> QED
    BY <1>1, <1>6, <1>7, OffsetOnly DEF RingInv

LEMMA SignalOK ==
    ASSUME RingInv, Signal
    PROVE  RingInv'
  <1>1. /\ lpc = "signal" /\ lpc' = "out" /\ pipe' = TRUE
        /\ UNCHANGED << buf, writeOff, readOff, logged, passed, clean, dest, ret, tpc,
                        turn, size >>
    BY DEF Signal
  <1>2. RingTypeOK' /\ WriterInv'
    BY <1>1 DEF RingInv, RingTypeOK, WriterInv
  <1> QED
    BY <1>1, <1>2, OffsetOnly DEF RingInv

-----------------------------------------------------------------------------
(* Steps of log_thread_loop *)

\* What no step of the thread touches.
LEMMA ThreadLeaves ==
    ASSUME RingInv, LogThread
    PROVE  /\ UNCHANGED << buf, writeOff, logged, lpc, dest, ret >>
           /\ BytesLogged' /\ WriterInv'
           /\ \A q \in Ring : Coming(q)' = Coming(q)
  <1>1. UNCHANGED << buf, writeOff, logged, lpc, dest, ret >>
    BY DEF LogThread, Wake, TestEmpty, Compare, WriteTail, WriteHead, AddRead, ModRead,
           Served, Thread
  <1> QED
    BY <1>1 DEF RingInv, BytesLogged, WriterInv, Coming

\* On to the next ring, or to sleep.
LEMMA ServedOK ==
    ASSUME RingTypeOK, NEW from, Served(from)
    PROVE  turn' \in DOMAIN Rings /\ tpc' \in {"wait", "empty"} /\ tpc = from
  <1>1. turn \in 1 .. Len(Rings) /\ Len(Rings) \in Nat \ {0}
    BY Sizes DEF RingTypeOK
  <1>2. turn # Len(Rings) => turn + 1 \in 1 .. Len(Rings)
    BY <1>1
  <1>3. 1 \in 1 .. Len(Rings)
    BY <1>1
  <1>4. turn' \in 1 .. Len(Rings) /\ tpc' \in {"wait", "empty"} /\ tpc = from
    BY <1>2, <1>3 DEF Served, Thread
  <1> QED
    BY <1>4, Sizes

\* Steps that only look.
LEMMA LookOK ==
    ASSUME RingInv, Wake \/ TestEmpty \/ Compare
    PROVE  RingInv'
  <1>1. /\ UNCHANGED << readOff, passed, clean, size >>
        /\ pipe' \in BOOLEAN
        /\ tpc \in {"wait", "empty", "compare"}
        /\ tpc' \in {"wait", "empty", "compare", "head", "tail"}
        /\ turn' \in DOMAIN Rings
    BY ServedOK DEF Wake, TestEmpty, Compare, Thread, RingInv, RingTypeOK
  <1>2. /\ UNCHANGED << buf, writeOff, logged, lpc, dest, ret >>
        /\ BytesLogged' /\ WriterInv'
        /\ \A q \in Ring : Coming(q)' = Coming(q)
    BY ThreadLeaves DEF LogThread
  <1>3. RingTypeOK'
    BY <1>1, <1>2 DEF RingInv, RingTypeOK
  <1>4. ReaderInv'
    BY <1>1 DEF RingInv, ReaderInv
  <1>5. CleanInv'
    <2>1. \A q \in Ring : Pending(q)' = 0 /\ Pending(q) = 0
      BY <1>1 DEF Pending
    <2> QED
      BY <1>1, <1>2, <2>1 DEF RingInv, CleanInv
  <1> QED
    BY <1>2, <1>3, <1>4, <1>5 DEF RingInv

\* A clean write is one of bytes that were logged.
LEMMA WrittenFits ==
    ASSUME RingInv, tpc \notin {"add", "addEnd", "mod", "modEnd"},
           NEW count \in Nat, Written(count), clean'[cur]
    PROVE  /\ clean[cur]
           /\ passed[cur] + count <= logged[cur]
           /\ readOff[cur] + count <= Size
  <1>1. cur \in Ring /\ passed[cur] \in Nat /\ logged[cur] \in Nat
        /\ readOff[cur] \in Nat
    BY RingNumbers DEF RingInv, RingTypeOK, cur, Ring
  <1>2. /\ clean[cur]
        /\ \A k \in 1 .. count :
             /\ readOff[cur] + k <= Size
             /\ buf[cur][readOff[cur] + k - 1] = passed[cur] + k
    BY <1>1 DEF Written, RingInv, RingTypeOK
  <1>3. CASE count = 0
    <2>1. Pending(cur) = 0
      BY DEF Pending
    <2>2. passed[cur] + 0 <= logged[cur] /\ readOff[cur] + 0 <= Size
      BY <1>1, <1>2, <2>1 DEF RingInv, CleanInv
    <2> QED
      BY <1>2, <1>3, <2>2
  <1>4. CASE count # 0
    <2>1. count \in 1 .. count
      BY <1>4
    <2>2. /\ readOff[cur] + count <= Size
          /\ buf[cur][readOff[cur] + count - 1] = passed[cur] + count
      BY <1>2, <2>1
    <2>3. readOff[cur] + count - 1 \in 0 .. Size - 1
      BY <1>1, <1>4, <2>2, Sizes
    <2>4. buf[cur][readOff[cur] + count - 1] <= logged[cur]
      BY <1>1, <2>3 DEF RingInv, BytesLogged
    <2> QED
      BY <1>2, <2>2, <2>4
  <1> QED
    BY <1>3, <1>4

LEMMA WriteOK ==
    ASSUME RingInv, WriteTail \/ WriteHead
    PROVE  RingInv'
  <1>1. /\ cur \in Ring
        /\ readOff[cur] \in Nat /\ writeOff[cur] \in Nat
        /\ writeOff[cur] <= Size + MaxLine - 1
    BY RingNumbers DEF RingInv, RingTypeOK, cur, Ring
  <1>2. /\ UNCHANGED << buf, writeOff, logged, lpc, dest, ret >>
        /\ BytesLogged' /\ WriterInv'
        /\ \A q \in Ring : Coming(q)' = Coming(q)
    BY ThreadLeaves DEF LogThread
  <1>3. /\ tpc \in {"tail", "head"} /\ UNCHANGED << readOff, passed, pipe, turn >>
        /\ cur' = cur
    BY DEF WriteTail, WriteHead, Thread, cur
  <1>4. readOff[cur] < Size
    BY <1>1, <1>3 DEF RingInv, ReaderInv
  <1>5. CASE tpc' = "crashed" /\ UNCHANGED << clean, size >>
    <2>1. RingTypeOK'
      BY <1>2, <1>3, <1>5 DEF RingInv, RingTypeOK
    <2>2. ReaderInv'
      BY <1>3, <1>5 DEF RingInv, ReaderInv
    <2>3. \A q \in Ring : Pending(q)' = 0 /\ Pending(q) = 0
      BY <1>3, <1>5 DEF Pending
    <2>4. CleanInv'
      BY <1>2, <1>3, <1>5, <2>3 DEF RingInv, CleanInv
    <2> QED
      BY <1>2, <2>1, <2>2, <2>4 DEF RingInv
  <1>6. ASSUME NEW count \in Nat, Written(count), tpc' \in {"add", "addEnd"},
               readOff[cur] + count <= Size + MaxLine - 1
        PROVE  RingInv'
    <2>1. size' = count /\ size' \in 0 .. Size + MaxLine
      <3>1. count \in 0 .. Size + MaxLine
        BY <1>1, <1>6, Sizes
      <3> QED
        BY <1>6, <3>1 DEF Written
    <2>2. /\ \A q \in Ring \ {cur} : clean'[q] = clean[q]
          /\ clean' \in [Ring -> BOOLEAN]
      <3>1. PICK b \in BOOLEAN : clean' = [clean EXCEPT ![cur] = b]
        <4>1. clean[cur] \in BOOLEAN
          BY <1>1 DEF RingInv, RingTypeOK
        <4> DEFINE b == clean[cur] /\ \A k \in 1 .. count :
                     /\ readOff[cur] + k <= Size
                     /\ buf[cur][readOff[cur] + k - 1] = passed[cur] + k
        <4>2. clean' = [clean EXCEPT ![cur] = b] /\ b \in BOOLEAN
          BY <1>1, <1>6 DEF Written, RingInv, RingTypeOK
        <4> QED
          BY <4>2
      <3> QED
        BY <1>1, <3>1 DEF RingInv, RingTypeOK
    <2>3. RingTypeOK'
      BY <1>2, <1>3, <1>6, <2>1, <2>2 DEF RingInv, RingTypeOK
    <2>4. ReaderInv'
      BY <1>3, <1>6, <2>1 DEF RingInv, ReaderInv
    <2>5. CleanInv'
      <3>1. \A q \in Ring \ {cur} : Pending(q)' = 0 /\ Pending(q) = 0
        BY <1>3 DEF Pending
      <3>2. Pending(cur)' = count
        BY <1>3, <1>6, <2>1 DEF Pending
      <3>3. clean'[cur] => /\ clean[cur]
                           /\ passed[cur] + count <= logged[cur]
                           /\ readOff[cur] + count <= Size
        BY <1>3, <1>6, WrittenFits
      <3> QED
        BY <1>2, <1>3, <2>2, <3>1, <3>2, <3>3 DEF RingInv, CleanInv
    <2> QED
      BY <1>2, <2>3, <2>4, <2>5 DEF RingInv
  <1>7. CASE WriteTail
    <2>1. /\ Written(Size - readOff[cur]) /\ Size - readOff[cur] \in Nat
          /\ readOff[cur] + (Size - readOff[cur]) <= Size + MaxLine - 1
          /\ tpc' = "add"
      BY <1>1, <1>4, <1>7, Sizes DEF WriteTail, Thread
    <2> QED
      BY <1>6, <2>1
  <1>8. CASE WriteHead
    <2>1. CASE writeOff[cur] >= readOff[cur]
      <3>1. /\ Written(writeOff[cur] - readOff[cur]) /\ tpc' = "addEnd"
            /\ writeOff[cur] - readOff[cur] \in Nat
            /\ readOff[cur] + (writeOff[cur] - readOff[cur]) <= Size + MaxLine - 1
        BY <1>1, <1>8, <2>1, Sizes DEF WriteHead, Thread
      <3> QED
        BY <1>6, <3>1
    <2>2. CASE ~(writeOff[cur] >= readOff[cur])
      BY <1>5, <1>8, <2>2 DEF WriteHead, Thread
    <2> QED
      BY <2>1, <2>2
  <1> QED
    BY <1>7, <1>8

LEMMA AddReadOK ==
    ASSUME RingInv, AddRead
    PROVE  RingInv'
  <1>1. /\ cur \in Ring
        /\ readOff[cur] \in Nat /\ passed[cur] \in Nat /\ size \in Nat
    BY RingNumbers DEF RingInv, RingTypeOK, cur, Ring
  <1>2. /\ UNCHANGED << buf, writeOff, logged, lpc, dest, ret >>
        /\ BytesLogged' /\ WriterInv'
        /\ \A q \in Ring : Coming(q)' = Coming(q)
    BY ThreadLeaves DEF LogThread
  <1>3. /\ tpc \in {"add", "addEnd"} /\ tpc' \in {"mod", "modEnd"}
        /\ UNCHANGED << clean, pipe, turn, size >> /\ cur' = cur
    BY DEF AddRead, Thread, cur
  <1>4. /\ readOff'[cur] = readOff[cur] + size
        /\ passed'[cur] = passed[cur] + size
        /\ \A q \in Ring \ {cur} : readOff'[q] = readOff[q] /\ passed'[q] = passed[q]
    BY <1>1 DEF AddRead, RingInv, RingTypeOK
  <1>5. readOff[cur] + size \in 0 .. Size + MaxLine - 1
    BY <1>1, <1>3, Sizes DEF RingInv, ReaderInv
  <1>6. RingTypeOK'
    BY <1>1, <1>2, <1>3, <1>5, SMTT(30) DEF AddRead, RingInv, RingTypeOK
  <1>7. ReaderInv'
    BY <1>3, <1>4 DEF RingInv, ReaderInv
  <1>8. CleanInv'
    <2>1. \A q \in Ring : Pending(q)' = 0
      BY <1>3 DEF Pending
    <2>2. Pending(cur) = size /\ \A q \in Ring \ {cur} : Pending(q) = 0
      BY <1>3 DEF Pending
    <2>3. ASSUME clean[cur]
          PROVE  /\ passed'[cur] + 0 <= logged[cur]
                 /\ logged[cur] + Coming(cur) - passed'[cur] <= Size - 1
                 /\ readOff'[cur] + 0 <= Size
                 /\ readOff'[cur] % Size = passed'[cur] % Size
                 /\ \A n \in passed'[cur] + 1 .. logged[cur] :
                      buf[cur][(n - 1) % Size] = n
      <3>1. /\ passed[cur] + size <= logged[cur]
            /\ logged[cur] + Coming(cur) - passed[cur] <= Size - 1
            /\ readOff[cur] + size <= Size
            /\ readOff[cur] % Size = passed[cur] % Size
            /\ \A n \in passed[cur] + 1 .. logged[cur] :
                 buf[cur][(n - 1) % Size] = n
        BY <1>1, <2>2, <2>3 DEF RingInv, CleanInv
      <3>2. logged[cur] \in Nat /\ Coming(cur) \in Nat
        BY <1>1, RingNumbers DEF RingInv
      <3>3. (readOff[cur] + size) % Size = (passed[cur] + size) % Size
        BY <1>1, <3>1, ModAdd
      <3>4. \A n \in passed'[cur] + 1 .. logged[cur] :
              n \in passed[cur] + 1 .. logged[cur]
        BY <1>1, <1>4, <3>2
      <3>5. logged[cur] + Coming(cur) - (passed[cur] + size) <= Size - 1
        BY <1>1, <3>1, <3>2, Sizes
      <3> QED
        BY <1>1, <1>4, <3>1, <3>3, <3>4, <3>5
    <2> QED
      BY <1>1, <1>2, <1>3, <1>4, <2>1, <2>2, <2>3 DEF RingInv, CleanInv
  <1> QED
    BY <1>2, <1>6, <1>7, <1>8 DEF RingInv

LEMMA ModReadOK ==
    ASSUME RingInv, ModRead
    PROVE  RingInv'
  <1>1. cur \in Ring /\ readOff[cur] \in Nat
    BY RingNumbers DEF RingInv, RingTypeOK, cur, Ring
  <1>2. /\ UNCHANGED << buf, writeOff, logged, lpc, dest, ret >>
        /\ BytesLogged' /\ WriterInv'
        /\ \A q \in Ring : Coming(q)' = Coming(q)
    BY ThreadLeaves DEF LogThread
  <1>3. /\ tpc \in {"mod", "modEnd"} /\ tpc' \in {"wait", "empty", "head"}
        /\ turn' \in DOMAIN Rings
        /\ UNCHANGED << passed, clean, pipe, size >>
    BY ServedOK DEF ModRead, Thread, RingInv, RingTypeOK
  <1>4. /\ readOff'[cur] = readOff[cur] % Size
        /\ \A q \in Ring \ {cur} : readOff'[q] = readOff[q]
    BY <1>1 DEF ModRead, RingInv, RingTypeOK
  <1>5. PICK w \in 0 .. Size - 1 : w = readOff[cur] % Size
    BY <1>1, ModDef
  <1>6. /\ w % Size = w /\ w < Size /\ w + 0 <= Size
        /\ w \in 0 .. Size + MaxLine - 1
    BY Sizes, ModSmall
  <1>7. RingTypeOK'
    BY <1>1, <1>2, <1>3, <1>5, <1>6 DEF ModRead, RingInv, RingTypeOK
  <1>8. ReaderInv'
    BY <1>3, <1>4, <1>5, <1>6 DEF RingInv, ReaderInv
  <1>9. CleanInv'
    <2>1. \A q \in Ring : Pending(q)' = 0 /\ Pending(q) = 0
      BY <1>3 DEF Pending
    <2> QED
      BY <1>2, <1>3, <1>4, <1>5, <1>6, <2>1 DEF RingInv, CleanInv
  <1> QED
    BY <1>2, <1>7, <1>8, <1>9 DEF RingInv

LEMMA RingInvStep == RingInv /\ [RingNext]_logVars => RingInv'
  <1> SUFFICES ASSUME RingInv, [RingNext]_logVars
               PROVE  RingInv'
    OBVIOUS
  <1>1. CASE \E q \in Ring, len \in 1 .. MaxLine : tpc # "crashed" /\ Format(q, len)
    BY <1>1, FormatOK
  <1>2. CASE LogPrintf
    BY <1>2, CopyOK, AddWriteOK, ModWriteOK, SignalOK DEF LogPrintf
  <1>3. CASE LogThread
    BY <1>3, LookOK, WriteOK, AddReadOK, ModReadOK DEF LogThread
  <1>4. CASE UNCHANGED logVars
    BY <1>4
    DEF logVars, RingInv, RingTypeOK, BytesLogged, WriterInv, ReaderInv, CleanInv,
        Pending, Coming, cur
  <1> QED
    BY <1>1, <1>2, <1>3, <1>4 DEF RingNext

\* As long as the file has got nothing but what was logged, nothing that waits
\* is overwritten and the thread finds it where it looks, although log_printf
\* computes the free space from an offset that the thread moves meanwhile, and
\* each sees the offset of the other between two stores.
THEOREM UnreadStaysIntact == RingSpec => []UnreadIntact
  <1>1. RingInv => UnreadIntact
    <2> SUFFICES ASSUME RingInv
                 PROVE  UnreadIntact
      OBVIOUS
    <2>1. ASSUME NEW q \in Ring, clean[q]
          PROVE  /\ logged[q] - passed[q] \in 0 .. Size - 1
                 /\ readOff[q] % Size = passed[q] % Size
                 /\ \A n \in passed[q] + 1 .. logged[q] : buf[q][(n - 1) % Size] = n
      <3>1. /\ passed[q] + Pending(q) <= logged[q]
            /\ logged[q] + Coming(q) - passed[q] <= Size - 1
            /\ readOff[q] % Size = passed[q] % Size
            /\ \A n \in passed[q] + 1 .. logged[q] : buf[q][(n - 1) % Size] = n
        BY <2>1 DEF RingInv, CleanInv
      <3>2. /\ passed[q] \in Nat /\ logged[q] \in Nat /\ Pending(q) \in Nat
            /\ Coming(q) \in Nat
        BY RingNumbers DEF RingInv
      <3> QED
        BY <3>1, <3>2, Sizes
    <2> QED
      BY <2>1 DEF UnreadIntact, RingInv
  <1> QED
    BY <1>1, RingInvInit, RingInvStep, PTL DEF RingSpec
=============================================================================
