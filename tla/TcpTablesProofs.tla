--------------------------- MODULE TcpTablesProofs ---------------------------
(***************************************************************************)
(* Theorems about what one TCP keeps: the modulo buffers (TcpBuf) and the  *)
(* tables of control blocks and sockets (TcpSockets).  They share nothing; *)
(* each has its part below.                                                *)
(*                                                                         *)
(* TcpBuf: the ring invariant, and the byte queue the ring implements, for *)
(* every buffer size, byte alphabet and chunk length.                      *)
(* TcpSockets: the tables agree, for every number of sockets, blocks,      *)
(* ports and peers.                                                        *)
(***************************************************************************)
EXTENDS TcpBuf, TcpSockets, SequenceTheorems, WellFoundedInduction, TLAPS

-----------------------------------------------------------------------------
(* The modulo buffer *)


(* The remainder is the number itself below the modulus, and one modulus   *)
(* less up to twice the modulus.                                           *)
LEMMA ModBelow == ASSUME NEW B \in Nat \ {0}, NEW a \in 0 .. B - 1
                  PROVE  a % B = a
OBVIOUS

LEMMA ModOnce == ASSUME NEW B \in Nat \ {0}, NEW a \in B .. 2 * B - 1
                 PROVE  a % B = a - B
OBVIOUS

LEMMA ModTwice == ASSUME NEW B \in Nat \ {0}
                 PROVE  (2 * B) % B = 0
OBVIOUS

-----------------------------------------------------------------------------
(* The inductive invariant of the ring: the fields are in range and the    *)
(* pointers agree with the length.  Neither half is inductive alone: that  *)
(* a moved pointer stays in range rests on the room the length leaves.     *)
RingInv == BufTypeOK /\ PointersAgree

(* A walk of at most BufSize bytes ends within the memory or at its end.   *)
LEMMA MovedInRange ==
    ASSUME NEW p \in 0..BufSize, NEW n \in 0..BufSize
    PROVE  /\ Moved(p, n) \in 0..BufSize
           /\ Moved(p, n) \in {p + n, p + n - BufSize}
           /\ p + n <= BufSize => Moved(p, n) = p + n
BY BufSizeAssumption DEF Moved

(* A chunk is a sequence of bytes.                                         *)
LEMMA ChunkIsSeq ==
    ASSUME NEW data \in Chunk
    PROVE  /\ data \in Seq(Byte)
           /\ Len(data) \in Nat
           /\ data \in [1..Len(data) -> Byte]
<1>1. PICK k \in 0..MaxChunk : data \in [1..k -> Byte]
  BY DEF Chunk
<1>2. k \in Nat
  BY MaxChunkAssumption
<1>3. data \in Seq(Byte)
  BY <1>1, <1>2
<1>4. Len(data) = k
  BY <1>1, <1>2, <1>3
<1> QED
  BY <1>1, <1>2, <1>3, <1>4

LEMMA InitRing == BufInit => RingInv
BY BufSizeAssumption DEF BufInit, RingInv, BufTypeOK, PointersAgree, Offset

LEMMA StepRing == RingInv /\ [BufNext]_bufVars => RingInv'
<1> SUFFICES ASSUME RingInv, [BufNext]_bufVars
             PROVE  RingInv'
  OBVIOUS
<1> USE BufSizeAssumption, MaxChunkAssumption DEF RingInv, BufTypeOK, PointersAgree
<1>1. CASE Reinit
  BY <1>1 DEF Reinit
<1>2. ASSUME NEW amt \in 0..BufSize, Adjust(amt)
      PROVE  RingInv'
  <2>1. /\ amt <= len
        /\ len' = len - amt
        /\ remptr' = (remptr + amt) % BufSize
        /\ mem' = mem
        /\ addptr' = addptr
    BY <1>2 DEF Adjust
  <2>2. remptr + amt \in Nat /\ remptr + amt <= 2 * BufSize
    OBVIOUS
  <2>3. /\ remptr' \in 0 .. BufSize - 1
        /\ remptr' \in {remptr + amt, remptr + amt - BufSize,
                         remptr + amt - 2 * BufSize}
    <3> DEFINE x == remptr + amt
    <3>1. CASE x \in 0 .. BufSize - 1
      BY <2>1, <2>2, <3>1, ModBelow
    <3>2. CASE x \in BufSize .. 2 * BufSize - 1
      BY <2>1, <2>2, <3>2, ModOnce
    <3>3. CASE x = 2 * BufSize
      BY <2>1, <2>2, <3>3, ModTwice
    <3> QED
      BY <2>2, <3>1, <3>2, <3>3
  <2> QED
    BY <2>1, <2>2, <2>3
<1>3. ASSUME NEW data \in Chunk, Copyin(data)
      PROVE  RingInv'
  <2> DEFINE n == Least(BufSize - len, Len(data))
             first == Least(BufSize - addptr, n)
  <2>1. /\ Len(data) \in Nat
        /\ \A i \in 1..Len(data) : data[i] \in Byte
    BY ChunkIsSeq
  <2>2. /\ n \in 0 .. BufSize - len
        /\ n <= Len(data)
        /\ first \in 0..n
        /\ first <= BufSize - addptr
        /\ first # BufSize - addptr => first = n
    BY <2>1 DEF Least
  <2>3. mem' \in [Offset -> Byte]
    <3>1. mem' = [o \in Offset |->
                     IF addptr <= o /\ o < addptr + first
                     THEN data[o - addptr + 1]
                     ELSE IF o < n - first THEN data[first + o + 1] ELSE mem[o]]
      BY <1>3 DEF Copyin
    <3> HIDE DEF n, first
    <3>2. ASSUME NEW o \in Offset
          PROVE  (IF addptr <= o /\ o < addptr + first
                  THEN data[o - addptr + 1]
                  ELSE IF o < n - first THEN data[first + o + 1]
                                        ELSE mem[o]) \in Byte
      BY <2>1, <2>2 DEF Offset
    <3> QED
      BY <3>1, <3>2
  <2>4. /\ len' = len + n
        /\ addptr' = Moved(addptr, n)
        /\ remptr' = remptr
    BY <1>3 DEF Copyin
  <2> HIDE DEF n, first
  <2>5. /\ addptr' \in 0..BufSize
        /\ addptr' \in {addptr + n, addptr + n - BufSize}
        /\ addptr + n <= BufSize => addptr' = addptr + n
    <3>1. addptr \in 0..BufSize /\ n \in 0..BufSize
      BY <2>2
    <3> QED
      BY <3>1, <2>4, MovedInRange
  <2> QED
    BY <2>2, <2>3, <2>4, <2>5
<1>4. ASSUME NEW want \in 0..MaxChunk, Copyout(want)
      PROVE  RingInv'
  <2> DEFINE n == Least(len, want)
  <2>1. n \in 0..len
    BY DEF Least
  <2>2. /\ len' = len - n
        /\ remptr' = Moved(remptr, n)
        /\ addptr' = addptr
        /\ mem' = mem
    BY <1>4 DEF Copyout
  <2> HIDE DEF n
  <2>3. /\ remptr' \in 0..BufSize
        /\ remptr' \in {remptr + n, remptr + n - BufSize}
        /\ remptr + n <= BufSize => remptr' = remptr + n
    <3>1. remptr \in 0..BufSize /\ n \in 0..BufSize
      BY <2>1
    <3> QED
      BY <3>1, <2>2, MovedInRange
  <2> QED
    BY <2>1, <2>2, <2>3
<1>5. ASSUME NEW off \in 0..MaxChunk, NEW want \in 0..MaxChunk,
             Copyout2(off, want)
      PROVE  RingInv'
  BY <1>5 DEF Copyout2
<1>6. CASE UNCHANGED bufVars
  BY <1>6 DEF bufVars
<1> QED
  BY <1>1, <1>2, <1>3, <1>4, <1>5, <1>6 DEF BufNext

(* The fields of the buffer are in range whatever calls are made.          *)
THEOREM BufTypeCorrect == BufSpec => []BufTypeOK
<1>1. RingInv => BufTypeOK
  BY DEF RingInv
<1> QED
  BY InitRing, StepRing, <1>1, PTL DEF BufSpec

(* The add pointer is always len bytes ahead of the remove pointer.        *)
THEOREM PointersStayTogether == BufSpec => []PointersAgree
<1>1. RingInv => PointersAgree
  BY DEF RingInv
<1> QED
  BY InitRing, StepRing, <1>1, PTL DEF BufSpec

-----------------------------------------------------------------------------
(* Where the i-th byte behind the pointer p lies.                          *)
At(p, i) == IF p + i - 1 < BufSize THEN p + i - 1 ELSE p + i - 1 - BufSize

LEMMA AtIsRemainder ==
    ASSUME NEW p \in 0..BufSize, NEW i \in 1..BufSize
    PROVE  /\ (p + i - 1) % BufSize = At(p, i)
           /\ At(p, i) \in Offset
<1>1. p + i - 1 \in 0 .. 2 * BufSize - 1
  BY BufSizeAssumption
<1>2. CASE p + i - 1 \in 0 .. BufSize - 1
  BY <1>2, BufSizeAssumption, ModBelow DEF At, Offset
<1>3. CASE p + i - 1 \in BufSize .. 2 * BufSize - 1
  <2>1. (p + i - 1) % BufSize = p + i - 1 - BufSize
    BY <1>3, BufSizeAssumption, ModOnce
  <2> QED
    BY <1>3, <2>1, BufSizeAssumption DEF At, Offset
<1> QED
  BY <1>1, <1>2, <1>3, BufSizeAssumption

(* The contents, now and after a step, read off the memory.                *)
LEMMA ContentsNow ==
    ASSUME RingInv
    PROVE  Contents = [i \in 1..len |-> mem[At(remptr, i)]]
<1>1. \A i \in 1..len : (remptr + i - 1) % BufSize = At(remptr, i)
  BY AtIsRemainder, BufSizeAssumption DEF RingInv, BufTypeOK
<1> QED
  BY <1>1 DEF Contents

LEMMA ContentsThen ==
    ASSUME RingInv'
    PROVE  Contents' = [i \in 1..len' |-> mem'[At(remptr', i)]]
<1>1. \A i \in 1..len' : (remptr' + i - 1) % BufSize = At(remptr', i)
  BY AtIsRemainder, BufSizeAssumption DEF RingInv, BufTypeOK
<1> QED
  BY <1>1 DEF Contents

LEMMA ContentsType ==
    ASSUME RingInv
    PROVE  Contents \in Seq(Byte) /\ Len(Contents) = len
<1>1. \A i \in 1..len : At(remptr, i) \in Offset
  BY AtIsRemainder, BufSizeAssumption DEF RingInv, BufTypeOK
<1>2. \A i \in 1..len : mem[At(remptr, i)] \in Byte
  BY <1>1 DEF RingInv, BufTypeOK
<1>3. Contents \in [1..len -> Byte]
  BY <1>2, ContentsNow
<1>4. len \in Nat
  BY BufSizeAssumption DEF RingInv, BufTypeOK
<1> QED
  BY <1>3, <1>4

-----------------------------------------------------------------------------
(* A concatenation, element by element.                                    *)
LEMMA Joined ==
    ASSUME NEW a \in Nat, NEW b \in Nat, NEW s \in Seq(Byte), NEW t \in Seq(Byte),
           Len(s) = a, Len(t) = b
    PROVE  s \o t = [i \in 1 .. a + b |-> IF i <= a THEN s[i] ELSE t[i - a]]
<1>1. s \o t \in Seq(Byte) /\ Len(s \o t) = a + b
  BY ConcatProperties
<1>2. \A i \in 1 .. a + b : (s \o t)[i] = IF i <= a THEN s[i] ELSE t[i - a]
  BY ConcatProperties
<1>3. s \o t = [i \in 1 .. a + b |-> (s \o t)[i]]
  <2>1. s \o t \in [1 .. Len(s \o t) -> Byte]
    BY <1>1, LenProperties
  <2> QED
    BY <1>1, <2>1, Zenon
<1> QED
  BY <1>2, <1>3

(* Each call on the buffer is the call of that name on the queue.          *)
LEMMA CopyinPuts ==
    ASSUME RingInv, RingInv', NEW data \in Chunk, Copyin(data)
    PROVE  Queue!Put(data)
<1> DEFINE n == Least(BufSize - len, Len(data))
           first == Least(BufSize - addptr, n)
           joined == Contents \o Queue!Slice(data, 0, n)
<1>1. /\ len \in 0..BufSize /\ addptr \in 0..BufSize /\ remptr \in 0..BufSize
      /\ addptr - (remptr + len) \in {-BufSize, 0, BufSize}
      /\ Len(data) \in Nat
      /\ data \in Seq(Byte)
  BY ChunkIsSeq DEF RingInv, BufTypeOK, PointersAgree
<1>2. /\ n \in 0 .. BufSize - len
      /\ n <= Len(data)
      /\ first \in 0..n
      /\ first <= BufSize - addptr
      /\ first # BufSize - addptr => first = n
  BY <1>1, BufSizeAssumption DEF Least
<1>3. /\ mem' = [o \in Offset |->
                    IF addptr <= o /\ o < addptr + first
                    THEN data[o - addptr + 1]
                    ELSE IF o < n - first THEN data[first + o + 1] ELSE mem[o]]
      /\ len' = len + n
      /\ remptr' = remptr
      /\ ret' = [n |-> n, bytes |-> <<>>]
  BY DEF Copyin, Returns
<1>4. /\ Contents \in Seq(Byte) /\ Len(Contents) = len
      /\ Contents = [i \in 1..len |-> mem[At(remptr, i)]]
  BY ContentsType, ContentsNow
<1>5. Contents' = [i \in 1 .. len + n |-> mem'[At(remptr, i)]]
  BY ContentsThen, <1>3
<1>6. n = Queue!Least(BufSize - Len(Contents), Len(data))
  BY <1>4 DEF Least, Queue!Least
<1> HIDE DEF n, first
<1>7. /\ Queue!Slice(data, 0, n) \in Seq(Byte)
      /\ Len(Queue!Slice(data, 0, n)) = n
      /\ \A i \in 1..n : Queue!Slice(data, 0, n)[i] = data[i]
  <2>1. Queue!Slice(data, 0, n) = [i \in 1..n |-> data[0 + i]]
    BY DEF Queue!Slice
  <2>2. n \in Nat /\ \A i \in 1..n : data[0 + i] = data[i] /\ data[i] \in Byte
    BY <1>1, <1>2
  <2> QED
    BY <2>1, <2>2
<1>8. joined = [i \in 1 .. len + n |-> IF i <= len THEN Contents[i]
                                                  ELSE data[i - len]]
  <2> DEFINE added == Queue!Slice(data, 0, n)
  <2> HIDE DEF added
  <2>1. joined = [i \in 1 .. len + n |-> IF i <= len THEN Contents[i]
                                                    ELSE added[i - len]]
    <3>1. len \in Nat /\ n \in Nat
      BY <1>1, <1>2, BufSizeAssumption
    <3>2. added \in Seq(Byte) /\ Len(added) = n /\ joined = Contents \o added
      BY <1>7 DEF added
    <3> HIDE DEF joined
    <3> QED
      BY <1>4, <3>1, <3>2, Joined
  <2>2. ASSUME NEW i \in 1 .. len + n, ~(i <= len)
        PROVE  added[i - len] = data[i - len]
    <3>1. i - len \in 1..n
      BY <1>1, <1>2, <2>2
    <3> QED
      BY <3>1, <1>7 DEF added
  <2> QED
    BY <2>1, <2>2
<1>9. ASSUME NEW i \in 1 .. len + n
      PROVE  mem'[At(remptr, i)] = IF i <= len THEN Contents[i] ELSE data[i - len]
  <2>1. At(remptr, i) \in Offset
    BY <1>1, <1>2, AtIsRemainder, BufSizeAssumption
  <2>2. CASE i <= len
    <3>1. ~(addptr <= At(remptr, i) /\ At(remptr, i) < addptr + first)
      BY <1>1, <1>2, <2>2, BufSizeAssumption DEF At
    <3>2. ~(At(remptr, i) < n - first)
      BY <1>1, <1>2, <2>2, BufSizeAssumption DEF At
    <3> QED
      BY <1>3, <1>4, <2>1, <2>2, <3>1, <3>2
  <2>3. CASE i > len /\ i - len <= first
    <3>1. At(remptr, i) = addptr + (i - len) - 1
      BY <1>1, <1>2, <2>3, BufSizeAssumption DEF At
    <3> QED
      BY <1>1, <1>2, <1>3, <2>1, <2>3, <3>1
  <2>4. CASE i > len /\ i - len > first
    <3>1. At(remptr, i) = (i - len) - first - 1
      BY <1>1, <1>2, <2>4, BufSizeAssumption DEF At
    <3>2. ~(addptr <= At(remptr, i) /\ At(remptr, i) < addptr + first)
      BY <1>1, <1>2, <2>4, <3>1, BufSizeAssumption
    <3> QED
      BY <1>1, <1>2, <1>3, <2>1, <2>4, <3>1, <3>2
  <2> QED
    BY <1>1, <1>2, <2>2, <2>3, <2>4
<1>10. Contents' = joined
  BY <1>5, <1>8, <1>9
<1> QED
  BY <1>3, <1>6, <1>10 DEF Queue!Put, Queue!Returns

(* Taking n bytes off the front leaves the bytes behind them, however the  *)
(* moved remove pointer is written.                                        *)
LEMMA FrontTaken ==
    ASSUME RingInv, RingInv', NEW n \in 0..len,
           mem' = mem, len' = len - n,
           remptr' \in {remptr + n, remptr + n - BufSize, remptr + n - 2 * BufSize}
    PROVE  Contents' = Queue!Slice(Contents, n, Len(Contents) - n)
<1>1. /\ len \in 0..BufSize /\ remptr \in 0..BufSize /\ remptr' \in 0..BufSize
      /\ len' \in 0..BufSize
  BY DEF RingInv, BufTypeOK
<1>2. ASSUME NEW i \in 1 .. len - n
      PROVE  mem'[At(remptr', i)] = Contents[n + i]
  <2>1. n + i \in 1..len
    BY <1>1, BufSizeAssumption
  <2>2. i \in 1..BufSize /\ n \in 0..BufSize /\ n + i <= BufSize
    BY <1>1, <2>1, BufSizeAssumption
  <2>3. At(remptr', i) = At(remptr, n + i)
    <3>1. CASE remptr' = remptr + n
      BY <1>1, <2>2, <3>1, BufSizeAssumption DEF At
    <3>2. CASE remptr' = remptr + n - BufSize
      BY <1>1, <2>2, <3>2, BufSizeAssumption DEF At
    <3>3. CASE remptr' = remptr + n - 2 * BufSize
      BY <1>1, <2>2, <3>3, BufSizeAssumption DEF At
    <3> QED
      BY <3>1, <3>2, <3>3
  <2> QED
    BY <2>1, <2>3, ContentsNow
<1>3. Contents' = [i \in 1 .. len - n |-> Contents[n + i]]
  BY <1>2, ContentsThen
<1> QED
  BY <1>3, ContentsType DEF Queue!Slice

(* What a call copies out is a slice of the contents.                      *)
LEMMA BytesAreASlice ==
    ASSUME RingInv, NEW off \in 0..len, NEW n \in 0 .. len - off,
           NEW p \in 0..BufSize,
           p \in {remptr + off, remptr + off - BufSize, remptr + off - 2 * BufSize}
    PROVE  BytesFrom(p, n) = Queue!Slice(Contents, off, n)
<1>1. len \in 0..BufSize /\ remptr \in 0..BufSize
  BY DEF RingInv, BufTypeOK
<1>2. ASSUME NEW i \in 1..n
      PROVE  mem[At(p, i)] = Contents[off + i]
  <2>1. off + i \in 1..len
    BY <1>1, BufSizeAssumption
  <2>2. At(p, i) = At(remptr, off + i)
    BY <1>1, <2>1, BufSizeAssumption DEF At
  <2> QED
    BY <2>1, <2>2, ContentsNow
<1>3. BytesFrom(p, n) = [i \in 1..n |-> mem[At(p, i)]]
  BY DEF BytesFrom, At
<1> QED
  BY <1>2, <1>3 DEF Queue!Slice

(* The remainder of a pointer moved by at most BufSize bytes.              *)
LEMMA RemainderOfMove ==
    ASSUME NEW p \in 0..BufSize, NEW n \in 0..BufSize
    PROVE  /\ (p + n) % BufSize \in 0..BufSize
           /\ (p + n) % BufSize \in {p + n, p + n - BufSize, p + n - 2 * BufSize}
<1>1. CASE p + n \in 0 .. BufSize - 1
  BY <1>1, BufSizeAssumption, ModBelow
<1>2. CASE p + n \in BufSize .. 2 * BufSize - 1
  BY <1>2, BufSizeAssumption, ModOnce
<1>3. CASE p + n = 2 * BufSize
  BY <1>3, BufSizeAssumption, ModTwice
<1> QED
  BY <1>1, <1>2, <1>3, BufSizeAssumption

LEMMA CopyoutTakes ==
    ASSUME RingInv, RingInv', NEW want \in 0..MaxChunk, Copyout(want)
    PROVE  Queue!Take(want)
<1> DEFINE n == Least(len, want)
<1>1. len \in 0..BufSize /\ remptr \in 0..BufSize /\ want \in Nat
  BY MaxChunkAssumption DEF RingInv, BufTypeOK
<1>2. n \in 0..len
  BY <1>1, BufSizeAssumption DEF Least
<1>3. /\ len' = len - n /\ remptr' = Moved(remptr, n) /\ mem' = mem
      /\ ret' = [n |-> n, bytes |-> BytesFrom(remptr, n)]
  BY DEF Copyout, Returns
<1>4. n = Queue!Least(Len(Contents), want)
  BY ContentsType DEF Least, Queue!Least
<1> HIDE DEF n
<1>5. remptr' \in {remptr + n, remptr + n - BufSize}
  BY <1>1, <1>2, <1>3, MovedInRange, BufSizeAssumption
<1>6. Contents' = Queue!Slice(Contents, n, Len(Contents) - n)
  BY <1>2, <1>3, <1>5, FrontTaken
<1>7. BytesFrom(remptr, n) = Queue!Slice(Contents, 0, n)
  <2>1. remptr = remptr + 0 /\ 0 \in 0..len /\ n \in 0 .. len - 0
    BY <1>1, <1>2, BufSizeAssumption
  <2> QED
    BY <1>1, <2>1, BytesAreASlice
<1> QED
  BY <1>3, <1>4, <1>6, <1>7 DEF Queue!Take, Queue!Returns

LEMMA Copyout2Peeks ==
    ASSUME RingInv, NEW off \in 0..MaxChunk, NEW want \in 0..MaxChunk,
           Copyout2(off, want)
    PROVE  Queue!Peek(off, want)
<1> DEFINE n == IF len - off <= 0 THEN 0 ELSE Least(len - off, want)
<1>1. /\ len \in 0..BufSize /\ remptr \in 0..BufSize
      /\ want \in Nat /\ off \in Nat
  BY MaxChunkAssumption DEF RingInv, BufTypeOK
<1>2. /\ n \in Nat
      /\ off < len => n \in 0 .. len - off
      /\ ~(off < len) => n = 0
  BY <1>1, BufSizeAssumption DEF Least
<1>3. /\ Contents' = Contents
      /\ ret' = [n |-> n, bytes |-> BytesFrom((remptr + off) % BufSize, n)]
  BY DEF Copyout2, Returns, Contents
<1>4. n = IF off < Len(Contents) THEN Queue!Least(Len(Contents) - off, want) ELSE 0
  BY <1>1, BufSizeAssumption, ContentsType DEF Least, Queue!Least
<1> HIDE DEF n
<1>5. BytesFrom((remptr + off) % BufSize, n) = Queue!Slice(Contents, off, n)
  <2>1. CASE off < len
    BY <1>1, <1>2, <2>1, BufSizeAssumption, RemainderOfMove, BytesAreASlice
  <2>2. CASE ~(off < len)
    BY <1>2, <2>2 DEF BytesFrom, Queue!Slice
  <2> QED
    BY <2>1, <2>2
<1> QED
  BY <1>3, <1>4, <1>5 DEF Queue!Peek, Queue!Returns

LEMMA AdjustSkips ==
    ASSUME RingInv, RingInv', NEW amt \in 0..BufSize, Adjust(amt)
    PROVE  Queue!Skip(amt)
<1>1. /\ len \in 0..BufSize /\ remptr \in 0..BufSize
      /\ amt <= len /\ len' = len - amt /\ mem' = mem
      /\ remptr' = (remptr + amt) % BufSize
      /\ ret' = [n |-> 0, bytes |-> <<>>]
  BY DEF RingInv, BufTypeOK, Adjust, Returns
<1>2. amt \in 0..len
  BY <1>1, BufSizeAssumption
<1>3. Contents' = Queue!Slice(Contents, amt, Len(Contents) - amt)
  BY <1>1, <1>2, RemainderOfMove, FrontTaken
<1> QED
  BY <1>1, <1>3, ContentsType DEF Queue!Skip, Queue!Returns

LEMMA ReinitClears ==
    ASSUME RingInv, Reinit
    PROVE  Queue!Clear
<1>1. Contents' = [i \in 1..0 |-> mem'[(remptr' + i - 1) % BufSize]]
  BY DEF Reinit, Contents
<1>2. Contents' = <<>>
  BY <1>1
<1> QED
  BY <1>2 DEF Reinit, Returns, Queue!Clear, Queue!Returns

(* The modulo buffer implements the byte queue: whatever calls are made,   *)
(* what they accept, return and remove is what the queue would.            *)
THEOREM ImplementsByteQueue == BufSpec => IsAByteQueue
<1>1. BufInit => Queue!Init
  <2> SUFFICES ASSUME BufInit PROVE Queue!Init
    OBVIOUS
  <2>1. Contents = [i \in 1..0 |-> mem[(remptr + i - 1) % BufSize]]
    BY DEF BufInit, Contents
  <2>2. Contents = <<>>
    BY <2>1
  <2> QED
    BY <2>2 DEF BufInit, Queue!Init
<1>2. RingInv /\ RingInv' /\ [BufNext]_bufVars => [Queue!Next]_<<Contents, ret>>
  <2> SUFFICES ASSUME RingInv, RingInv', [BufNext]_bufVars
               PROVE  [Queue!Next]_<<Contents, ret>>
    OBVIOUS
  <2> USE DEF Queue!Next
  <2>1. CASE Reinit
    BY <2>1, ReinitClears
  <2>2. ASSUME NEW amt \in 0..BufSize, Adjust(amt) PROVE Queue!Next
    BY <2>2, AdjustSkips
  <2>3. ASSUME NEW data \in Chunk, Copyin(data) PROVE Queue!Next
    BY <2>3, CopyinPuts DEF Chunk, Queue!Chunk
  <2>4. ASSUME NEW want \in 0..MaxChunk, Copyout(want) PROVE Queue!Next
    BY <2>4, CopyoutTakes
  <2>5. ASSUME NEW off \in 0..MaxChunk, NEW want \in 0..MaxChunk,
               Copyout2(off, want)
        PROVE  Queue!Next
    BY <2>5, Copyout2Peeks
  <2>6. CASE UNCHANGED bufVars
    BY <2>6 DEF bufVars, Contents
  <2> QED
    BY <2>1, <2>2, <2>3, <2>4, <2>5, <2>6 DEF BufNext
<1> QED
  BY InitRing, StepRing, <1>1, <1>2, PTL DEF BufSpec, IsAByteQueue, Queue!Spec

-----------------------------------------------------------------------------
(* The tables *)


USE NullAssumption, LimitsAssumption

Inv == /\ TypeOK /\ ListAgrees /\ TableAgrees
       /\ ClosingIsOrphaned /\ ConnectedHasPeer /\ OneListener

-----------------------------------------------------------------------------
(* q_dequeue: the queue without one of its elements.                       *)
LEMMA WithoutRemoves ==
    ASSUME NEW q \in Seq(Tcb), NEW t \in Tcb,
           \E i \in 1..Len(q) : q[i] = t,
           \A i, j \in 1..Len(q) : q[i] = q[j] => i = j
    PROVE  /\ Without(q, t) \in Seq(Tcb)
           /\ Len(Without(q, t)) = Len(q) - 1
           /\ \A u \in Tcb : (\E i \in 1 .. Len(q) - 1 : Without(q, t)[i] = u)
                                <=> u # t /\ \E i \in 1..Len(q) : q[i] = u
           /\ \A i, j \in 1 .. Len(q) - 1 : Without(q, t)[i] = Without(q, t)[j] => i = j
<1> DEFINE at == CHOOSE i \in 1..Len(q) : q[i] = t
           w == Without(q, t)
<1>1. at \in 1..Len(q) /\ q[at] = t
  OBVIOUS
<1>2. Len(q) \in Nat \ {0} /\ q \in [1..Len(q) -> Tcb]
  BY <1>1
<1>3. w = [i \in 1 .. Len(q) - 1 |-> IF i < at THEN q[i] ELSE q[i + 1]]
  BY DEF Without
<1> HIDE DEF at, w
<1>4. \A i \in 1 .. Len(q) - 1 : w[i] \in Tcb /\ w[i] = IF i < at THEN q[i] ELSE q[i + 1]
  BY <1>1, <1>2, <1>3
<1>5. w \in [1 .. Len(q) - 1 -> Tcb]
  BY <1>1, <1>2, <1>3
<1>6. w \in Seq(Tcb) /\ Len(w) = Len(q) - 1
  <2>1. Len(q) - 1 \in Nat
    BY <1>2
  <2>2. w \in Seq(Tcb)
    BY <1>5, <2>1, SeqDef
  <2> QED BY <1>5, <2>1, <2>2, LenProperties
<1>7. ASSUME NEW u \in Tcb
      PROVE  (\E i \in 1 .. Len(q) - 1 : w[i] = u) <=> u # t /\ \E i \in 1..Len(q) : q[i] = u
  <2>1. ASSUME NEW i \in 1 .. Len(q) - 1, w[i] = u
        PROVE  u # t /\ \E j \in 1..Len(q) : q[j] = u
    BY <1>1, <1>2, <1>4, <2>1
  <2>2. ASSUME u # t, NEW j \in 1..Len(q), q[j] = u
        PROVE  \E i \in 1 .. Len(q) - 1 : w[i] = u
    <3>1. CASE j < at
      <4>1. j \in 1 .. Len(q) - 1 /\ w[j] = u
        BY <1>1, <1>2, <1>4, <2>2, <3>1
      <4> QED BY <4>1
    <3>2. CASE j > at
      <4>1. j - 1 \in 1 .. Len(q) - 1 /\ ~(j - 1 < at) /\ (j - 1) + 1 = j
        BY <1>1, <1>2, <3>2
      <4>2. w[j - 1] = u
        BY <1>4, <2>2, <4>1
      <4> QED BY <4>1, <4>2
    <3> QED BY <1>1, <1>2, <2>2, <3>1, <3>2
  <2> QED BY <2>1, <2>2
<1>8. ASSUME NEW i \in 1 .. Len(q) - 1, NEW j \in 1 .. Len(q) - 1, w[i] = w[j]
      PROVE  i = j
  BY <1>1, <1>2, <1>4, <1>8
<1> QED BY <1>6, <1>7, <1>8 DEF w

-----------------------------------------------------------------------------
(* A set of numbers that is not empty has a least element.                 *)
LEMMA LeastTaken ==
    ASSUME NEW I \in SUBSET Nat, I # {}
    PROVE  \E m \in I : \A k \in I : m <= k
<1>1. \A k, m \in Nat : k < m => <<k, m>> \in OpToRel(<, Nat)
  <2>1. \A k, m \in Nat : k < m => <<k, m>>[1] < <<k, m>>[2]
    BY Z3
  <2> QED BY <2>1, Zenon DEF OpToRel
<1>2. PICK R : IsWellFoundedOn(R, Nat) /\ \A k, m \in Nat : k < m => <<k, m>> \in R
  BY <1>1, NatLessThanWellFounded, Zenon
<1>3. PICK m \in I : \A k \in I : ~(<<k, m>> \in R)
  BY <1>2, WFMin
<1>4. \A k \in I : ~(k < m)
  BY <1>2, <1>3
<1> QED BY <1>3, <1>4

(* _tcp_find_tcb gives a listed block on the port, connected to the sender *)
(* or to nobody.                                                           *)
LEMMA FirstIsListed ==
    ASSUME TypeOK, ListAgrees, NEW S, First(S) # NoTcb
    PROVE  First(S) \in Tcb \cap S /\ tcb[First(S)].state # "FREE"
<1> DEFINE I == {k \in 1..Len(list) : list[k] \in S}
<1>1. I # {}
  BY DEF First
<1>2. Len(list) \in Nat /\ list \in [1..Len(list) -> Tcb]
  BY LenProperties DEF TypeOK
<1>3. PICK m \in I : \A k \in I : m <= k
  <2>1. I \in SUBSET Nat
    BY <1>2
  <2> HIDE DEF I
  <2> QED BY <1>1, <2>1, LeastTaken
<1>4. list[m] \in S /\ \A j \in 1 .. m - 1 : list[j] \notin S
  BY <1>2, <1>3
<1>5. \E k \in 1..Len(list) : First(S) = list[k] /\ list[k] \in S
  BY <1>1, <1>2, <1>3, <1>4 DEF First
<1> QED BY <1>2, <1>5 DEF ListAgrees

LEMMA FindsListed ==
    ASSUME TypeOK, ListAgrees, NEW peer \in Peer, NEW port \in Port,
           Find(peer, port) # NoTcb
    PROVE  /\ Find(peer, port) \in Tcb
           /\ tcb[Find(peer, port)].state # "FREE"
<1> QED BY FirstIsListed DEF Find

-----------------------------------------------------------------------------
(* A listed block that changes in place, as connect, listen, bind, the     *)
(* segments and the timers do.                                             *)
LEMMA ChangesKeepsInv ==
    ASSUME Inv, NEW t \in Tcb, tcb[t].state # "FREE", NEW new \in Block, Changes(t, new),
           new.state # "FREE", new.socknum = tcb[t].socknum,
           new.state \in Departing => new.socknum = -1,
           new.state \in Connected => new.peer # NoPeer,
           \A u \in Tcb : /\ u # t /\ tcb[u].state = "LISTEN" /\ tcb[u].peer = NoPeer
                          /\ new.state = "LISTEN" /\ new.peer = NoPeer
                          => tcb[u].port # new.port
    PROVE  Inv'
<1>1. /\ tcb \in [Tcb -> Block] /\ tcb' = [tcb EXCEPT ![t] = new]
      /\ list' = list /\ ports' = ports /\ onqueue' = onqueue
  BY DEF Inv, TypeOK, Changes
<1>2. \A u \in Tcb : tcb'[u] = IF u = t THEN new ELSE tcb[u]
  BY <1>1
<1>3. TypeOK'
  BY <1>1 DEF Inv, TypeOK
<1>4. ListAgrees'
  BY <1>1, <1>2 DEF Inv, ListAgrees
<1>5. TableAgrees'
  <2>1. \A s \in Socknum : ports[s] # NoTcb => ports[s] \in Tcb
    BY DEF Inv, TypeOK
  <2> QED BY <1>1, <1>2, <2>1 DEF Inv, TableAgrees
<1>6. ClosingIsOrphaned' /\ ConnectedHasPeer'
  BY <1>2 DEF Inv, ClosingIsOrphaned, ConnectedHasPeer
<1>7. OneListener'
  BY <1>2 DEF Inv, OneListener
<1> QED BY <1>3, <1>4, <1>5, <1>6, <1>7 DEF Inv

(* A listed block that is freed.                                           *)
LEMMA FreetcbKeepsInv ==
    ASSUME Inv, NEW t \in Tcb, tcb[t].state # "FREE", Freetcb(t)
    PROVE  Inv'
<1>1. /\ tcb \in [Tcb -> Block] /\ list \in Seq(Tcb) /\ onqueue \in 0..MaxTcbs
      /\ ports \in [Socknum -> Tcb \cup {NoTcb}]
      /\ tcb' = [tcb EXCEPT ![t] = FreeTcb]
      /\ list' = Without(list, t) /\ onqueue' = onqueue - 1
      /\ ports' = IF tcb[t].socknum >= 0 THEN [ports EXCEPT ![tcb[t].socknum] = NoTcb]
                                         ELSE ports
  BY DEF Inv, TypeOK, Freetcb
<1>2. FreeTcb \in Block
  BY DEF FreeTcb, Block, States, Port
<1>3. \A u \in Tcb : tcb'[u] = IF u = t THEN FreeTcb ELSE tcb[u]
  BY <1>1
<1>4. /\ list' \in Seq(Tcb) /\ Len(list') = Len(list) - 1
      /\ \A u \in Tcb : (\E i \in 1..Len(list') : list'[i] = u)
                           <=> u # t /\ \E i \in 1..Len(list) : list[i] = u
      /\ \A i, j \in 1..Len(list') : list'[i] = list'[j] => i = j
  <2>1. /\ \E i \in 1..Len(list) : list[i] = t
        /\ \A i, j \in 1..Len(list) : list[i] = list[j] => i = j
    BY DEF Inv, ListAgrees
  <2>2. /\ Without(list, t) \in Seq(Tcb)
        /\ Len(Without(list, t)) = Len(list) - 1
        /\ \A u \in Tcb : (\E i \in 1 .. Len(list) - 1 : Without(list, t)[i] = u)
                             <=> u # t /\ \E i \in 1..Len(list) : list[i] = u
        /\ \A i, j \in 1 .. Len(list) - 1 :
              Without(list, t)[i] = Without(list, t)[j] => i = j
    BY <1>1, <2>1, WithoutRemoves
  <2> QED BY <1>1, <2>2
<1>5. onqueue = Len(list) /\ Len(list) > 0
  <2>1. PICK i \in 1..Len(list) : list[i] = t
    BY DEF Inv, ListAgrees
  <2> QED BY <1>1, <2>1, LenProperties DEF Inv, ListAgrees
<1>6. TypeOK'
  <2>1. ports' \in [Socknum -> Tcb \cup {NoTcb}]
    BY <1>1
  <2>2. onqueue' \in 0..MaxTcbs
    BY <1>1, <1>5
  <2>3. tcb' \in [Tcb -> Block]
    BY <1>1, <1>2
  <2> QED BY <1>4, <2>1, <2>2, <2>3 DEF TypeOK
<1>7. ListAgrees'
  <2>1. \A u \in Tcb : tcb'[u].state # "FREE" <=> \E i \in 1..Len(list') : list'[i] = u
    BY <1>3, <1>4 DEF Inv, ListAgrees, FreeTcb
  <2>2. onqueue' = Len(list')
    BY <1>1, <1>4, <1>5
  <2> QED BY <1>4, <2>1, <2>2 DEF ListAgrees
<1>8. TableAgrees'
  <2>1. \A s \in Socknum : ports[s] # NoTcb => ports[s] \in Tcb /\ tcb[ports[s]].socknum = s
    BY <1>1 DEF Inv, TableAgrees
  <2>2. \A u \in Tcb : tcb[u].socknum # -1 => tcb[u].socknum \in Socknum /\ ports[tcb[u].socknum] = u
    BY <1>1 DEF Inv, TableAgrees, Block
  <2>3. \A s \in Socknum : ports'[s] = IF s = tcb[t].socknum THEN NoTcb ELSE ports[s]
    BY <1>1 DEF Socknum, Block
  <2>4. ASSUME NEW s \in Socknum, ports'[s] # NoTcb
        PROVE  tcb'[ports'[s]].socknum = s
    <3>1. ports'[s] = ports[s] /\ s # tcb[t].socknum /\ ports[s] # NoTcb
      BY <2>3, <2>4
    <3>2. ports[s] # t
      BY <2>1, <3>1
    <3> QED BY <1>3, <2>1, <3>1, <3>2
  <2>5. ASSUME NEW u \in Tcb, tcb'[u].socknum # -1
        PROVE  ports'[tcb'[u].socknum] = u /\ tcb'[u].state # "FREE"
    <3>1. u # t /\ tcb'[u] = tcb[u]
      BY <1>3, <2>5 DEF FreeTcb
    <3>2. tcb[u].socknum # tcb[t].socknum
      BY <2>2, <2>5, <3>1
    <3> QED BY <2>2, <2>3, <2>5, <3>1, <3>2 DEF Inv, TableAgrees
  <2> QED BY <2>4, <2>5 DEF TableAgrees
<1>9. ClosingIsOrphaned' /\ ConnectedHasPeer'
  BY <1>3 DEF Inv, ClosingIsOrphaned, ConnectedHasPeer, FreeTcb, Departing, Connected,
              CLOSINGSTATES, ABORTSTATES, RESETKEEPALIVE, SEND_OK
<1>10. OneListener'
  BY <1>3 DEF Inv, OneListener, FreeTcb
<1> QED BY <1>6, <1>7, <1>8, <1>9, <1>10 DEF Inv

-----------------------------------------------------------------------------
(* What a socket number leads to.                                          *)
LEMMA SocketIsListed ==
    ASSUME Inv, NEW s \in Socknum, ports[s] # NoTcb
    PROVE  /\ ports[s] \in Tcb /\ tcb[ports[s]] \in Block
           /\ tcb[ports[s]].socknum = s /\ s # -1
           /\ tcb[ports[s]].state # "FREE" /\ tcb[ports[s]].state \notin Departing
<1>1. ports[s] \in Tcb /\ s # -1
  BY DEF Inv, TypeOK, Socknum
<1>2. tcb[ports[s]].socknum = s /\ tcb[ports[s]] \in Block
  BY <1>1 DEF Inv, TypeOK, TableAgrees
<1> QED BY <1>1, <1>2 DEF Inv, TableAgrees, ClosingIsOrphaned

(* The search for a local port ends at a port.                             *)
LEMMA SearchFindsPort ==
    ASSUME NEW start \in Port, \E p \in Reserved .. NumPorts - 1 : ~InUse(p)
    PROVE  Search(start) \in Port
<1> DEFINE above == {p \in start .. NumPorts - 1 : ~InUse(p)}
           below == {p \in Reserved .. NumPorts - 1 : ~InUse(p)}
           free == IF above # {} THEN above ELSE below
<1>1. free \in SUBSET Port /\ free # {}
  BY DEF Port
<1>2. free \in SUBSET Nat
  BY <1>1 DEF Port
<1>3. Search(start) = CHOOSE p \in free : \A q \in free : p <= q
  BY DEF Search
<1> HIDE DEF free
<1>4. \E p \in free : \A q \in free : p <= q
  BY <1>1, <1>2, LeastTaken
<1> QED BY <1>1, <1>3, <1>4

LEMMA SocketKeepsInv ==
    ASSUME Inv, NEW s \in Socknum, NEW t \in Tcb, NEW ticks \in Ticks, Socket(s, t, ticks)
    PROVE  Inv'
<1> DEFINE new == [state |-> "CLOSED", socknum |-> s, peer |-> NoPeer,
                   port |-> Search((ticks + Reserved) % NumPorts), keep |-> FALSE]
<1>1. /\ tcb \in [Tcb -> Block] /\ list \in Seq(Tcb) /\ onqueue \in 0..MaxTcbs
      /\ ports \in [Socknum -> Tcb \cup {NoTcb}]
  BY DEF Inv, TypeOK
<1>2. /\ ports[s] = NoTcb /\ onqueue < MaxTcbs /\ tcb[t].state = "FREE"
      /\ tcb' = [tcb EXCEPT ![t] = new] /\ list' = Append(list, t)
      /\ ports' = [ports EXCEPT ![s] = t] /\ onqueue' = onqueue + 1
  BY DEF Socket, Listed
<1>3. new \in Block
  <2>1. (ticks + Reserved) % NumPorts \in Port
    <3>1. ticks + Reserved \in Nat /\ NumPorts \in Nat \ {0}
      BY DEF Port
    <3> QED BY <3>1 DEF Port
  <2>2. \E p \in Reserved .. NumPorts - 1 : ~InUse(p)
    BY DEF Socket
  <2>3. Search((ticks + Reserved) % NumPorts) \in Port
    BY <2>1, <2>2, SearchFindsPort
  <2> QED BY <2>3 DEF Block, States
<1> HIDE DEF new
<1>4. new.state = "CLOSED" /\ new.socknum = s
  BY DEF new
<1>5. \A u \in Tcb : tcb'[u] = IF u = t THEN new ELSE tcb[u]
  BY <1>1, <1>2
<1>6. \A r \in Socknum : ports'[r] = IF r = s THEN t ELSE ports[r]
  BY <1>1, <1>2
<1>7. /\ list' \in Seq(Tcb) /\ Len(list') = Len(list) + 1 /\ Len(list) \in Nat
      /\ \A i \in 1..Len(list') : list'[i] = IF i = Len(list) + 1 THEN t ELSE list[i]
  BY <1>1, <1>2
<1>8. TypeOK'
  <2>1. tcb' \in [Tcb -> Block]
    BY <1>1, <1>2, <1>3
  <2>2. ports' \in [Socknum -> Tcb \cup {NoTcb}] /\ onqueue' \in 0..MaxTcbs
    BY <1>1, <1>2
  <2> QED BY <1>7, <2>1, <2>2 DEF TypeOK
<1>9. ListAgrees'
  <2>1. \A i \in 1..Len(list) : list[i] # t
    BY <1>2 DEF Inv, ListAgrees
  <2>2. \A i, j \in 1..Len(list') : list'[i] = list'[j] => i = j
    BY <1>7, <2>1 DEF Inv, ListAgrees
  <2>3. ASSUME NEW u \in Tcb
        PROVE  tcb'[u].state # "FREE" <=> \E i \in 1..Len(list') : list'[i] = u
    <3>1. CASE u = t
      BY <1>4, <1>5, <1>7, <3>1
    <3>2. CASE u # t
      <4>1. (\E i \in 1..Len(list') : list'[i] = u) <=> \E i \in 1..Len(list) : list[i] = u
        BY <1>7, <3>2
      <4> QED BY <1>5, <3>2, <4>1 DEF Inv, ListAgrees
    <3> QED BY <3>1, <3>2
  <2>4. onqueue' = Len(list')
    BY <1>2, <1>7 DEF Inv, ListAgrees
  <2> QED BY <2>2, <2>3, <2>4 DEF ListAgrees
<1>10. TableAgrees'
  <2>1. tcb[t].socknum = -1 /\ s # -1
    BY <1>2 DEF Inv, TableAgrees, Socknum
  <2>2. \A r \in Socknum : ports[r] # NoTcb => ports[r] \in Tcb /\ ports[r] # t
    BY <1>1, <2>1 DEF Inv, TableAgrees, Socknum
  <2>3. \A u \in Tcb : tcb[u].socknum # -1 => tcb[u].socknum \in Socknum /\ tcb[u].socknum # s
    BY <1>1, <1>2 DEF Inv, TableAgrees, Block
  <2>4. \A r \in Socknum : ports'[r] # NoTcb => tcb'[ports'[r]].socknum = r
    BY <1>4, <1>5, <1>6, <2>2 DEF Inv, TableAgrees
  <2>5. \A u \in Tcb : tcb'[u].socknum # -1
                          => ports'[tcb'[u].socknum] = u /\ tcb'[u].state # "FREE"
    BY <1>4, <1>5, <1>6, <2>3 DEF Inv, TableAgrees
  <2> QED BY <2>4, <2>5 DEF TableAgrees
<1>11. ClosingIsOrphaned' /\ ConnectedHasPeer' /\ OneListener'
  BY <1>4, <1>5 DEF Inv, ClosingIsOrphaned, ConnectedHasPeer, OneListener, Departing, Connected,
                    CLOSINGSTATES, ABORTSTATES, RESETKEEPALIVE, SEND_OK
<1> QED BY <1>8, <1>9, <1>10, <1>11 DEF Inv

-----------------------------------------------------------------------------
(* The calls on a socket that has a block.                                 *)
LEMMA ConnectKeepsInv ==
    ASSUME Inv, NEW s \in Socknum, NEW peer \in Peer, Connect(s, peer)
    PROVE  Inv'
<1> DEFINE t == ports[s]
           new == [tcb[t] EXCEPT !.peer = peer, !.keep = TRUE, !.state = "SYN_SENT"]
<1>1. Changes(t, new) /\ ports[s] # NoTcb
  BY DEF Connect
<1>2. /\ t \in Tcb /\ tcb[t] \in Block /\ tcb[t].state # "FREE"
  BY <1>1, SocketIsListed
<1>3. /\ new \in Block /\ new.state = "SYN_SENT" /\ new.peer # NoPeer
      /\ new.socknum = tcb[t].socknum
  BY <1>2 DEF Block, States, CONNINPROGRESS
<1>4. "SYN_SENT" \notin Departing
  BY DEF Departing, CLOSINGSTATES
<1> HIDE DEF new, t
<1> QED BY <1>1, <1>2, <1>3, <1>4, ChangesKeepsInv

LEMMA ListenKeepsInv ==
    ASSUME Inv, NEW s \in Socknum, NEW port \in Port, Listen(s, port)
    PROVE  Inv'
<1> DEFINE t == ports[s]
           new == [tcb[t] EXCEPT !.port = port, !.keep = FALSE, !.state = "LISTEN"]
<1>1. Changes(t, new) /\ ports[s] # NoTcb /\ ~Listening(port)
  BY DEF Listen
<1>2. /\ t \in Tcb /\ tcb[t] \in Block /\ tcb[t].state # "FREE"
  BY <1>1, SocketIsListed
<1>3. /\ new \in Block /\ new.state = "LISTEN" /\ new.port = port
      /\ new.socknum = tcb[t].socknum
  BY <1>2 DEF Block, States, CONNINPROGRESS
<1>4. "LISTEN" \notin Departing /\ "LISTEN" \notin Connected
  BY DEF Departing, Connected, CLOSINGSTATES, ABORTSTATES, RESETKEEPALIVE, SEND_OK
<1>5. \A u \in Tcb : tcb[u].state = "LISTEN" /\ tcb[u].peer = NoPeer => tcb[u].port # port
  BY <1>1 DEF Listening, Listed
<1> HIDE DEF new, t
<1> QED BY <1>1, <1>2, <1>3, <1>4, <1>5, ChangesKeepsInv

LEMMA BindKeepsInv ==
    ASSUME Inv, NEW s \in Socknum, NEW port \in Port, Bind(s, port)
    PROVE  Inv'
<1> DEFINE t == ports[s]
           new == [tcb[t] EXCEPT !.port = port]
<1>1. Changes(t, new) /\ ports[s] # NoTcb /\ ~InUse(port)
  BY DEF Bind
<1>2. /\ t \in Tcb /\ tcb[t] \in Block
      /\ tcb[t].state # "FREE" /\ tcb[t].state \notin Departing
  BY <1>1, SocketIsListed
<1>3. /\ new \in Block /\ new.state = tcb[t].state /\ new.port = port
      /\ new.peer = tcb[t].peer /\ new.socknum = tcb[t].socknum
  BY <1>2 DEF Block
<1>4. \A u \in Tcb : tcb[u].state = "LISTEN" => tcb[u].port # port
  BY <1>1 DEF InUse, Listed
<1>5. tcb[t].state \in Connected => tcb[t].peer # NoPeer
  BY <1>2 DEF Inv, ConnectedHasPeer
<1> HIDE DEF new, t
<1> QED BY <1>1, <1>2, <1>3, <1>4, <1>5, ChangesKeepsInv

LEMMA LeaveKeepsInv ==
    ASSUME Inv, NEW s \in Socknum, ports[s] # NoTcb, tcb[ports[s]].state \in Connected,
           NEW state \in Connected, Leave(s, state)
    PROVE  Inv'
<1> DEFINE t == ports[s]
           new == [tcb[t] EXCEPT !.state = state, !.socknum = -1]
<1>1. /\ t \in Tcb /\ tcb[t] \in Block /\ tcb[t].socknum = s /\ s # -1
      /\ tcb[t].state # "FREE"
  BY SocketIsListed
<1>2. /\ tcb \in [Tcb -> Block] /\ ports \in [Socknum -> Tcb \cup {NoTcb}]
      /\ ports' = [ports EXCEPT ![s] = NoTcb] /\ list' = list /\ onqueue' = onqueue
  BY DEF Inv, TypeOK, Leave
<1>3. tcb' = [tcb EXCEPT ![t] = new]
  BY <1>1, <1>2 DEF Leave
<1>4. state \in States /\ state # "FREE" /\ state # "LISTEN"
  BY DEF Connected, States, CLOSINGSTATES, ABORTSTATES, RESETKEEPALIVE, SEND_OK, CONNINPROGRESS
<1>5. /\ new \in Block /\ new.state = state /\ new.socknum = -1 /\ new.peer = tcb[t].peer
  BY <1>1, <1>4 DEF Block
<1>6. tcb[t].peer # NoPeer
  BY <1>1 DEF Inv, ConnectedHasPeer
<1> HIDE DEF new, t
<1>7. \A u \in Tcb : tcb'[u] = IF u = t THEN new ELSE tcb[u]
  BY <1>2, <1>3
<1>8. \A r \in Socknum : ports'[r] = IF r = s THEN NoTcb ELSE ports[r]
  BY <1>2
<1>9. TypeOK'
  BY <1>2, <1>3, <1>5 DEF Inv, TypeOK
<1>10. ListAgrees'
  BY <1>1, <1>2, <1>4, <1>5, <1>7 DEF Inv, ListAgrees
<1>11. TableAgrees'
  <2>1. \A r \in Socknum : r # s /\ ports[r] # NoTcb
                              => ports[r] \in Tcb /\ ports[r] # t /\ tcb[ports[r]].socknum = r
    BY <1>1, <1>2 DEF Inv, TableAgrees
  <2>2. \A u \in Tcb : u # t /\ tcb[u].socknum # -1
                          => /\ tcb[u].socknum \in Socknum /\ tcb[u].socknum # s
                             /\ ports[tcb[u].socknum] = u /\ tcb[u].state # "FREE"
    BY <1>1, <1>2 DEF Inv, TableAgrees, Block, t
  <2>3. \A r \in Socknum : ports'[r] # NoTcb => tcb'[ports'[r]].socknum = r
    BY <1>7, <1>8, <2>1
  <2>4. \A u \in Tcb : tcb'[u].socknum # -1
                          => ports'[tcb'[u].socknum] = u /\ tcb'[u].state # "FREE"
    BY <1>5, <1>7, <1>8, <2>2
  <2> QED BY <2>3, <2>4 DEF TableAgrees
<1>12. ClosingIsOrphaned' /\ ConnectedHasPeer' /\ OneListener'
  BY <1>4, <1>5, <1>6, <1>7 DEF Inv, ClosingIsOrphaned, ConnectedHasPeer, OneListener
<1> QED BY <1>9, <1>10, <1>11, <1>12 DEF Inv

LEMMA CloseKeepsInv ==
    ASSUME Inv, NEW s \in Socknum, Close(s)
    PROVE  Inv'
<1>1. /\ ports[s] # NoTcb /\ ports[s] \in Tcb /\ tcb[ports[s]].state # "FREE"
      /\ tcb[ports[s]].state \notin Departing
  BY SocketIsListed DEF Close
<1>2. CASE tcb[ports[s]].state \in {"SYN_RECEIVED", "ESTABLISHED"} /\ Leave(s, "FINWAIT_1")
  <2>1. "FINWAIT_1" \in Connected /\ tcb[ports[s]].state \in Connected
    BY <1>2 DEF Connected, CLOSINGSTATES, ABORTSTATES, RESETKEEPALIVE, SEND_OK
  <2> QED BY <1>1, <1>2, <2>1, LeaveKeepsInv
<1>3. CASE tcb[ports[s]].state = "CLOSE_WAIT" /\ Leave(s, "LAST_ACK")
  <2>1. "LAST_ACK" \in Connected /\ tcb[ports[s]].state \in Connected
    BY <1>3 DEF Connected, CLOSINGSTATES, ABORTSTATES, RESETKEEPALIVE, SEND_OK
  <2> QED BY <1>1, <1>3, <2>1, LeaveKeepsInv
<1>4. CASE tcb[ports[s]].state \in {"CLOSED", "LISTEN", "SYN_SENT"} /\ Freetcb(ports[s])
  BY <1>1, <1>4, FreetcbKeepsInv
<1> QED BY <1>1, <1>2, <1>3, <1>4 DEF Close

-----------------------------------------------------------------------------
(* Segments and timers.                                                    *)
LEMMA ClosetcbKeepsInv ==
    ASSUME Inv, NEW t \in Tcb, tcb[t].state # "FREE", Closetcb(t)
    PROVE  Inv'
<1> DEFINE new == [tcb[t] EXCEPT !.state = "CLOSED", !.keep = FALSE]
<1>1. Changes(t, new) /\ tcb[t] \in Block
  BY DEF Closetcb, Inv, TypeOK
<1>2. new \in Block /\ new.state = "CLOSED" /\ new.socknum = tcb[t].socknum
  BY <1>1 DEF Block, States
<1>3. "CLOSED" \notin Departing /\ "CLOSED" \notin Connected
  BY DEF Departing, Connected, CLOSINGSTATES, ABORTSTATES, RESETKEEPALIVE, SEND_OK
<1> HIDE DEF new
<1> QED BY <1>1, <1>2, <1>3, ChangesKeepsInv

LEMMA ResetKeepsInv ==
    ASSUME Inv, NEW peer \in Peer, NEW port \in Port, Reset(peer, port)
    PROVE  Inv'
<1> DEFINE t == Find(peer, port)
           new == [tcb[t] EXCEPT !.state = "LISTEN"]
<1>1. t \in Tcb /\ tcb[t].state # "FREE" /\ tcb[t] \in Block
  BY FindsListed DEF Reset, Inv, TypeOK
<1>2. CASE tcb[t].state = "SYN_RECEIVED"
  <2>1. Changes(t, new)
    BY <1>2 DEF Reset
  <2>2. tcb[t].peer # NoPeer /\ tcb[t].peer \in Peer \cup {NoPeer}
    BY <1>1, <1>2 DEF Inv, ConnectedHasPeer, Connected, ABORTSTATES, Block
  <2>3. /\ new \in Block /\ new.state = "LISTEN" /\ new.peer = tcb[t].peer
        /\ new.socknum = tcb[t].socknum
    BY <1>1 DEF Block, States, CONNINPROGRESS
  <2>4. "LISTEN" \notin Departing
    BY DEF Departing, CLOSINGSTATES
  <2> HIDE DEF new, t
  <2> QED BY <1>1, <2>1, <2>2, <2>3, <2>4, ChangesKeepsInv
<1>3. CASE tcb[t].state # "SYN_RECEIVED"
  <2>1. Closetcb(t)
    BY <1>3 DEF Reset
  <2> QED BY <1>1, <2>1, ClosetcbKeepsInv
<1> QED BY <1>2, <1>3

(* An arrow that does not free the block leads between states that know    *)
(* their peer, and into a closing state only from another one.             *)
LEMMA ArrowsStayConnected ==
    \A from \in States, to \in States \ {"FREE"} :
        <<from, to>> \in SegmentArrows \/ (from = to /\ to \in RESETKEEPALIVE)
            => /\ to \in Connected /\ to # "LISTEN"
               /\ from = "LISTEN" \/ from \in Connected
               /\ to \in Departing => from \in Departing
  BY DEF SegmentArrows, States, Connected, Departing, CONNINPROGRESS, CLOSINGSTATES,
         ABORTSTATES, RESETKEEPALIVE, SEND_OK

LEMMA SegmentKeepsInv ==
    ASSUME Inv, NEW peer \in Peer, NEW port \in Port, NEW state \in States,
           Segment(peer, port, state)
    PROVE  Inv'
<1> DEFINE t == Find(peer, port)
<1>1. t \in Tcb /\ tcb[t].state # "FREE" /\ tcb[t] \in Block
  BY FindsListed DEF Segment, Inv, TypeOK
<1>2. CASE state = "FREE"
  BY <1>1, <1>2, FreetcbKeepsInv DEF Segment
<1>3. CASE state # "FREE"
  <2>1. PICK keep \in BOOLEAN :
           Changes(t, [tcb[t] EXCEPT !.state = state, !.peer = PeerAfter(t, peer), !.keep = keep])
    <3> DEFINE kept == IF <<tcb[t].state, state>> = <<"SYN_SENT", "SYN_RECEIVED">>
                       THEN tcb[t].keep ELSE state # "TIME_WAIT"
    <3>1. kept \in BOOLEAN
      BY <1>1 DEF Block
    <3>2. Changes(t, [tcb[t] EXCEPT !.state = state, !.peer = PeerAfter(t, peer), !.keep = kept])
      BY <1>3 DEF Segment
    <3> QED BY <3>1, <3>2
  <2> DEFINE new == [tcb[t] EXCEPT !.state = state, !.peer = PeerAfter(t, peer), !.keep = keep]
  <2>2. /\ state \in Connected /\ state # "LISTEN"
        /\ tcb[t].state = "LISTEN" \/ tcb[t].state \in Connected
        /\ state \in Departing => tcb[t].state \in Departing
    <3>1. \/ <<tcb[t].state, state>> \in SegmentArrows
          \/ tcb[t].state = state /\ state \in RESETKEEPALIVE
      BY DEF Segment
    <3>2. tcb[t].state \in States
      BY <1>1 DEF Block
    <3> HIDE DEF t, new
    <3> QED BY <1>3, <3>1, <3>2, ArrowsStayConnected
  <2>3. PeerAfter(t, peer) \in Peer
    <3>1. CASE tcb[t].state = "LISTEN"
      BY <3>1 DEF PeerAfter
    <3>2. CASE tcb[t].state # "LISTEN"
      BY <1>1, <2>2, <3>2 DEF PeerAfter, Inv, ConnectedHasPeer, Block
    <3> QED BY <3>1, <3>2
  <2>4. /\ new \in Block /\ new.state = state /\ new.peer \in Peer
        /\ new.socknum = tcb[t].socknum
    BY <1>1, <2>3 DEF Block
  <2>5. state \in Departing => tcb[t].socknum = -1
    BY <1>1, <2>2 DEF Inv, ClosingIsOrphaned
  <2> HIDE DEF new, t
  <2> QED BY <1>1, <1>3, <2>1, <2>2, <2>4, <2>5, ChangesKeepsInv DEF new
<1> QED BY <1>2, <1>3

LEMMA KeepExpiresKeepsInv ==
    ASSUME Inv, NEW t \in Tcb, KeepExpires(t)
    PROVE  Inv'
<1> DEFINE new == [tcb[t] EXCEPT !.keep = FALSE]
<1>1. tcb[t] \in Block
  BY DEF Inv, TypeOK
<1>2. CASE tcb[t].state \in CONNINPROGRESS
  <2>1. Closetcb(t) /\ tcb[t].state # "FREE"
    BY <1>2 DEF KeepExpires, CONNINPROGRESS
  <2> QED BY <2>1, ClosetcbKeepsInv
<1>3. CASE tcb[t].state \notin CONNINPROGRESS
  <2>1. /\ tcb' = [tcb EXCEPT ![t] = new]
        /\ list' = list /\ ports' = ports /\ onqueue' = onqueue
    BY <1>3 DEF KeepExpires, Changes
  <2>2. /\ new \in Block /\ new.state = tcb[t].state /\ new.peer = tcb[t].peer
        /\ new.socknum = tcb[t].socknum /\ new.port = tcb[t].port
    BY <1>1 DEF Block
  <2> HIDE DEF new
  <2>3. \A u \in Tcb : tcb'[u] = IF u = t THEN new ELSE tcb[u]
    BY <2>1 DEF Inv, TypeOK
  <2>4. TypeOK'
    BY <2>1, <2>2 DEF Inv, TypeOK
  <2>5. ListAgrees'
    BY <2>1, <2>2, <2>3 DEF Inv, ListAgrees
  <2>6. TableAgrees'
    <3>1. \A s \in Socknum : ports[s] # NoTcb => ports[s] \in Tcb
      BY DEF Inv, TypeOK
    <3> QED BY <2>1, <2>2, <2>3, <3>1 DEF Inv, TableAgrees
  <2>7. ClosingIsOrphaned' /\ ConnectedHasPeer'
    BY <2>2, <2>3 DEF Inv, ClosingIsOrphaned, ConnectedHasPeer
  <2>8. OneListener'
    BY <2>2, <2>3 DEF Inv, OneListener
  <2> QED BY <2>4, <2>5, <2>6, <2>7, <2>8 DEF Inv
<1> QED BY <1>2, <1>3

-----------------------------------------------------------------------------
(* The empty tables, before the first call and after _tcp_uninit.          *)
LEMMA InitInv == Init => Inv
<1>1. FreeTcb \in Block /\ FreeTcb.state = "FREE" /\ FreeTcb.socknum = -1
  BY DEF FreeTcb, Block, States, Port
<1>2. "FREE" \notin Departing /\ "FREE" \notin Connected
  BY DEF Departing, Connected, CLOSINGSTATES, ABORTSTATES, RESETKEEPALIVE, SEND_OK
<1> SUFFICES ASSUME Init PROVE Inv
  OBVIOUS
<1>3. TypeOK
  BY <1>1 DEF Init, TypeOK
<1>4. ListAgrees /\ TableAgrees
  BY <1>1 DEF Init, ListAgrees, TableAgrees
<1>5. ClosingIsOrphaned /\ ConnectedHasPeer /\ OneListener
  BY <1>1, <1>2 DEF Init, ClosingIsOrphaned, ConnectedHasPeer, OneListener
<1> QED BY <1>3, <1>4, <1>5 DEF Inv

LEMMA NextInv == Inv /\ [Next]_vars => Inv'
<1> SUFFICES ASSUME Inv, [Next]_vars PROVE Inv'
  OBVIOUS
<1>1. ASSUME NEW s \in Socknum, NEW t \in Tcb, NEW ticks \in Ticks, Socket(s, t, ticks)
      PROVE  Inv'
  BY <1>1, SocketKeepsInv
<1>2. ASSUME NEW s \in Socknum, NEW peer \in Peer, Connect(s, peer)
      PROVE  Inv'
  BY <1>2, ConnectKeepsInv
<1>3. ASSUME NEW s \in Socknum, NEW port \in UserPorts, Listen(s, port) \/ Bind(s, port)
      PROVE  Inv'
  BY <1>3, ListenKeepsInv, BindKeepsInv
<1>4. ASSUME NEW s \in Socknum, Close(s)
      PROVE  Inv'
  BY <1>4, CloseKeepsInv
<1>5. ASSUME NEW peer \in Peer, NEW port \in Port, Reset(peer, port)
      PROVE  Inv'
  BY <1>5, ResetKeepsInv
<1>6. ASSUME NEW peer \in Peer, NEW port \in Port, NEW state \in States,
             Segment(peer, port, state)
      PROVE  Inv'
  BY <1>6, SegmentKeepsInv
<1>7. ASSUME NEW t \in Tcb, KeepExpires(t)
      PROVE  Inv'
  BY <1>7, KeepExpiresKeepsInv
<1>8. ASSUME NEW t \in Tcb, MslExpires(t)
      PROVE  Inv'
  BY <1>8, FreetcbKeepsInv DEF MslExpires
<1>9. CASE Uninit
  <2>1. /\ tcb' = [t \in Tcb |-> FreeTcb] /\ list' = <<>>
        /\ ports' = [s \in Socknum |-> NoTcb] /\ onqueue' = 0
    BY <1>9 DEF Uninit
  <2>2. Init'
    BY <2>1 DEF Init
  <2>3. (Init => Inv)'
    BY InitInv, PTL
  <2> QED BY <2>2, <2>3
<1>10. CASE UNCHANGED vars
  BY <1>10 DEF vars, Inv, TypeOK, ListAgrees, TableAgrees, ClosingIsOrphaned, ConnectedHasPeer,
               OneListener
<1> QED BY <1>1, <1>2, <1>3, <1>4, <1>5, <1>6, <1>7, <1>8, <1>9, <1>10
        DEF Next, UserStep, OtherStep

-----------------------------------------------------------------------------
(* Every state is well typed, so no pointer of the table or the list is    *)
(* anything but a block's address and no count leaves its range.           *)
THEOREM TypeCorrect == Spec => []TypeOK
<1>1. Inv => TypeOK
  BY DEF Inv
<1> QED BY InitInv, NextInv, <1>1, PTL DEF Spec

(* The list, the count, the socket table and the blocks agree: freed       *)
(* blocks (_tcp_freetcb) are reachable neither from a socket number nor    *)
(* from the list.                                                          *)
THEOREM TablesAgree == Spec => [](ListAgrees /\ TableAgrees)
<1>1. Inv => ListAgrees /\ TableAgrees
  BY DEF Inv
<1> QED BY InitInv, NextInv, <1>1, PTL DEF Spec

(* Every block in use is on the list, once, and is counted (_tcp_socket,   *)
(* _tcp_freetcb).                                                          *)
THEOREM ListIsComplete == Spec => []ListAgrees
<1>1. Inv => ListAgrees
  BY DEF Inv
<1> QED BY InitInv, NextInv, <1>1, PTL DEF Spec

(* A block that _tcp_close has let go of is out of every caller's reach    *)
(* (_tcp_close, _tcp_rx_callback, _tcp_poll).                              *)
THEOREM ClosingAreOrphans == Spec => []ClosingIsOrphaned
<1>1. Inv => ClosingIsOrphaned
  BY DEF Inv
<1> QED BY InitInv, NextInv, <1>1, PTL DEF Spec

(* A block that has been connecting has a peer (_tcp_connect,              *)
(* _tcp_rx_callback).                                                      *)
THEOREM ConnectedKnowTheirPeer == Spec => []ConnectedHasPeer
<1>1. Inv => ConnectedHasPeer
  BY DEF Inv
<1> QED BY InitInv, NextInv, <1>1, PTL DEF Spec

(* At most one block waits for strangers on a port (_tcp_listen, _tcp_bind *)
(* and _tcp_rx_callback together).                                         *)
THEOREM ListenerIsUnique == Spec => [](OneListener /\ ConnectedHasPeer)
<1>1. Inv => OneListener /\ ConnectedHasPeer
  BY DEF Inv
<1> QED BY InitInv, NextInv, <1>1, PTL DEF Spec

(* A socket number is taken from its block only by _tcp_close or by the    *)
(* end of the whole TCP, never by a segment or a timer.                    *)
THEOREM HandlesAreStable == Spec => HandlesStay
<1>1. ASSUME Inv, [Next]_vars, NEW s \in Socknum, ports[s] # NoTcb, ports'[s] # ports[s]
      PROVE  Close(s) \/ Uninit
  <2>2. \A t \in Tcb : tcb[t].socknum = -1 => ~Freetcb(t)
    BY <1>1 DEF Freetcb
  <2>3. ASSUME NEW r \in Socknum, NEW t \in Tcb, NEW ticks \in Ticks, Socket(r, t, ticks)
        PROVE  FALSE
    BY <1>1, <2>3 DEF Socket, Inv, TypeOK
  <2>4. ASSUME NEW r \in Socknum, NEW peer \in Peer, Connect(r, peer)
        PROVE  FALSE
    BY <1>1, <2>4 DEF Connect, Changes
  <2>5. ASSUME NEW r \in Socknum, NEW port \in UserPorts, Listen(r, port) \/ Bind(r, port)
        PROVE  FALSE
    BY <1>1, <2>5 DEF Listen, Bind, Changes
  <2>6. ASSUME NEW r \in Socknum, r # s, Close(r)
        PROVE  FALSE
    <3>1. ports[r] # NoTcb /\ tcb[ports[r]].socknum = r
      BY <1>1, <2>6, SocketIsListed DEF Close
    <3>2. ports' = [ports EXCEPT ![r] = NoTcb]
      BY <2>6, <3>1 DEF Close, Leave, Freetcb, Socknum
    <3> QED BY <1>1, <2>6, <3>2
  <2>7. ASSUME NEW peer \in Peer, NEW port \in Port, Reset(peer, port)
        PROVE  FALSE
    BY <1>1, <2>7 DEF Reset, Changes, Closetcb
  <2>8. ASSUME NEW peer \in Peer, NEW port \in Port, NEW state \in States,
               Segment(peer, port, state)
        PROVE  FALSE
    <3> DEFINE t == Find(peer, port)
    <3>1. t \in Tcb /\ tcb[t].state \in States
      BY <1>1, <2>8, FindsListed DEF Segment, Inv, TypeOK, Block
    <3>2. CASE state = "FREE"
      <4>1. <<tcb[t].state, "FREE">> \in SegmentArrows
        BY <2>8, <3>2 DEF Segment, RESETKEEPALIVE, SEND_OK, CLOSINGSTATES
      <4>2. tcb[t].state = "LAST_ACK"
        BY <4>1 DEF SegmentArrows
      <4>3. tcb[t].socknum = -1
        BY <1>1, <3>1, <4>2 DEF Inv, ClosingIsOrphaned, Departing, CLOSINGSTATES
      <4>4. Freetcb(t)
        BY <2>8, <3>2 DEF Segment
      <4> QED BY <2>2, <3>1, <4>3, <4>4
    <3>3. CASE state # "FREE"
      BY <1>1, <2>8, <3>3 DEF Segment, Changes
    <3> QED BY <3>2, <3>3
  <2>9. ASSUME NEW t \in Tcb, KeepExpires(t)
        PROVE  FALSE
    BY <1>1, <2>9 DEF KeepExpires, Changes, Closetcb
  <2>10. ASSUME NEW t \in Tcb, MslExpires(t)
         PROVE  FALSE
    BY <1>1, <2>2, <2>10 DEF MslExpires, Inv, ClosingIsOrphaned, Departing
  <2>11. CASE UNCHANGED vars
    BY <1>1, <2>11 DEF vars
  <2> QED BY <1>1, <2>3, <2>4, <2>5, <2>6, <2>7, <2>8, <2>9, <2>10, <2>11
          DEF Next, UserStep, OtherStep
<1>2. Inv /\ [Next]_vars
         => [\A s \in Socknum : ports[s] # NoTcb /\ ports'[s] # ports[s]
                                   => Close(s) \/ Uninit]_vars
  BY <1>1
<1> QED BY InitInv, NextInv, <1>2, PTL DEF Spec, HandlesStay
=============================================================================
