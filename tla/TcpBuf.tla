-------------------------------- MODULE TcpBuf --------------------------------
(***************************************************************************)
(* The modulo ("ring") buffer of net_tcpbuf.c, one of which holds the      *)
(* unacknowledged output and another the unread input of every TCB.        *)
(* Each function of the file is one action.  The buffer is the function    *)
(* mem from the offsets 0 .. BufSize-1; the rest of the state is the four  *)
(* fields of tcpmodbuf_t.  ret is what the caller gets back, so that the   *)
(* buffer can be compared with the queue it is meant to be.                *)
(*                                                                         *)
(* The add and remove pointers are left AT BufSize, not wrapped to 0, by a *)
(* copy that ends exactly at the end of the memory, and wrapped by the two *)
(* functions that use the remainder: both forms occur.                     *)
(***************************************************************************)
EXTENDS Integers, Sequences

CONSTANTS Byte,      \* the values a byte can have
          BufSize,   \* tmb_bufsize (TCP_BUF_SIZE, 20480 on the board)
          MaxChunk   \* bound on the length one call asks for

ASSUME BufSizeAssumption == BufSize \in Nat \ {0}
ASSUME MaxChunkAssumption == MaxChunk \in Nat

VARIABLES mem,       \* tmb_buf: the memory, whatever KMALLOC found there first
          addptr,    \* tmb_addptr: where the next byte goes
          remptr,    \* tmb_remptr: where the oldest byte is
          len,       \* tmb_len: the number of bytes held
          ret        \* what the last call returned: a count and some bytes

bufVars == <<mem, addptr, remptr, len, ret>>

Offset == 0 .. BufSize - 1
Chunk == UNION {[1..n -> Byte] : n \in 0..MaxChunk}
Least(a, b) == IF a < b THEN a ELSE b

BufTypeOK == /\ mem \in [Offset -> Byte]
             /\ addptr \in 0..BufSize
             /\ remptr \in 0..BufSize
             /\ len \in 0..BufSize

-----------------------------------------------------------------------------
Returns(n, bytes) == ret' = [n |-> n, bytes |-> bytes]

(* Slips the runs are known to find, each in the place of one definition.  *)
BytesFrom_OnePiece(ptr, n) ==
    [i \in 1..n |-> mem[IF ptr + i - 1 < BufSize THEN ptr + i - 1 ELSE BufSize - 1]]
Reinit_KeepsAddPointer == /\ remptr' = 0
                          /\ len' = 0
                          /\ Returns(0, <<>>)
                          /\ UNCHANGED <<mem, addptr>>

(* The n bytes found from ptr on, when the walk is split as the code does: *)
(* up to the end of the memory, then from its start.                       *)
BytesFrom(ptr, n) ==
    [i \in 1..n |-> IF ptr + i - 1 < BufSize THEN mem[ptr + i - 1]
                                             ELSE mem[ptr + i - 1 - BufSize]]

(* The pointer after a walk of n bytes from ptr: only a walk that had to   *)
(* start over from the beginning of the memory is wrapped.                 *)
Moved(ptr, n) == IF ptr + n <= BufSize THEN ptr + n ELSE ptr + n - BufSize

-----------------------------------------------------------------------------
(* tmb_alloc: fresh memory and tmb_init.                                   *)
BufInit == /\ mem \in [Offset -> Byte]
           /\ addptr = 0
           /\ remptr = 0
           /\ len = 0
           /\ ret = [n |-> 0, bytes |-> <<>>]

(* tmb_init: the bytes held are wasted, the memory is left as it is.       *)
Reinit == /\ addptr' = 0
          /\ remptr' = 0
          /\ len' = 0
          /\ Returns(0, <<>>)
          /\ UNCHANGED mem

(* tmb_adjust: the caller has made sure that amt bytes are there (the      *)
(* range test of _tcp_procack); this function does not.                    *)
Adjust(amt) == /\ amt <= len
               /\ len' = len - amt
               /\ remptr' = (remptr + amt) % BufSize
               /\ Returns(0, <<>>)
               /\ UNCHANGED <<mem, addptr>>

(* tmb_copyin: the part of data there is room for, in one or two pieces.   *)
Copyin(data) ==
    LET n == Least(BufSize - len, Len(data))
        first == Least(BufSize - addptr, n)
    IN  /\ mem' = [o \in Offset |->
                      IF addptr <= o /\ o < addptr + first
                      THEN data[o - addptr + 1]
                      ELSE IF o < n - first THEN data[first + o + 1] ELSE mem[o]]
        /\ len' = len + n
        /\ addptr' = Moved(addptr, n)
        /\ Returns(n, <<>>)
        /\ UNCHANGED remptr

(* tmb_copyout with update: the oldest bytes, at most want of them.        *)
Copyout(want) ==
    LET n == Least(len, want) IN
    /\ len' = len - n
    /\ remptr' = Moved(remptr, n)
    /\ Returns(n, BytesFrom(remptr, n))
    /\ UNCHANGED <<mem, addptr>>

(* tmb_copyout2: bytes some way behind the remove pointer, which stays.    *)
Copyout2(off, want) ==
    LET n == IF len - off <= 0 THEN 0 ELSE Least(len - off, want) IN
    /\ Returns(n, BytesFrom((remptr + off) % BufSize, n))
    /\ UNCHANGED <<mem, addptr, remptr, len>>

BufNext == \/ Reinit
           \/ \E amt \in 0..BufSize : Adjust(amt)
           \/ \E data \in Chunk : Copyin(data)
           \/ \E want \in 0..MaxChunk : Copyout(want)
           \/ \E off, want \in 0..MaxChunk : Copyout2(off, want)

BufSpec == BufInit /\ [][BufNext]_bufVars

-----------------------------------------------------------------------------
(* What the buffer holds, oldest byte first.                               *)
Contents == [i \in 1..len |-> mem[(remptr + i - 1) % BufSize]]

(* The two pointers and the length never disagree: walking len bytes from  *)
(* the remove pointer leads to the add pointer, although either of them    *)
(* may stand at the end of the memory instead of its start.                *)
PointersAgree == addptr - (remptr + len) \in {-BufSize, 0, BufSize}

(* The buffer is the bounded queue that net_tcp.c takes it for: every call *)
(* accepts, returns and removes exactly the bytes the queue would, however *)
(* the bytes lie around the end of the memory.                             *)
Queue == INSTANCE ByteQueue WITH q <- Contents, Capacity <- BufSize
IsAByteQueue == Queue!Spec
=============================================================================
