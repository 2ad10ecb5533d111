------------------------------ MODULE ByteQueue ------------------------------
(***************************************************************************)
(* What net_tcpbuf.c promises to net_tcp.c: a bounded first-in first-out   *)
(* queue of bytes.  A writer offers a chunk and as much of its front is    *)
(* accepted as there is room for; a reader takes bytes from the front, or  *)
(* looks at bytes some distance behind the front without taking them; the  *)
(* front can be skipped, and the queue emptied.  Nothing is said of how    *)
(* the bytes are stored.                                                   *)
(***************************************************************************)
EXTENDS Integers, Sequences

CONSTANTS Byte,       \* the values a byte can have
          Capacity,   \* the number of bytes the queue can hold
          MaxChunk    \* bound on the length one call asks for

VARIABLES q,          \* the bytes queued, oldest first
          ret         \* what the last call returned: a count and some bytes

Chunk == UNION {[1..n -> Byte] : n \in 0..MaxChunk}

Least(a, b) == IF a < b THEN a ELSE b

(* The n bytes that follow the first off bytes of the sequence s.          *)
Slice(s, off, n) == [i \in 1..n |-> s[off + i]]

Returns(n, bytes) == ret' = [n |-> n, bytes |-> bytes]

Init == /\ q = <<>>
        /\ ret = [n |-> 0, bytes |-> <<>>]

Put(data) == LET n == Least(Capacity - Len(q), Len(data)) IN
             /\ q' = q \o Slice(data, 0, n)
             /\ Returns(n, <<>>)

Take(want) == LET n == Least(Len(q), want) IN
              /\ q' = Slice(q, n, Len(q) - n)
              /\ Returns(n, Slice(q, 0, n))

Peek(off, want) == LET n == IF off < Len(q) THEN Least(Len(q) - off, want)
                                            ELSE 0 IN
                   /\ q' = q
                   /\ Returns(n, Slice(q, off, n))

Skip(n) == /\ n <= Len(q)
           /\ q' = Slice(q, n, Len(q) - n)
           /\ Returns(0, <<>>)

Clear == /\ q' = <<>>
         /\ Returns(0, <<>>)

Next == \/ \E data \in Chunk : Put(data)
        \/ \E want \in 0..MaxChunk : Take(want)
        \/ \E off, want \in 0..MaxChunk : Peek(off, want)
        \/ \E n \in 0..Capacity : Skip(n)
        \/ Clear

Spec == Init /\ [][Next]_<<q, ret>>
=============================================================================
