------------------------------ MODULE TcpTypes ------------------------------
(***************************************************************************)
(* The types of what TcpTcb and TcpInput work on: sequence numbers, bytes, *)
(* buffers, segments, control blocks and handlers.  Junk is a byte from    *)
(* outside the live part of a buffer.                                      *)
(***************************************************************************)
EXTENDS TcpInput

SeqNum == 0 .. SeqSize - 1
Bytes == Nat \cup {Junk}
Buffers == {s \in Seq(Bytes) : Len(s) <= BufSize}
Loads == {s \in Seq(Bytes) : Len(s) <= Mtu}
Segments == [flags : SUBSET HeaderFlags, seq : SeqNum, ack : SeqNum, win : 0..BufSize,
             data : Loads]
Tcbs == [state : States, sock : BOOLEAN, peer : BOOLEAN, bound : BOOLEAN,
         sendunack : SeqNum, sendnext : SeqNum, sendwindow : 0..BufSize,
         rcvnext : SeqNum, rcvack : SeqNum,
         txflags : SUBSET HeaderFlags, flags : SUBSET TcbFlags,
         txbuf : Buffers, rxbuf : Buffers,
         retx : BOOLEAN, keep : BOOLEAN, msl : BOOLEAN]
Handlers == [t : Tcbs, out : Seq(Segments), ebuf : BOOLEAN]

\* Between two calls no output is due.
Calm(t) == "OUTPUT" \notin t.flags
=============================================================================
