-------------------------------- MODULE Tftp --------------------------------
(***************************************************************************)
(* One file read from or written to a TFTP server (net_tftp.c), over a UDP *)
(* port whose receive queue holds MaxQueue datagrams (net_udp.c).          *)
(*                                                                         *)
(* The network keeps every datagram that was ever sent and may deliver it  *)
(* at any time, any number of times, or never: that is loss, repetition,   *)
(* reordering and delay.  The server is the one of the protocol's          *)
(* definition.  A request that is repeated starts another session with a   *)
(* port of its own, and the client does not look where datagrams come from *)
(* (_udp_rx_callback).  A byte of the file is its position.                *)
(***************************************************************************)
EXTENDS Integers, SequencesExt

CONSTANTS BlockSize,    \* TFTP_BLOCKSIZE (512)
          NumBlocks,    \* how many block numbers there are (2^16)
          MaxRetries,   \* TFTP_MAX_RETRIES (8)
          MaxQueue,     \* up_maxqueue (2)
          Session,      \* the server's sessions
          Port69,       \* where requests go
          FileSizes,    \* the sizes of the files on the server
          MaxWritten,   \* bound: bytes the application writes
          Lengths,      \* the lengths the application passes
          PoolMayFail,  \* whether udp_alloc may return NULL
          ServerMayFail \* whether the server may answer with an error

ASSUME TftpAssumption ==
    /\ {BlockSize, MaxRetries, MaxQueue} \subseteq Nat \ {0}
    /\ NumBlocks \in Nat /\ NumBlocks > 1
    /\ Port69 \notin Session
    /\ FileSizes \subseteq Nat /\ MaxWritten \in Nat
    /\ Lengths \subseteq Nat \ {0}
    /\ PoolMayFail \in BOOLEAN /\ ServerMayFail \in BOOLEAN

VARIABLES pc,        \* where the client is: between calls, or waiting in one
          info,      \* tftp_info_t
          call,      \* the locals of the call that is waiting
          res,       \* what the last call returned, how much it was asked for, and
                     \* whether udp_alloc has ever failed
          rx,        \* up_rxqueue
          peer,      \* up_destport
          toServer, toClient,   \* the datagrams sent so far
          file,      \* the file on the server
          session,   \* the server's sessions
          got, put   \* the bytes read, and written, by the application so far

client == <<pc, info, call, res, peer, got, put>>
server == <<file, session>>
vars == <<client, server, rx, toServer, toClient>>

Waiting == {"opening", "reading", "writing", "closing"}
Bytes(n) == [i \in 1..n |-> i]

(* Block k of the file: the last one is shorter than BlockSize.            *)
Block(k) == SubSeq(file, (k - 1) * BlockSize + 1, Min({k * BlockSize, Len(file)}))

NoCall == [retries |-> 0, left |-> 0, copied |-> 0, len |-> 0]
Idle == [mode |-> "none", next |-> 0, data |-> <<>>, closed |-> FALSE]

Init == /\ pc = "closed"
        /\ info = [mode |-> "none", blknum |-> 0, blk |-> <<>>, off |-> 0,
                   lastblock |-> FALSE, error |-> FALSE]
        /\ call = NoCall
        /\ res = [n |-> 0, len |-> 0, nobuf |-> FALSE]
        /\ rx = <<>>
        /\ peer = Port69
        /\ toServer = {} /\ toClient = {}
        /\ file \in {Bytes(n) : n \in FileSizes}
        /\ session = [s \in Session |-> Idle]
        /\ got = <<>> /\ put = <<>>

-----------------------------------------------------------------------------
(* Building blocks of the client.                                          *)

Request(mode) == [op |-> mode, to |-> Port69, num |-> 0, data |-> <<>>]
Ack(i) == [op |-> "ack", to |-> peer, num |-> i.blknum, data |-> <<>>]
Data(i) == [op |-> "data", to |-> peer, num |-> i.blknum, data |-> i.blk]
Cancel == [op |-> "error", to |-> peer, num |-> 0, data |-> <<>>]

(* The call c returns what it has copied.                                  *)
End(c, nobuf) == /\ pc' = IF pc \in {"reading", "writing", "idle"} THEN "idle" ELSE "done"
                 /\ call' = NoCall
                 /\ res' = [n |-> c.copied, len |-> c.len, nobuf |-> nobuf]
Return(c) == End(c, res.nobuf)

(* udp_alloc and udp_send, and the call c waits for an answer; or there is *)
(* no buffer, and it returns.                                              *)
Send(m, where, c) == \/ /\ toServer' = toServer \cup {m}
                        /\ pc' = where
                        /\ call' = c
                        /\ UNCHANGED res
                     \/ /\ PoolMayFail
                        /\ End(c, TRUE)
                        /\ UNCHANGED toServer

(* udp_recv_with_timeout: the oldest datagram of the queue, or none within *)
(* the time.                                                               *)
Recv(m) == rx # <<>> /\ m = Head(rx) /\ rx' = Tail(rx)
TimedOut == rx = <<>> /\ UNCHANGED rx

(* The loops of _tftp_readmore and _tftp_writemore, once more round.  (A   *)
(* name with an underscore is, here and below, a slip that the runs are    *)
(* known to find in place of the definition.)                              *)
LastTry == call.retries + 1 = MaxRetries
Again_NotCounted(m) == /\ Send(m, pc, call)
                       /\ UNCHANGED info
Again(m) == \/ /\ ~LastTry
               /\ Send(m, pc, [call EXCEPT !.retries = @ + 1])
               /\ UNCHANGED info
            \/ /\ LastTry
               /\ info' = [info EXCEPT !.error = TRUE]
               /\ Return(call)
               /\ UNCHANGED toServer

-----------------------------------------------------------------------------
(* A block that is not full ends the file.                                 *)
IsLast_FullToo(data) == Len(data) <= BlockSize
IsLast(data) == Len(data) < BlockSize

(* _tftp_open: the request is repeated from the same port until there is   *)
(* an answer of any kind.                                                  *)
Open(mode) == /\ pc = "closed"
              /\ info' = [info EXCEPT !.mode = mode]
              /\ Send(Request(mode), "opening", NoCall)
              /\ UNCHANGED <<peer, got, put, server, rx, toClient>>

OpenTimesOut == /\ pc = "opening"
                /\ TimedOut
                /\ \/ ~LastTry /\ Send(Request(info.mode), pc, [call EXCEPT !.retries = @ + 1])
                   \/ LastTry /\ Return(call) /\ UNCHANGED toServer
                /\ UNCHANGED <<info, peer, got, put, server, toClient>>

OpenAnswered ==
    /\ pc = "opening"
    /\ \E m \in toClient :
        /\ Recv(m)
        /\ \/ /\ m.op = "ack" /\ info.mode = "write"
              /\ info' = [info EXCEPT !.blknum = 1]
              /\ peer' = m.from
              /\ pc' = "idle"
           \/ /\ m.op = "data"
              /\ info' = [info EXCEPT !.blknum = m.num, !.blk = m.data,
                                      !.lastblock = IsLast(m.data)]
              /\ peer' = m.from
              /\ pc' = "idle"
           \/ /\ m.op = "error" \/ (m.op = "ack" /\ info.mode = "read")
              /\ pc' = "done"
              /\ UNCHANGED <<info, peer>>
    /\ call' = NoCall
    /\ UNCHANGED <<res, got, put, server, toServer, toClient>>

-----------------------------------------------------------------------------
(* tftp_fileop_read, and tftp_fileop_seek, which reads to no buffer: one   *)
(* turn of the loop.  When the block has been used up it is acknowledged,  *)
(* and the loop goes on when the next one has come (_tftp_readmore).       *)
ReadLoop(i, c) ==
    LET n == Min({c.left, Len(i.blk) - i.off})
        j == [i EXCEPT !.off = @ + n]
        d == [c EXCEPT !.retries = 0, !.left = @ - n, !.copied = @ + n]
        usedup == n > 0 /\ j.off = Len(i.blk)
    IN  /\ got' = got \o SubSeq(i.blk, i.off + 1, j.off)
        /\ info' = j
        /\ \/ usedup /\ ~i.lastblock /\ Send(Ack(j), "reading", d)
           \/ (~usedup \/ i.lastblock) /\ Return(d) /\ UNCHANGED toServer

Read(len) == /\ pc = "idle" /\ info.mode = "read" /\ ~info.error
             /\ ReadLoop(info, [retries |-> 0, left |-> len, copied |-> 0, len |-> len])
             /\ UNCHANGED <<peer, put, server, rx, toClient>>

(* The block that is waited for.  (block is promoted to int: after the     *)
(* last number none is the next.)                                          *)
IsNext_Any(m) == m.op = "data"
IsNext(m) == m.op = "data" /\ m.num = info.blknum + 1

ReadAnswered == /\ pc = "reading"
                /\ \E m \in toClient :
                    /\ Recv(m)
                    /\ \/ /\ IsNext(m)
                          /\ ReadLoop([info EXCEPT !.blknum = m.num, !.blk = m.data, !.off = 0,
                                                   !.lastblock = IsLast(m.data)], call)
                       \/ ~IsNext(m) /\ Again(Ack(info)) /\ UNCHANGED got
                /\ UNCHANGED <<peer, put, server, toClient>>

ReadTimesOut == /\ pc = "reading"
                /\ TimedOut
                /\ Again(Ack(info))
                /\ UNCHANGED <<peer, got, put, server, toClient>>

-----------------------------------------------------------------------------
(* tftp_fileop_write: one turn of its loop; a block that is full is sent,  *)
(* and the loop goes on when it has been acknowledged (_tftp_writemore).   *)
WriteLoop(i, c) ==
    LET n == Min({c.left, BlockSize - Len(i.blk)})
        bytes == [k \in 1..n |-> Len(put) + k]
        j == [i EXCEPT !.blk = @ \o bytes]
        d == [c EXCEPT !.retries = 0, !.left = @ - n, !.copied = @ + n]
        full == c.left > 0 /\ Len(j.blk) = BlockSize
    IN  /\ put' = put \o bytes
        /\ info' = j
        /\ \/ full /\ Send(Data(j), "writing", d)
           \/ ~full /\ Return(d) /\ UNCHANGED toServer

Write(len) == /\ pc = "idle" /\ info.mode = "write" /\ ~info.error
              /\ Len(put) + len <= MaxWritten
              /\ WriteLoop(info, [retries |-> 0, left |-> len, copied |-> 0, len |-> len])
              /\ UNCHANGED <<peer, got, server, rx, toClient>>

(* The block sent has been acknowledged; a short one was the last.         *)
Acked_AnyNumber(m) == m.op = "ack"
Acked(m) == m.op = "ack" /\ m.num = info.blknum
Sent == [info EXCEPT !.blknum = (@ + 1) % NumBlocks, !.lastblock = Len(info.blk) # BlockSize]

Emptied_NotReset(i) == i
Emptied(i) == [i EXCEPT !.blk = <<>>]

WriteAnswered ==
    /\ pc \in {"writing", "closing"}
    /\ \E m \in toClient :
        /\ Recv(m)
        /\ \/ /\ m.op = "error"
              /\ info' = [info EXCEPT !.error = TRUE, !.lastblock = TRUE]
              /\ Return(call)
              /\ UNCHANGED <<put, toServer>>
           \/ Acked(m) /\ pc = "writing" /\ WriteLoop(Emptied(Sent), call)
           \/ Acked(m) /\ pc = "closing" /\ info' = Sent /\ Return(call) /\ UNCHANGED <<put, toServer>>
           \/ m.op # "error" /\ ~Acked(m) /\ Again(Data(info)) /\ UNCHANGED put
    /\ UNCHANGED <<peer, got, server, toClient>>

WriteTimesOut == /\ pc \in {"writing", "closing"}
                 /\ TimedOut
                 /\ Again(Data(info))
                 /\ UNCHANGED <<peer, got, put, server, toClient>>

-----------------------------------------------------------------------------
(* _tftp_close.  A file that is read ends with an ack of its last block or *)
(* a cancellation, one that is written with a block that is not full; what *)
(* _tftp_writemore returns is not looked at.                               *)
Flush == \/ toServer' = toServer \cup {Data(info)} /\ pc' = "closing" /\ UNCHANGED <<call, res>>
         \/ PoolMayFail /\ pc' = "done" /\ UNCHANGED <<call, res, toServer>>

Close == /\ pc = "idle"
         /\ \/ /\ info.mode = "read"
               /\ \/ toServer' = toServer \cup {IF info.lastblock THEN Ack(info) ELSE Cancel}
                  \/ PoolMayFail /\ UNCHANGED toServer
               /\ pc' = "done"
               /\ UNCHANGED <<call, res>>
            \/ /\ info.mode = "write" /\ ~info.lastblock /\ ~info.error
               /\ Flush
            \/ /\ info.mode = "write" /\ (info.lastblock \/ info.error)
               /\ pc' = "done"
               /\ UNCHANGED <<call, res, toServer>>
         /\ UNCHANGED <<info, peer, got, put, server, rx, toClient>>

-----------------------------------------------------------------------------
(* _udp_rx_callback: a datagram for the open port is queued if there is    *)
(* room.  Once the port is closed nothing is.                              *)
Deliver(m) == /\ pc \notin {"closed", "done"}
              /\ Len(rx) < MaxQueue
              /\ rx' = Append(rx, m)
              /\ UNCHANGED <<client, server, toServer, toClient>>

-----------------------------------------------------------------------------
(* The server.                                                             *)

Answer(s, op, num, data) ==
    toClient' = toClient \cup {[op |-> op, from |-> s, num |-> num % NumBlocks, data |-> data]}

(* A request starts a session.                                             *)
SrvRequest(s) ==
    /\ session[s].mode = "none"
    /\ \E m \in toServer :
        /\ m.to = Port69
        /\ \/ /\ m.op = "read"
              /\ session' = [session EXCEPT ![s].mode = "read", ![s].next = 1]
              /\ Answer(s, "data", 1, Block(1))
           \/ /\ m.op = "write"
              /\ session' = [session EXCEPT ![s].mode = "write", ![s].next = 1]
              /\ Answer(s, "ack", 0, <<>>)
    /\ UNCHANGED <<client, file, rx, toServer>>

(* The ack of the block sent last brings the next one.                     *)
SrvAck(s) ==
    LET k == session[s].next
    IN  /\ session[s].mode = "read"
        /\ [op |-> "ack", to |-> s, num |-> k % NumBlocks, data |-> <<>>] \in toServer
        /\ Len(Block(k)) = BlockSize
        /\ session' = [session EXCEPT ![s].next = k + 1]
        /\ Answer(s, "data", k + 1, Block(k + 1))
        /\ UNCHANGED <<client, file, rx, toServer>>

(* The block expected is stored and acknowledged.                          *)
SrvData(s) ==
    /\ session[s].mode = "write" /\ ~session[s].closed
    /\ \E m \in toServer :
        /\ m.op = "data" /\ m.to = s /\ m.num = session[s].next % NumBlocks
        /\ session' = [session EXCEPT ![s].data = @ \o m.data, ![s].next = @ + 1,
                                      ![s].closed = Len(m.data) < BlockSize]
        /\ Answer(s, "ack", session[s].next, <<>>)
    /\ UNCHANGED <<client, file, rx, toServer>>

(* The server gives up, for a reason of its own.                           *)
SrvError(s) == /\ ServerMayFail
               /\ session[s].mode # "none"
               /\ Answer(s, "error", 0, <<>>)
               /\ UNCHANGED <<client, server, rx, toServer>>

-----------------------------------------------------------------------------
Client == \/ OpenTimesOut \/ OpenAnswered
          \/ ReadAnswered \/ ReadTimesOut
          \/ WriteAnswered \/ WriteTimesOut

Next == \/ \E mode \in {"read", "write"} : Open(mode)
        \/ \E len \in Lengths : Read(len)
        \/ \E len \in Lengths : Write(len)
        \/ Close
        \/ Client
        \/ \E m \in toClient : Deliver(m)
        \/ \E s \in Session : SrvRequest(s) \/ SrvAck(s) \/ SrvData(s) \/ SrvError(s)

Spec == Init /\ [][Next]_vars

(* A call polls until an answer or the timeout comes; nothing is assumed   *)
(* of the server, the network or the application.                          *)
FairSpec == Spec /\ WF_vars(Client)

-----------------------------------------------------------------------------
(* What is read is the file from its beginning, without gaps, repetitions  *)
(* or blocks of another place, whatever the network repeats or delays and  *)
(* however many sessions send it.                                          *)
ReadsTheFile == IsPrefix(got, file)

(* "number of bytes read, 0 for EOF, <0 if an error occured"               *)
(* (net_tftp.c:629): where a read of at least one byte returned none, the  *)
(* whole file has been read.                                               *)
EofIsTheEnd == info.mode = "read" /\ res.len > 0 /\ res.n = 0 => got = file

(* A read of at least one byte that returned none has met the end of the   *)
(* file, as long as udp_alloc has not failed.                              *)
EofUnlessStarved == ~res.nobuf => EofIsTheEnd

(* What the server has stored is what was written, from its beginning.     *)
WritesTheFile == peer # Port69 => IsPrefix(session[peer].data, put)

(* A file whose last block has been acknowledged is stored, all of it.     *)
FlushedIsStored ==
    info.mode = "write" /\ info.lastblock /\ ~info.error =>
        session[peer].closed /\ session[peer].data = put

(* Every call of the file system interface returns, whatever arrives and   *)
(* whatever does not.                                                      *)
CallsReturn == (pc \in Waiting) ~> (pc \notin Waiting)
=============================================================================
