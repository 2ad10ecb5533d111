-------------------------------- MODULE TcpTcb --------------------------------
(***************************************************************************)
(* The TCP control block of net_tcp.c and the functions that work on one.  *)
(*                                                                         *)
(* A C function that changes a TCB and may transmit is an operator from a  *)
(* handler record h to a handler record:                                   *)
(*    h.t      the control block                                           *)
(*    h.out    the segments transmitted so far, in order                   *)
(*    h.ebuf   whether _ip_alloc finds a free packet buffer in this call   *)
(* so that calls compose as they do in the code.  The sequence numbers are *)
(* 32-bit in the code; here they count modulo SeqSize.  A timer is TRUE     *)
(* while it is set.  A segment's header fields are those of the packet.    *)
(* Both buffers are the byte queues that TcpBuf implements.  Left out:     *)
(* addresses and ports (TcpSockets has them; here peer and bound say       *)
(* whether tcb_peerport and the agreed tcb_lclport are set), the checksum, *)
(* the retry and duplicate-ack counters (the first only stretches a        *)
(* timeout, the second is never read), and the persist timer, which        *)
(* nothing sets.                                                           *)
(***************************************************************************)
EXTENDS TcpStates, Integers, Sequences

CONSTANTS SeqSize,    \* the modulus of sequence numbers (2^32)
          BufSize,   \* TCP_BUF_SIZE, of each buffer
          Mtu,       \* tcb_mtu, the most data in a segment (1400)
          Cwnd,      \* the congestion window _tcp_output allows (5*1400)
          Junk       \* a byte read from outside the live part of a buffer

ASSUME SeqSizeAssumption == SeqSize \in Nat /\ SeqSize > 2 * (BufSize + 2)
ASSUME SizesAssumption == BufSize \in Nat \ {0} /\ Mtu \in Nat \ {0} /\ Cwnd \in Nat

HeaderFlags == {"SYN", "ACK", "FIN", "RST"}
TcbFlags == {"OUTPUT", "SENDMSG", "DLYACK"}

Least(a, b) == IF a < b THEN a ELSE b

-----------------------------------------------------------------------------
(* TCPSEQ_DIFF: the signed distance from b to a around the circle.         *)
Diff(a, b) == LET d == (a - b) % SeqSize IN IF 2 * d < SeqSize THEN d ELSE d - SeqSize
Plus(a, n) == (a + n) % SeqSize

(* tmb_curlen and tmb_remlen of the two buffers.                           *)
Unacked(t) == Len(t.txbuf)
Window(t) == BufSize - Len(t.rxbuf)

(* _tcp_socket: a zeroed control block, entered into the socket table.     *)
NewTcb == [state |-> "CLOSED", sock |-> TRUE, peer |-> FALSE, bound |-> FALSE,
           sendunack |-> 0, sendnext |-> 0, sendwindow |-> 0,
           rcvnext |-> 0, rcvack |-> 0, txflags |-> {}, flags |-> {},
           txbuf |-> <<>>, rxbuf |-> <<>>,
           retx |-> FALSE, keep |-> FALSE, msl |-> FALSE]

(* _tcp_freetcb: off the list and out of the socket table.                 *)
Freetcb(h) == [h EXCEPT !.t = [NewTcb EXCEPT !.state = "FREE", !.sock = FALSE]]

Setstate(h, s) == [h EXCEPT !.t.state = s]
Canceltimers(h) == [h EXCEPT !.t.retx = FALSE, !.t.keep = FALSE, !.t.msl = FALSE]
Preparectlmsg(h, flags) == [h EXCEPT !.t.txflags = flags,
                                     !.t.flags = @ \cup {"SENDMSG"}]

(* _tcp_closetcb: CLOSED, nothing pending, both buffers emptied.           *)
Closetcb(h) == Canceltimers([h EXCEPT !.t.state = "CLOSED", !.t.flags = {},
                                      !.t.txbuf = <<>>, !.t.rxbuf = <<>>])

-----------------------------------------------------------------------------
Segment(t, flags, seqnum, data) ==
    [flags |-> flags, seq |-> seqnum, ack |-> t.rcvnext, win |-> Window(t), data |-> data]

(* _tcp_protosend: a control segment with the flags left in txflags.  A    *)
(* SYN or a FIN consumes a sequence number.  No buffer: nothing happens.   *)
Protosend(h) ==
    IF ~h.ebuf THEN h ELSE
    [h EXCEPT !.out = Append(@, Segment(h.t, h.t.txflags, h.t.sendnext, <<>>)),
              !.t.flags = @ \ {"SENDMSG", "DLYACK"},
              !.t.rcvack = h.t.rcvnext,
              !.t.sendnext = IF h.t.txflags \cap {"SYN", "FIN"} = {} THEN @
                                                                     ELSE Plus(@, 1)]

(* _tcp_sendctlmsg: timer is "set", "clear" or, for -1, "leave".           *)
Sendctlmsg_StopsTimer(h, flags, timer) ==
    Protosend([h EXCEPT !.t.txflags = flags, !.t.retx = timer = "set"])
Sendctlmsg(h, flags, timer) ==
    Protosend([h EXCEPT !.t.txflags = flags,
                        !.t.retx = IF timer = "leave" THEN @ ELSE timer = "set"])

(* _tcp_sendreset: the answer to a segment that has no control block.      *)
Reset(seg) == [flags |-> {"RST", "ACK"}, seq |-> 0, ack |-> Plus(seg.seq, 1),
               win |-> 0, data |-> <<>>]

(* _tcp_output: the transmit buffer from sendnext on, cut into segments of *)
(* Mtu bytes, as long as sendnext is short of what the buffer, the peer's  *)
(* window and the congestion window allow.  Offsets are from sendunack,    *)
(* where the buffer starts; sendnext may be behind it, and then what the   *)
(* copy finds before the buffer's first byte is Junk.                      *)
Output(h) ==
    LET t == h.t
        first == Diff(t.sendnext, t.sendunack)
        allowed == Least(Unacked(t), Least(t.sendwindow, Cwnd))
        count == IF first < allowed THEN (allowed - first + Mtu - 1) \div Mtu ELSE 0
        At(k) == first + (k - 1) * Mtu
        Piece(k) == [i \in 1 .. Least(Mtu, Unacked(t) - At(k)) |->
                        IF At(k) + i < 1 THEN Junk ELSE t.txbuf[At(k) + i]]
    IN  IF count = 0 \/ ~h.ebuf THEN h ELSE
        [h EXCEPT !.out = @ \o [k \in 1..count |->
                                  Segment(t, {"ACK"}, Plus(t.sendunack, At(k)), Piece(k))],
                  !.t.sendnext = Plus(t.sendunack, Least(Unacked(t), At(count + 1))),
                  !.t.rcvack = t.rcvnext,
                  !.t.retx = TRUE,
                  !.t.flags = @ \ {"DLYACK"}]

(* _tcp_aborttcb                                                           *)
Aborttcb(h) ==
    Closetcb(IF h.t.state \in ABORTSTATES
             THEN Sendctlmsg(Canceltimers(h), {"ACK", "RST"}, "clear")
             ELSE h)

-----------------------------------------------------------------------------
(* The user's calls on a socket.  Each returns early unless the socket     *)
(* number leads to a control block; the caller of these checks t.sock.     *)

(* _tcp_connect, with the initial sequence number the TCP has reached.     *)
Connect(h, iss) ==
    Sendctlmsg([h EXCEPT !.t = [@ EXCEPT !.peer = TRUE, !.rcvnext = 0, !.rcvack = 0,
                                         !.sendnext = iss, !.sendunack = iss,
                                         !.sendwindow = 0,
                                         !.txbuf = <<>>, !.rxbuf = <<>>,
                                         !.keep = TRUE, !.state = "SYN_SENT"]],
               {"SYN"}, "set")

(* _tcp_listen                                                             *)
Listen(h) ==
    Canceltimers([h EXCEPT !.t = [@ EXCEPT !.state = "LISTEN", !.bound = TRUE,
                                           !.sendnext = 0, !.sendunack = 0,
                                           !.sendwindow = 0,
                                           !.rcvnext = 0, !.rcvack = 0,
                                           !.txbuf = <<>>, !.rxbuf = <<>>,
                                           !.txflags = {}]])

(* _tcp_send takes what there is room for, and transmits at once only when *)
(* nothing was waiting before (Nagle; no caller sets TCPFLG_NODELAY).      *)
Accepted(t, data) == SubSeq(data, 1, Least(BufSize - Unacked(t), Len(data)))
Send(h, data) ==
    LET queued == [h EXCEPT !.t.txbuf = @ \o Accepted(h.t, data)]
    IN  IF h.t.txbuf = <<>> THEN Output(queued) ELSE queued

(* _tcp_recv                                                               *)
Recv(h, want) == [h EXCEPT !.t.rxbuf = SubSeq(@, Least(Len(@), want) + 1, Len(@))]

(* _tcp_close flushes, gives up the socket number and then does what the   *)
(* state asks for.                                                         *)
Close(h) ==
    LET flushed == Output(h)
        left == [flushed EXCEPT !.t.sock = FALSE]
    IN  CASE h.t.state \in {"SYN_RECEIVED", "ESTABLISHED"} ->
               Sendctlmsg(Setstate(left, "FINWAIT_1"), {"ACK", "FIN"}, "set")
          [] h.t.state = "CLOSE_WAIT" ->
               Sendctlmsg(Setstate(left, "LAST_ACK"), {"ACK", "FIN"}, "set")
          [] h.t.state \in {"CLOSED", "LISTEN", "SYN_SENT"} -> Freetcb(Closetcb(left))
          [] OTHER -> left
=============================================================================
