------------------------------- MODULE TcpInput -------------------------------
(***************************************************************************)
(* How net_tcp.c reacts to a segment (_tcp_rx_callback and what it calls)  *)
(* and to the passing of time (_tcp_poll), for one control block.          *)
(***************************************************************************)
EXTENDS TcpTcb

-----------------------------------------------------------------------------
(* The tests on numbers that the reactions below rest on.                  *)

(* The ack lies in the range of the data held:                             *)
(* sendunack <= ack <= sendunack + unacklen.                               *)
AckInRange(t, seg) == /\ Diff(t.sendunack, seg.ack) <= 0
                      /\ Diff(seg.ack, Plus(t.sendunack, Unacked(t))) <= 0

(* seqnum <= rcvnext < seqnum + datalen                                    *)
InSequence(t, seg) == /\ Diff(seg.seq, t.rcvnext) <= 0
                      /\ Diff(t.rcvnext, Plus(seg.seq, Len(seg.data))) < 0

(* An ack of exactly the SYN or FIN that was sent from sendunack.          *)
AcksOneMore(t, seg) == seg.ack = Plus(t.sendunack, 1)

(* The bytes of a segment in sequence that were not received before, as    *)
(* many as the receive buffer has room for.                                *)
NewData_FromFirstByte(t, seg) == SubSeq(seg.data, 1, Least(Len(seg.data), Window(t)))
NewData(t, seg) ==
    LET old == Diff(t.rcvnext, seg.seq)
    IN  SubSeq(seg.data, old + 1, Least(Len(seg.data), old + Window(t)))

(* _tcp_procack                                                            *)
ProcackEstablished_DropsAll(h, seg) ==
    [h EXCEPT !.t.txbuf = <<>>, !.t.txflags = {"ACK"}, !.t.sendunack = seg.ack, !.t.retx = FALSE]
ProcackEstablished(h, seg) ==
    LET ackamt == Diff(seg.ack, h.t.sendunack)
        acked == IF ackamt = 0 THEN h
                 ELSE [h EXCEPT !.t.txbuf = SubSeq(@, ackamt + 1, Len(@)),
                                !.t.txflags = {"ACK"},
                                !.t.sendunack = seg.ack]
    IN  IF acked.t.txbuf = <<>> THEN [acked EXCEPT !.t.retx = FALSE]
                                ELSE [acked EXCEPT !.t.flags = @ \cup {"OUTPUT"}]

EnterTimeWait_NoTimer(h) == Preparectlmsg(Canceltimers(Setstate(h, "TIME_WAIT")), {"ACK"})
EnterTimeWait(h) ==
    [Preparectlmsg(Canceltimers(Setstate(h, "TIME_WAIT")), {"ACK"}) EXCEPT !.t.msl = TRUE]

Procack(h, seg) ==
    CASE h.t.state = "ESTABLISHED" /\ AckInRange(h.t, seg) -> ProcackEstablished(h, seg)
      [] h.t.state = "FINWAIT_1" /\ AcksOneMore(h.t, seg) ->
           LET acked == [h EXCEPT !.t.sendunack = seg.ack]
           IN  IF "FIN" \in seg.flags THEN EnterTimeWait(acked)
                                      ELSE Setstate(acked, "FINWAIT_2")
      [] OTHER -> h

(* The first half of _tcp_procdata: a second segment received while an ack *)
(* is still owed makes the ack due at once.                                *)
TakeData_CountsOldBytes(h, seg) ==
    [h EXCEPT !.t.rxbuf = @ \o NewData(h.t, seg), !.t.rcvnext = Plus(@, Len(seg.data)),
              !.t.flags = @ \cup {"DLYACK"}]
TakeData(h, seg) ==
    LET taken == [h EXCEPT !.t.rxbuf = @ \o NewData(h.t, seg),
                           !.t.rcvnext = Plus(@, Len(NewData(h.t, seg)))]
    IN  IF "DLYACK" \in h.t.flags THEN Preparectlmsg(taken, {"ACK"})
                                  ELSE [taken EXCEPT !.t.flags = @ \cup {"DLYACK"}]

(* The second half: a FIN, whatever its own sequence number is.            *)
TakeFin(h, seg) ==
    LET fin == [h EXCEPT !.t.rcvnext = Plus(@, 1)]
    IN  CASE h.t.state = "ESTABLISHED" ->
               Sendctlmsg(Setstate([fin EXCEPT !.t.flags = @ \ {"DLYACK"}], "CLOSE_WAIT"),
                          {"ACK"}, "leave")
          [] h.t.state = "FINWAIT_1" /\ "ACK" \notin seg.flags ->
               Preparectlmsg(Setstate(fin, "CLOSING"), {"ACK"})
          [] \/ h.t.state = "FINWAIT_1" /\ "ACK" \in seg.flags
             \/ h.t.state = "FINWAIT_2" -> EnterTimeWait(fin)
          [] OTHER -> fin

(* _tcp_procdata: data out of sequence makes it drop the whole segment.    *)
Procdata(h, seg) ==
    LET taken == IF seg.data = <<>> THEN h ELSE TakeData(h, seg)
    IN  IF seg.data # <<>> /\ ~InSequence(h.t, seg) THEN h
        ELSE IF "FIN" \in seg.flags THEN TakeFin(taken, seg) ELSE taken

-----------------------------------------------------------------------------
(* _tcp_rx_callback, state by state.                                       *)
RxListen(h, seg) ==
    IF "SYN" \notin seg.flags THEN h
    ELSE Sendctlmsg([h EXCEPT !.t = [@ EXCEPT !.rcvnext = Plus(seg.seq, 1), !.peer = TRUE,
                                              !.keep = TRUE, !.state = "SYN_RECEIVED"]],
                    {"SYN", "ACK"}, "set")

RxSynSent(h, seg) ==
    CASE "SYN" \notin seg.flags -> h
      [] "SYN" \in seg.flags /\ "ACK" \in seg.flags /\ AcksOneMore(h.t, seg) ->
           Sendctlmsg([h EXCEPT !.t = [@ EXCEPT !.keep = TRUE, !.state = "ESTABLISHED",
                                                !.sendunack = seg.ack, !.sendnext = seg.ack,
                                                !.rcvnext = Plus(seg.seq, 1)]],
                      {"ACK"}, "clear")
      [] OTHER ->
           Sendctlmsg([h EXCEPT !.t = [@ EXCEPT !.rcvnext = Plus(@, 1),
                                                !.state = "SYN_RECEIVED"]],
                      {"SYN", "ACK"}, "set")

RxSynReceived(h, seg) ==
    LET answered == IF "SYN" \in seg.flags THEN Sendctlmsg(h, {"SYN", "ACK"}, "set") ELSE h
        acked == Sendctlmsg(answered, {"ACK"}, "clear")
    IN  IF "ACK" \in seg.flags /\ AcksOneMore(h.t, seg)
        THEN [acked EXCEPT !.t = [@ EXCEPT !.sendunack = seg.ack, !.sendnext = seg.ack,
                                           !.keep = TRUE, !.state = "ESTABLISHED"]]
        ELSE answered

RxData(h, seg) == Procdata(IF "ACK" \in seg.flags THEN Procack(h, seg) ELSE h, seg)

RxClosing(h, seg) ==
    IF AcksOneMore(h.t, seg)
    THEN [Canceltimers(Setstate(h, "TIME_WAIT")) EXCEPT !.t.msl = TRUE]
    ELSE h

RxLastAck_NotFreed(h, seg) == IF AcksOneMore(h.t, seg) THEN Closetcb(h) ELSE h
RxLastAck(h, seg) ==
    IF AcksOneMore(h.t, seg) THEN Freetcb(Closetcb(h))
                             ELSE Sendctlmsg(h, {"ACK", "FIN"}, "set")

RxTimeWait(h, seg) == Protosend([h EXCEPT !.t.txflags = {"ACK"}, !.t.msl = TRUE])

(* What is transmitted on the way out.                                     *)
Flush(h) ==
    LET sent == IF "OUTPUT" \in h.t.flags
                THEN [Output(h) EXCEPT !.t.flags = @ \ {"OUTPUT", "SENDMSG"}]
                ELSE h
    IN  IF "SENDMSG" \in sent.t.flags THEN Protosend(sent) ELSE sent

(* _tcp_rx_callback for a segment whose control block is h.t.              *)
RxCallback(h, seg) ==
    LET live == [h EXCEPT !.t.keep = @ \/ h.t.state \in RESETKEEPALIVE]
        told == [live EXCEPT !.t.sendwindow = seg.win]
    IN  IF "RST" \in seg.flags
        THEN IF h.t.state = "SYN_RECEIVED" THEN Setstate(live, "LISTEN") ELSE Closetcb(live)
        ELSE CASE h.t.state = "LISTEN" -> RxListen(told, seg)
               [] h.t.state = "SYN_SENT" -> RxSynSent(told, seg)
               [] h.t.state = "SYN_RECEIVED" -> RxSynReceived(told, seg)
               [] h.t.state \in {"ESTABLISHED", "FINWAIT_1", "FINWAIT_2"} ->
                    Flush(RxData(told, seg))
               [] h.t.state = "CLOSING" -> Flush(RxClosing(told, seg))
               [] h.t.state = "LAST_ACK" -> Flush(RxLastAck(told, seg))
               [] h.t.state = "TIME_WAIT" -> Flush(RxTimeWait(told, seg))
               [] OTHER -> Flush(told)

-----------------------------------------------------------------------------
(* _tcp_fasttimo: the ack a receipt of data left owing.                    *)
Fasttimo_FlagOnly(h) == [h EXCEPT !.t.flags = @ \ {"DLYACK"}]
Fasttimo(h) == IF "DLYACK" \in h.t.flags
               THEN Sendctlmsg([h EXCEPT !.t.flags = @ \ {"DLYACK"}], {"ACK"}, "leave")
               ELSE h

(* The retransmission timer has gone off: sendnext is wound back.          *)
RewindToUnacked_Forgotten(h) == [h EXCEPT !.t.retx = TRUE]
RewindToUnacked(h) == [h EXCEPT !.t.sendnext = h.t.sendunack, !.t.retx = TRUE]
RetxExpired(h) ==
    CASE h.t.state = "ESTABLISHED" -> Output(RewindToUnacked(h))
      [] h.t.state = "SYN_SENT" -> Protosend(RewindToUnacked(h))
      [] OTHER -> [h EXCEPT !.t.retx = FALSE]

KeepExpired(h) == LET cleared == [h EXCEPT !.t.keep = FALSE]
                  IN  IF h.t.state \in CONNINPROGRESS THEN Aborttcb(cleared) ELSE cleared

MslExpired(h) == LET cleared == [h EXCEPT !.t.msl = FALSE]
                 IN  IF h.t.state = "TIME_WAIT" THEN Freetcb(Closetcb(cleared)) ELSE cleared

(* _tcp_poll with the set of timers found expired.  A timer that the call  *)
(* itself has just set or cleared has not expired.                         *)
Timers == {"fast", "retx", "keep", "msl"}
IsSet(t, timer) == CASE timer = "fast" -> TRUE
                     [] timer = "retx" -> t.retx
                     [] timer = "keep" -> t.keep
                     [] timer = "msl" -> t.msl

Poll(h, expired) ==
    LET fast == IF "fast" \in expired THEN Fasttimo(h) ELSE h
        retx == IF "retx" \in expired THEN RetxExpired(fast) ELSE fast
        keep == IF "keep" \in expired THEN KeepExpired(retx) ELSE retx
    IN  IF "msl" \in expired /\ keep.t.msl THEN MslExpired(keep) ELSE keep
=============================================================================
