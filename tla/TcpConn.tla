------------------------------- MODULE TcpConn -------------------------------
(***************************************************************************)
(* Two hosts that run net_tcp.c, one socket each, and the network between  *)
(* them.  Every call of the socket interface, every arrival of a segment   *)
(* and every timer poll is one action, because the code runs them to       *)
(* completion on one thread; what interleaves is the two hosts, the        *)
(* network and time.                                                       *)
(*                                                                         *)
(* The network keeps the segments of each direction in order.  It may      *)
(* lose, duplicate or overtake a segment, and a host may find the pool of  *)
(* packet buffers empty: each such fault uses up one of MaxFaults, and so  *)
(* does a timer of a second or more that expires while a segment is still  *)
(* under way (only the 200 ms timer of delayed acks is quicker than that). *)
(* Bytes are numbered as the application sends them, so that what is       *)
(* delivered can be compared with what was sent.                           *)
(***************************************************************************)
EXTENDS TcpInput, SequencesExt

CONSTANTS A, B,        \* the two hosts
          Connecting,  \* the hosts that call tcp_connect; the others listen
          Closing,     \* the hosts that may call tcp_close
          Iss,         \* the initial sequence number of a connecting host
          Quota,       \* Quota[e]: bound on the bytes the application of e sends
          Faults,      \* the kinds of fault: a subset of FaultKinds
          MaxFaults,   \* bound on the number of faults
          Expiring     \* the timers that may expire

Host == {A, B}
FaultKinds == {"lose", "duplicate", "overtake", "noebuf", "early"}

ASSUME HostAssumption == A # B /\ Connecting \subseteq Host /\ Closing \subseteq Host
ASSUME BoundsAssumption == /\ Iss \in 0 .. SeqSize - 1 /\ Quota \in [Host -> Nat]
                           /\ Faults \subseteq FaultKinds /\ Expiring \subseteq Timers
                           /\ MaxFaults \in Nat

VARIABLES tcb,       \* tcb[e]: the control block of host e
          net,       \* net[e]: the segments on their way to host e
          sent,      \* sent[e]: how many bytes _tcp_send has accepted at e
          read,      \* read[e]: the bytes _tcp_recv has returned at e
          faults     \* how many faults there have been

vars == <<tcb, net, sent, read, faults>>

Peer(e) == IF e = A THEN B ELSE A

(* Each host has made its socket; two that are to connect to each other    *)
(* have had to agree on the ports and bind them (_tcp_bind).                *)
Init == /\ tcb = [e \in Host |-> [NewTcb EXCEPT !.bound = Connecting = Host]]
        /\ net = [e \in Host |-> <<>>]
        /\ sent = [e \in Host |-> 0]
        /\ read = [e \in Host |-> <<>>]
        /\ faults = 0

-----------------------------------------------------------------------------
Fault(kind) == /\ kind \in Faults
               /\ faults < MaxFaults
               /\ faults' = faults + 1
(* The pool of packet buffers, as a call of host e finds it.               *)
Pool(ebuf) == IF ebuf THEN UNCHANGED faults ELSE Fault("noebuf")
Handler(e, ebuf) == [t |-> tcb[e], out |-> <<>>, ebuf |-> ebuf]

(* Host e ends a call with the control block and the output of h, after    *)
(* rest has been left in its incoming direction.                           *)
Ends(e, h, rest) ==
    /\ tcb' = [tcb EXCEPT ![e] = h.t]
    /\ net' = [net EXCEPT ![e] = rest, ![Peer(e)] = @ \o h.out]

Fresh(e) == tcb[e].state = "CLOSED" /\ tcb[e].sock /\ ~tcb[e].peer

UserConnect(e) ==
    /\ e \in Connecting /\ Fresh(e)
    /\ Ends(e, Connect(Handler(e, TRUE), Iss), net[e])
    /\ UNCHANGED <<sent, read, faults>>

UserListen(e) ==
    /\ e \notin Connecting /\ Fresh(e)
    /\ Ends(e, Listen(Handler(e, TRUE)), net[e])
    /\ UNCHANGED <<sent, read, faults>>

UserSend(e, n, ebuf) ==
    LET data == [i \in 1..n |-> sent[e] + i] IN
    /\ tcb[e].sock /\ tcb[e].state \in SEND_OK
    /\ sent' = [sent EXCEPT ![e] = @ + Len(Accepted(tcb[e], data))]
    /\ Ends(e, Send(Handler(e, ebuf), data), net[e])
    /\ Pool(ebuf)
    /\ UNCHANGED read

UserRecv(e, want) ==
    /\ tcb[e].sock /\ tcb[e].state \in RECV_OK
    /\ read' = [read EXCEPT ![e] = @ \o SubSeq(tcb[e].rxbuf, 1, want)]
    /\ Ends(e, Recv(Handler(e, TRUE), want), net[e])
    /\ UNCHANGED <<sent, faults>>

(* Every application closes when it sees the end of the peer's stream;      *)
(* those in Closing may do so at any time.                                  *)
UserClose(e, ebuf) ==
    /\ tcb[e].sock /\ ~Fresh(e)
    /\ e \in Closing \/ tcb[e].state = "CLOSE_WAIT"
    /\ Ends(e, Close(Handler(e, ebuf)), net[e])
    /\ Pool(ebuf)
    /\ UNCHANGED <<sent, read>>

(* _tcp_find_tcb: a segment finds the control block that has its sender as *)
(* peer, or one without peer that has its port, whatever its state.        *)
Found(e) == /\ tcb[e].state # "FREE"
            /\ tcb[e].peer \/ tcb[e].bound

Receive(e, seg, rest, ebuf) ==
    Ends(e,
         IF Found(e) THEN RxCallback(Handler(e, ebuf), seg)
         ELSE [Handler(e, ebuf) EXCEPT !.out = IF ebuf THEN <<Reset(seg)>> ELSE <<>>],
         rest)

Deliver(e) ==
    /\ net[e] # <<>>
    /\ Receive(e, Head(net[e]), Tail(net[e]), TRUE)
    /\ UNCHANGED <<sent, read, faults>>

DeliverWithoutPool(e) ==
    /\ net[e] # <<>>
    /\ Fault("noebuf")
    /\ Receive(e, Head(net[e]), Tail(net[e]), FALSE)
    /\ UNCHANGED <<sent, read>>

DeliverDuplicate(e) ==
    /\ net[e] # <<>>
    /\ Fault("duplicate")
    /\ Receive(e, Head(net[e]), net[e], TRUE)
    /\ UNCHANGED <<sent, read>>

DeliverOvertaking(e) ==
    /\ Len(net[e]) > 1
    /\ Fault("overtake")
    /\ \E i \in 2..Len(net[e]) : Receive(e, net[e][i], RemoveAt(net[e], i), TRUE)
    /\ UNCHANGED <<sent, read>>

Lose(e) ==
    /\ net[e] # <<>>
    /\ Fault("lose")
    /\ net' = [net EXCEPT ![e] = Tail(@)]
    /\ UNCHANGED <<tcb, sent, read>>

Quiet == \A e \in Host : net[e] = <<>>

TimerPoll(e, expired) ==
    /\ expired # {}
    /\ tcb[e].state # "FREE"
    /\ \A timer \in expired : IsSet(tcb[e], timer)
    /\ \E ebuf \in BOOLEAN :
          /\ Ends(e, Poll(Handler(e, ebuf), expired), net[e])
          /\ IF expired = {"fast"} \/ Quiet THEN Pool(ebuf) ELSE ebuf /\ Fault("early")
    /\ UNCHANGED <<sent, read>>

HostStep(e) ==
    \/ UserConnect(e)
    \/ UserListen(e)
    \/ \E n \in 1 .. Quota[e] - sent[e], ebuf \in BOOLEAN : UserSend(e, n, ebuf)
    \/ \E want \in 1 .. Len(tcb[e].rxbuf) : UserRecv(e, want)
    \/ \E ebuf \in BOOLEAN : UserClose(e, ebuf)
    \/ Deliver(e)
    \/ DeliverWithoutPool(e)
    \/ DeliverDuplicate(e)
    \/ DeliverOvertaking(e)
    \/ Lose(e)
    \/ \E expired \in SUBSET Expiring : TimerPoll(e, expired)

Next == \E e \in Host : HostStep(e)

Spec == Init /\ [][Next]_vars

(* Fairness: the network delivers what it does not lose; the poll loop of  *)
(* CFE runs whenever a host is idle, so a timer that is due again and      *)
(* again expires; and the applications read what has arrived.              *)
FairHost(e) ==
    /\ WF_vars(Deliver(e))
    /\ \A timer \in Expiring : SF_vars(TimerPoll(e, {timer}))
    /\ WF_vars(tcb[e].rxbuf # <<>> /\ UserRecv(e, Len(tcb[e].rxbuf)))
FairSpec == Spec /\ FairHost(A) /\ FairHost(B)

(* The same, with applications that do close when they see the end.        *)
ClosingSpec == /\ FairSpec
               /\ \A e \in {A, B} : WF_vars(tcb[e].state = "CLOSE_WAIT" /\ UserClose(e, TRUE))

-----------------------------------------------------------------------------
(* Properties.                                                             *)

Received(e) == read[e] \o tcb[e].rxbuf
Dropped(e) == sent[e] - Unacked(tcb[e])
Alive(e) == tcb[e].state \notin {"FREE", "CLOSED"}

(* What an application has been given, or will be, is the front of what    *)
(* the application of the peer has sent: no byte is lost, repeated,        *)
(* reordered or made up on the way, whatever the network does and however  *)
(* often _tcp_output starts again from the first unacknowledged byte.      *)
StreamIntact ==
    \A e \in Host : /\ Len(Received(e)) <= sent[Peer(e)]
                    /\ \A i \in 1..Len(Received(e)) : Received(e)[i] = i

(* To the two applications the connection is a stream of bytes in each     *)
(* direction: whatever _tcp_rx_callback, _tcp_output and the timers do, a  *)
(* call of _tcp_recv takes the next bytes that the peer's _tcp_send has    *)
(* accepted, and everything else is invisible to both.                     *)
ToA == INSTANCE ByteStream WITH given <- sent[B], taken <- read[A], Limit <- Quota[B]
ToB == INSTANCE ByteStream WITH given <- sent[A], taken <- read[B], Limit <- Quota[A]
OffersStreams == ToA!Spec /\ ToB!Spec

(* A byte leaves the transmit buffer of an established connection          *)
(* (_tcp_procack, tmb_adjust) only when the peer has it, so that it can    *)
(* always still be retransmitted.                                          *)
AckedIsReceived ==
    \A e \in Host : tcb[e].state = "ESTABLISHED" /\ Alive(Peer(e))
                        => Dropped(e) <= Len(Received(Peer(e)))

(* Two established ends agree on the numbering: the byte the receiver      *)
(* expects is the one the sender would say comes next after those it knows *)
(* or may learn to have arrived.                                           *)
InStep ==
    \A e \in Host : tcb[e].state = "ESTABLISHED" /\ tcb[Peer(e)].state = "ESTABLISHED"
                        => Diff(tcb[Peer(e)].rcvnext, tcb[e].sendunack)
                              = Len(Received(Peer(e))) - Dropped(e)

(* While something sent is unacknowledged the retransmission timer is set: *)
(* no path through _tcp_procack, _tcp_sendctlmsg or _tcp_poll leaves data  *)
(* outstanding with nothing to send it again.                              *)
UnackedIsTimed ==
    \A e \in Host : /\ tcb[e].state = "ESTABLISHED"
                    /\ Diff(tcb[e].sendnext, tcb[e].sendunack) > 0
                    => tcb[e].retx

(* What has been received has been acknowledged, or the delayed-ack flag   *)
(* says that it must be; _tcp_rx_callback and _tcp_fasttimo drop the flag  *)
(* only together with an ack.                                              *)
AckIsOwed ==
    \A e \in Host : tcb[e].state \in RECV_OK /\ tcb[e].rcvack # tcb[e].rcvnext
                        => "DLYACK" \in tcb[e].flags

(* A segment without RST moves a control block along an arrow of the state *)
(* diagram or not at all: whatever its numbers and flags, no path through  *)
(* _tcp_rx_callback skips a state.  TcpSockets rests on it.                *)
FollowsDiagram ==
    [][\A e \in Host :
          Deliver(e) /\ Found(e) /\ "RST" \notin Head(net[e]).flags
              => \/ tcb'[e].state = tcb[e].state
                 \/ <<tcb[e].state, tcb'[e].state>> \in SegmentArrows]_vars

(* On a connection that stays up, the reader catches up with the writer    *)
(* again and again, although segments are lost.                            *)
EverythingArrives ==
    \A e \in {A, B} :
        (<>[](tcb[A].state = "ESTABLISHED" /\ tcb[B].state = "ESTABLISHED"))
            => []<>(Len(read[Peer(e)]) = sent[e])

(* A close that nobody disturbs runs to its end: both control blocks are   *)
(* given back.                                                             *)
CloseCompletes ==
    [](faults = 0) => (tcb[A].state = "FINWAIT_1") ~> (\A e \in {A, B} : tcb[e].state = "FREE")
=============================================================================
