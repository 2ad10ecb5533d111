----------------------------- MODULE TcpConnInv -----------------------------
(***************************************************************************)
(* The inductive invariant of TcpConn, for one host that connects to       *)
(* another: what is true of the two control blocks and of the segments     *)
(* between them whatever has been lost, repeated, overtaken or timed out.  *)
(* TcpConnProofs proves that every step keeps it, and that the properties  *)
(* of TcpConn follow.                                                      *)
(*                                                                         *)
(* A part of it speaks of one host, by the names used throughout: c is the *)
(* role of the host and t its control block, s the number of bytes its     *)
(* application has sent and g of those it has received, I is the set of    *)
(* the segments on their way to it; u, v, k and J are t, s, g and I of the *)
(* peer.                                                                   *)
(***************************************************************************)
EXTENDS TcpConn, TcpTypes

-----------------------------------------------------------------------------
(* The numbers and the states of a host.                                   *)

Roles == {"caller", "listener"}
Other(c) == IF c = "caller" THEN "listener" ELSE "caller"
OneCaller == \E a \in Host : Connecting = {a}
Role(e) == IF e \in Connecting THEN "caller" ELSE "listener"

\* Where the numbers of a host's bytes begin, and how far behind that a number is.
Base(c) == IF c = "caller" THEN Plus(Iss, 1) ELSE 1
Off(c, n) == (n - Base(c)) % SeqSize

Behind(t) == Diff(t.sendnext, t.sendunack) < 0
IsFresh(t) == t.state = "CLOSED" /\ t.sock /\ ~t.peer
IsYoung(t) == IsFresh(t) \/ t.state \in CONNINPROGRESS
IsTalking(t) == IsYoung(t) \/ t.state = "ESTABLISHED"
IsOpen(t) == t.state \in SEND_OK
IsTaking(t) == t.state \in {"ESTABLISHED", "FINWAIT_1", "FINWAIT_2"}
IsAlive(t) == t.state \notin {"FREE", "CLOSED"}

\* The control block may still send its rcvnext as an ack.
MayAck(t) == /\ t.state \notin {"LISTEN", "SYN_SENT", "FREE"}
             /\ t.state = "CLOSED" => t.sock /\ t.peer /\ Behind(t)
IsAck(x) == "ACK" \in x.flags /\ "RST" \notin x.flags

-----------------------------------------------------------------------------
(* A control block on its own.                                             *)

Typed(t, s, g, I) == /\ t \in Tcbs /\ s \in Nat /\ 2 * s < SeqSize /\ g \in Nat
                     /\ I \subseteq Segments

\* The fields that fit the state.
Resting(t) ==
    /\ t.state \in CLOSINGSTATES \cup {"TIME_WAIT", "FREE"} => ~t.sock
    /\ t.state \notin {"CLOSED", "LISTEN", "FREE"} => t.peer
    /\ t.state \in {"CLOSED", "FREE"} => t.txbuf = <<>> /\ t.rxbuf = <<>>
    /\ t.state \in {"CLOSED", "FREE"} \cup CONNINPROGRESS => t.flags = {}
    /\ t.state = "SYN_SENT" => t.txflags = {"SYN"}
    /\ IsOpen(t) => t.txflags = {"ACK"}
    /\ t.state \in CLOSINGSTATES \cup {"TIME_WAIT"} => t.txflags \subseteq {"ACK", "FIN"}

\* Before it is established a host has neither sent nor received a byte.  A listener's
\* sendnext goes up by one with every SYN|ACK, sendunack stays: see Counted.
Youth(c, t, s, g) ==
    /\ IsYoung(t) => s = 0 /\ g = 0 /\ t.txbuf = <<>> /\ t.rxbuf = <<>>
    /\ t.state = "SYN_SENT" => /\ c = "caller" /\ t.sendunack = Iss
                               /\ t.sendnext = Iss \/ t.sendnext = Plus(Iss, 1)
    /\ t.state \in {"LISTEN", "SYN_RECEIVED"} =>
          c = "listener" /\ t.sendunack = 0 /\ 2 * t.sendnext < SeqSize
    /\ t.state = "SYN_RECEIVED" => t.rcvnext = Base("caller")

-----------------------------------------------------------------------------
(* The two directions of the stream.                                       *)

\* The transmit buffer holds the last of the bytes sent, from sendunack on, and the peer
\* has all before them.
Sending(c, t, s, u, k) ==
    IsOpen(t) => /\ s >= Len(t.txbuf)
                 /\ Off(c, t.sendunack) = s - Len(t.txbuf)
                 /\ Off(c, t.sendnext) <= s
                 /\ \A j \in 1..Len(t.txbuf) : t.txbuf[j] = s - Len(t.txbuf) + j
                 /\ IsAlive(u) => s - Len(t.txbuf) <= k
Timed(c, t) == t.state = "ESTABLISHED" /\ Off(c, t.sendnext) > Off(c, t.sendunack) => t.retx

\* A socket that the peer has reset with sendnext behind sendunack: _tcp_output still has
\* something to send for it, though the buffer is empty.
Flushing(c, t, s, u, k) ==
    t.state = "CLOSED" /\ t.sock /\ t.peer /\ Behind(t) =>
       /\ Off(c, t.sendnext) <= s /\ Off(c, t.sendunack) <= s
       /\ IsAlive(u) => Off(c, t.sendunack) <= k

\* rcvnext is the number of the next byte, and the receive buffer holds the last of the
\* bytes received, which are the first that the peer has sent.
Receiving(c, t, g, u, v) ==
    IsTaking(t) /\ (c = "listener" \/ IsOpen(u) \/ v > 0) => t.rcvnext = Plus(Base(Other(c)), g)
Stream(t, g, v) == /\ Len(t.rxbuf) <= g /\ g <= v
                   /\ \A j \in 1..Len(t.rxbuf) : t.rxbuf[j] = g - Len(t.rxbuf) + j

-----------------------------------------------------------------------------
(* The segments on their way.                                              *)

\* No ack that is under way, or that the peer can still send, acknowledges more than was
\* sent, nor more than the peer has.
AckOk(c, n, s, u, k) == Off(c, n) <= s /\ (IsAlive(u) => Off(c, n) <= k)
AcksFit(c, t, s, I, u, k) ==
    t.state \in {"SYN_SENT", "ESTABLISHED"} =>
       /\ \A x \in I : IsAck(x) => AckOk(c, x.ack, s, u, k)
       /\ MayAck(u) => AckOk(c, u.rcvnext, s, u, k)

\* Until a listener is established the acks on their way to it are all alike: it takes
\* sendunack from the first that comes.
SameAcks(c, t, I, u) ==
    c = "listener" /\ IsYoung(t) =>
       /\ \A x \in I, y \in I : IsAck(x) /\ IsAck(y) => x.ack = y.ack
       /\ \A x \in I : IsAck(x) /\ MayAck(u) => x.ack = u.rcvnext

\* No FIN is there before the peer closes.
Fins(t, I, u) ==
    \/ ~IsTalking(u)
    \/ /\ t.state \notin {"CLOSE_WAIT", "CLOSING", "LAST_ACK", "TIME_WAIT"}
       /\ \A x \in I : "FIN" \in x.flags => "RST" \in x.flags

\* A byte under way is the one its number says, or has been received already.
Datas(c, t, g, I, v) ==
    \A x \in I : x.data # <<>> =>
       /\ x.flags = {"ACK"} /\ Off(Other(c), x.seq) + Len(x.data) <= v
       /\ IsAlive(t) => \A j \in 1..Len(x.data) : \/ x.data[j] = Off(Other(c), x.seq) + j
                                                  \/ Off(Other(c), x.seq) + j <= g

Syns(c, I) == \A x \in I : "SYN" \in x.flags =>
                 IF c = "listener" THEN x.seq = Iss ELSE "ACK" \in x.flags /\ "RST" \notin x.flags

\* Before the listener knows the caller, and before the caller has called.
Strange(c, t, I, u, J) ==
    c = "listener" /\ ~t.peer /\ t.state # "FREE" =>
       /\ u.state \in {"CLOSED", "SYN_SENT", "FREE"}
       /\ u.state = "CLOSED" => ~Behind(u)
       /\ t.state = "LISTEN" => t.sendnext = 0
       /\ \A x \in I : x.data = <<>> /\ ~IsAck(x)
       /\ \A x \in J : "RST" \in x.flags
Calling(c, t, I, u, v, J) ==
    /\ c = "caller" /\ IsFresh(t) =>
          /\ u.state \in {"CLOSED", "LISTEN", "FREE"} /\ ~u.peer
          /\ \A x \in I \cup J : "RST" \in x.flags
    /\ c = "caller" /\ (IsFresh(t) \/ t.state = "SYN_SENT") =>
          ~IsOpen(u) /\ v = 0 /\ \A x \in J : ~IsAck(x)

-----------------------------------------------------------------------------
(* Both hosts.                                                             *)

Half(c, t, s, g, I, u, v, k, J) ==
    /\ Typed(t, s, g, I) /\ Resting(t) /\ Youth(c, t, s, g)
    /\ Sending(c, t, s, u, k) /\ Timed(c, t) /\ Flushing(c, t, s, u, k)
    /\ Receiving(c, t, g, u, v) /\ Stream(t, g, v)
    /\ AcksFit(c, t, s, I, u, k) /\ SameAcks(c, t, I, u)
    /\ Fins(t, I, u) /\ Datas(c, t, g, I, v) /\ Syns(c, I)
    /\ Strange(c, t, I, u, J) /\ Calling(c, t, I, u, v, J)

Elems(q) == {q[i] : i \in 1..Len(q)}

\* The invariant of all control blocks T, queues N, counts S and bytes R.
Hold(T, N, S, R) ==
    /\ T \in [Host -> Tcbs] /\ N \in [Host -> Seq(Segments)]
    /\ S \in [Host -> Nat] /\ R \in [Host -> Seq(Bytes)]
    /\ \A e \in Host :
          /\ Calm(T[e]) /\ S[e] <= Quota[e]
          /\ \A i \in 1..Len(R[e]) : R[e][i] = i
          /\ Half(Role(e), T[e], S[e], Len(R[e]) + Len(T[e].rxbuf), Elems(N[e]),
                  T[Peer(e)], S[Peer(e)], Len(R[Peer(e)]) + Len(T[Peer(e)].rxbuf), Elems(N[Peer(e)]))

WInv == Hold(tcb, net, sent, read)

-----------------------------------------------------------------------------
(* How often a listener has answered a SYN.                                *)

IsSyn(x) == "SYN" \in x.flags /\ "RST" \notin x.flags
SynAt(q) == {i \in 1..Len(q) : IsSyn(q[i])}
SynCount(q) == Cardinality(SynAt(q))
NoSyn(q) == \A x \in Elems(q) : ~IsSyn(x)

\* sendnext of a listener counts the SYN|ACKs it has sent.
Tried(t) == IF t.state \in {"LISTEN", "SYN_RECEIVED"} THEN t.sendnext ELSE 0

\* After n faults: t is the listener's control block and u the caller's, q is on its way
\* to the listener and p to the caller.  Each SYN is answered once, and only a fault makes
\* another one.
Counted(n, t, u, q, p) ==
    IsYoung(t) => /\ Tried(t) + SynCount(q) <= n + 1
                  /\ u.state = "SYN_SENT" /\ NoSyn(q) /\ NoSyn(p) => Tried(t) <= n

CountAt(e) == Counted(faults, tcb[e], tcb[Peer(e)], net[e], net[Peer(e)])
CountInv == faults \in 0 .. MaxFaults /\ \A e \in Host : e \notin Connecting => CountAt(e)

\* The inductive invariant.
CInv == WInv /\ CountInv

-----------------------------------------------------------------------------
(* The constants it is proved for.                                         *)

\* Neither what is sent nor the SYN|ACKs that faults make a listener send take the
\* sequence numbers half around their circle, which is as far as the comparisons of
\* net_tcp.c reach.
ModestQuota == \A e \in Host : 2 * Quota[e] < SeqSize
FewFaults == 2 * (MaxFaults + 2) < SeqSize
InReach == OneCaller /\ ModestQuota /\ FewFaults
=============================================================================
