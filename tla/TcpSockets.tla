------------------------------ MODULE TcpSockets ------------------------------
(***************************************************************************)
(* The control blocks and the socket table of one tcp_info_t (net_tcp.c):  *)
(* which blocks are on the list, which socket number leads to which block, *)
(* and which block an arriving segment finds.                              *)
(*                                                                         *)
(* What a segment does to the state of its block depends on sequence       *)
(* numbers that are not modelled here: any arrow that the state diagram    *)
(* of TcpStates has for the state may be taken.  TcpConn, which does    *)
(* model the numbers, is checked to keep to these arrows.  A control block *)
(* is named by its address, so a freed one may be allocated again.  Ports  *)
(* count modulo NumPorts, and a peer stands for an address with a port     *)
(* other than 0.                                                           *)
(***************************************************************************)
EXTENDS TcpStates, Integers, Sequences, FiniteSets

CONSTANTS Tcb,        \* the addresses KMALLOC may return for a control block
          NoTcb,      \* the NULL pointer
          Peer,       \* the remote ends
          NoPeer,     \* tcb_peerport = 0
          MaxPorts,   \* TCP_MAX_PORTS (8)
          MaxTcbs,    \* TCP_MAX_TCBS (16)
          NumPorts,   \* the number of ports (2^16)
          Reserved,   \* the well-known ones are 0 .. Reserved-1 (1024)
          UserPorts,  \* the ports that applications bind or listen to
          Ticks       \* the values of cfe_ticks when sockets are made

Port == 0 .. NumPorts - 1
Socknum == 0 .. MaxPorts - 1

ASSUME NullAssumption == NoTcb \notin Tcb /\ NoPeer \notin Peer
ASSUME LimitsAssumption ==
    /\ MaxPorts \in Nat \ {0} /\ MaxTcbs \in Nat \ {0}
    /\ NumPorts \in Nat /\ Reserved \in Nat /\ NumPorts > Reserved
    /\ UserPorts \subseteq Port /\ Ticks \subseteq Port

VARIABLES tcb,      \* tcb[t]: the control block at address t
          list,     \* ti_tcblist, from the oldest to the newest
          ports,    \* ti_ports
          onqueue   \* ti_onqueue

vars == <<tcb, list, ports, onqueue>>

(* Where a closed socket's block may be, and where it knows its peer.      *)
Departing == CLOSINGSTATES \cup {"TIME_WAIT"}
Connected == ABORTSTATES \cup {"TIME_WAIT"}

FreeTcb == [state |-> "FREE", socknum |-> -1, port |-> 0, peer |-> NoPeer, keep |-> FALSE]

Init == /\ tcb = [t \in Tcb |-> FreeTcb]
        /\ list = <<>>
        /\ ports = [s \in Socknum |-> NoTcb]
        /\ onqueue = 0

-----------------------------------------------------------------------------
Listed == {t \in Tcb : tcb[t].state # "FREE"}

(* q_dequeue.                                                              *)
Without_First(q, t) == Tail(q)
Without(q, t) ==
    LET at == CHOOSE i \in 1..Len(q) : q[i] = t
    IN  [i \in 1 .. Len(q) - 1 |-> IF i < at THEN q[i] ELSE q[i + 1]]

(* _tcp_freetcb                                                            *)
Freetcb(t) ==
    /\ tcb' = [tcb EXCEPT ![t] = FreeTcb]
    /\ list' = Without(list, t)
    /\ onqueue' = onqueue - 1
    /\ ports' = IF tcb[t].socknum >= 0 THEN [ports EXCEPT ![tcb[t].socknum] = NoTcb]
                                       ELSE ports

(* The block changes and stays where it is.                                *)
Changes(t, new) == /\ tcb' = [tcb EXCEPT ![t] = new]
                   /\ UNCHANGED <<list, ports, onqueue>>

(* _tcp_closetcb, as far as it is kept here.                               *)
Closetcb_AndFree(t) == Freetcb(t)
Closetcb(t) == Changes(t, [tcb[t] EXCEPT !.state = "CLOSED", !.keep = FALSE])

(* _tcp_find_lclport                                                       *)
InUse(port) == \E t \in Listed : tcb[t].port = port

(* The search of _tcp_socket for a local port: upward from where the clock *)
(* says, and from the last port on to the first that is not well known.    *)
Search(start) ==
    LET above == {p \in start .. NumPorts - 1 : ~InUse(p)}
        below == {p \in Reserved .. NumPorts - 1 : ~InUse(p)}
        Lowest(S) == CHOOSE p \in S : \A q \in S : p <= q
    IN  Lowest(IF above # {} THEN above ELSE below)

-----------------------------------------------------------------------------
(* _tcp_socket: the first free number; a block from the heap.  KMALLOC and *)
(* tmb_alloc fail when no address is free.  With far more ports than       *)
(* blocks, one that is not well known is always free.                      *)
Socket(s, t, ticks) ==
    /\ ports[s] = NoTcb
    /\ \A r \in 0 .. s - 1 : ports[r] # NoTcb
    /\ onqueue < MaxTcbs
    /\ t \notin Listed
    /\ \E p \in Reserved .. NumPorts - 1 : ~InUse(p)
    /\ tcb' = [tcb EXCEPT ![t] = [state |-> "CLOSED", socknum |-> s, peer |-> NoPeer,
                                  port |-> Search((ticks + Reserved) % NumPorts),
                                  keep |-> FALSE]]
    /\ list' = Append(list, t)
    /\ ports' = [ports EXCEPT ![s] = t]
    /\ onqueue' = onqueue + 1

(* _tcp_connect, from whatever state the socket is in.                     *)
Connect(s, peer) ==
    /\ ports[s] # NoTcb
    /\ Changes(ports[s], [tcb[ports[s]] EXCEPT !.peer = peer, !.keep = TRUE,
                                               !.state = "SYN_SENT"])

(* _tcp_listen: the peer of an earlier connection stays.                   *)
Listening_NotTested(port) == FALSE
Listening(port) ==
    \E t \in Listed : tcb[t].port = port /\ tcb[t].state = "LISTEN" /\ tcb[t].peer = NoPeer
Listen(s, port) ==
    /\ ~Listening(port)
    /\ ports[s] # NoTcb
    /\ Changes(ports[s], [tcb[ports[s]] EXCEPT !.port = port, !.keep = FALSE,
                                               !.state = "LISTEN"])

(* _tcp_bind                                                               *)
Bind(s, port) ==
    /\ ports[s] # NoTcb
    /\ ~InUse(port)
    /\ Changes(ports[s], [tcb[ports[s]] EXCEPT !.port = port])

(* _tcp_close: the number is given up before the block is looked at.       *)
Leave_KeepsNumber(s, state) ==
    /\ tcb' = [tcb EXCEPT ![ports[s]].state = state]
    /\ ports' = [ports EXCEPT ![s] = NoTcb]
    /\ UNCHANGED <<list, onqueue>>
Leave(s, state) ==
    /\ tcb' = [tcb EXCEPT ![ports[s]].state = state, ![ports[s]].socknum = -1]
    /\ ports' = [ports EXCEPT ![s] = NoTcb]
    /\ UNCHANGED <<list, onqueue>>
Close(s) ==
    /\ ports[s] # NoTcb
    /\ LET state == tcb[ports[s]].state IN
       \/ state \in {"SYN_RECEIVED", "ESTABLISHED"} /\ Leave(s, "FINWAIT_1")
       \/ state = "CLOSE_WAIT" /\ Leave(s, "LAST_ACK")
       \/ state \in Departing /\ Leave(s, state)
       \/ state \in {"CLOSED", "LISTEN", "SYN_SENT"} /\ Freetcb(ports[s])

-----------------------------------------------------------------------------
(* _tcp_find_tcb: the oldest block connected to the sender, or else the    *)
(* oldest without a peer on the port.  NoTcb: a reset is sent back.        *)
First(S) == IF \E i \in 1..Len(list) : list[i] \in S
            THEN list[CHOOSE i \in 1..Len(list) :
                         list[i] \in S /\ \A j \in 1 .. i - 1 : list[j] \notin S]
            ELSE NoTcb
Find(peer, port) ==
    LET active == {t \in Tcb : tcb[t].port = port /\ tcb[t].peer = peer}
        passive == {t \in Tcb : tcb[t].port = port /\ tcb[t].peer = NoPeer}
    IN  IF First(active) # NoTcb THEN First(active) ELSE First(passive)

(* _tcp_rx_callback for a segment with RST.                                *)
Reset(peer, port) ==
    LET t == Find(peer, port) IN
    /\ t # NoTcb
    /\ IF tcb[t].state = "SYN_RECEIVED" THEN Changes(t, [tcb[t] EXCEPT !.state = "LISTEN"])
                                        ELSE Closetcb(t)

(* _tcp_rx_callback for any other segment.                                 *)
PeerAfter(t, peer) == IF tcb[t].state = "LISTEN" THEN peer ELSE tcb[t].peer
Segment(peer, port, state) ==
    LET t == Find(peer, port) IN
    /\ t # NoTcb
    /\ \/ <<tcb[t].state, state>> \in SegmentArrows
       \/ tcb[t].state = state /\ state \in RESETKEEPALIVE
    /\ IF state = "FREE" THEN Freetcb(t)
       ELSE Changes(t, [tcb[t] EXCEPT
               !.state = state,
               !.peer = PeerAfter(t, peer),
               !.keep = IF <<tcb[t].state, state>> = <<"SYN_SENT", "SYN_RECEIVED">> THEN @
                        ELSE state # "TIME_WAIT"])

(* _tcp_poll for one block with one expired timer; the retransmission      *)
(* timer changes nothing kept here.  A poll that finds several expired has *)
(* the effect of one poll for each.                                        *)
KeepExpires(t) ==
    /\ tcb[t].keep
    /\ IF tcb[t].state \in CONNINPROGRESS THEN Closetcb(t)
                                          ELSE Changes(t, [tcb[t] EXCEPT !.keep = FALSE])
MslExpires(t) == tcb[t].state = "TIME_WAIT" /\ Freetcb(t)

(* _tcp_uninit, after which the TCP can only be initialised again.         *)
Uninit == /\ list # <<>>
          /\ tcb' = [t \in Tcb |-> FreeTcb]
          /\ list' = <<>>
          /\ ports' = [s \in Socknum |-> NoTcb]
          /\ onqueue' = 0

UserStep == \E s \in Socknum :
    \/ \E t \in Tcb, ticks \in Ticks : Socket(s, t, ticks)
    \/ \E peer \in Peer : Connect(s, peer)
    \/ \E port \in UserPorts : Listen(s, port) \/ Bind(s, port)
    \/ Close(s)

OtherStep ==
    \/ \E peer \in Peer, port \in Port : Reset(peer, port)
    \/ \E peer \in Peer, port \in Port, state \in States : Segment(peer, port, state)
    \/ \E t \in Tcb : KeepExpires(t) \/ MslExpires(t)

Next == UserStep \/ OtherStep \/ Uninit

Spec == Init /\ [][Next]_vars

-----------------------------------------------------------------------------
(* Properties.                                                             *)

Block == [state : States, socknum : Socknum \cup {-1}, port : Port,
          peer : Peer \cup {NoPeer}, keep : BOOLEAN]
TypeOK == /\ tcb \in [Tcb -> Block]
          /\ list \in Seq(Tcb)
          /\ ports \in [Socknum -> Tcb \cup {NoTcb}]
          /\ onqueue \in 0..MaxTcbs

(* The list holds each allocated block once and no freed one, and          *)
(* ti_onqueue, the limit of _tcp_socket, counts it: q_dequeue is never     *)
(* called for a block that is not on the list, nor a block freed twice.    *)
ListAgrees ==
    /\ \A t \in Tcb : tcb[t].state # "FREE" <=> \E i \in 1..Len(list) : list[i] = t
    /\ \A i, j \in 1..Len(list) : list[i] = list[j] => i = j
    /\ onqueue = Len(list)

(* The table and the blocks point at each other: no socket number leads to *)
(* a freed block, two numbers never to the same one, and a block that has  *)
(* been closed (_tcp_close) has lost its number, so that freeing it later  *)
(* leaves the slot's next owner alone.                                     *)
TableAgrees ==
    /\ \A s \in Socknum : ports[s] # NoTcb => tcb[ports[s]].socknum = s
    /\ \A t \in Tcb : tcb[t].socknum # -1 => ports[tcb[t].socknum] = t
    /\ \A t \in Tcb : tcb[t].socknum # -1 => tcb[t].state # "FREE"

(* Only a block nobody holds any more is on its way through the closing    *)
(* states, so the network cannot free a block under its owner.             *)
ClosingIsOrphaned == \A t \in Tcb : tcb[t].state \in Departing => tcb[t].socknum = -1

(* A block that is or was connecting knows its peer, so _tcp_find_tcb      *)
(* gives the segments of strangers to listeners only, or closed blocks.    *)
ConnectedHasPeer == \A t \in Tcb : tcb[t].state \in Connected => tcb[t].peer # NoPeer

(* At most one block waits for strangers on a port, although _tcp_listen   *)
(* tests it only on entry and ports change by _tcp_bind, by resets and by  *)
(* timers as well.                                                         *)
OneListener ==
    \A t, u \in Tcb : /\ tcb[t].state = "LISTEN" /\ tcb[t].peer = NoPeer
                      /\ tcb[u].state = "LISTEN" /\ tcb[u].peer = NoPeer
                      /\ tcb[t].port = tcb[u].port
                      => t = u

(* A socket number stays with its block until its owner closes it: neither *)
(* a segment nor a timer takes it away or gives it to another block.       *)
HandlesStay == [][\A s \in Socknum : ports[s] # NoTcb /\ ports'[s] # ports[s]
                                        => Close(s) \/ Uninit]_vars

-----------------------------------------------------------------------------
(* What comments of the code claim and the code does not do.               *)
=============================================================================
