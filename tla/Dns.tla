--------------------------------- MODULE Dns ---------------------------------
(***************************************************************************)
(* The DNS resolver (net_dns.c) on its UDP port (net_udp.c), with the pool *)
(* of packet buffers (net_ether.c) and the time of Clock.                  *)
(*                                                                         *)
(* The resolver is called from the foreground and polls while it waits;    *)
(* the background reads the time and takes at most one frame per poll, and *)
(* a poll may hold others, since the web server polls, too.  The name      *)
(* server and the network are external: whatever was asked once may be     *)
(* answered at any later time, any number of times, or never.              *)
(***************************************************************************)
EXTENDS Clock, Sequences, FiniteSets

CONSTANTS Hosts,       \* names that are looked up
          Ids,         \* 2^16, the identifiers of a question
          Ports,       \* 4096, the numbers a new port may get
          Buffers,     \* ETH_MAX_BUFFERS
          MaxQueue,    \* up_maxqueue
          Timeout,     \* DNS_QUERY_TIMEOUT * CFE_HZ
          RetryCount,  \* DNS_RETRY_COUNT
          MaxClocks,   \* bound: time
          MaxAsked     \* bound: questions on the network after which no call begins

ASSUME DnsAssumption ==
    /\ Ids \in Nat \ {0} /\ Ports \in Nat \ {0} /\ Buffers \in Nat \ {0}
    /\ MaxQueue \in Nat \ {0} /\ Timeout \in Nat \ {0} /\ RetryCount \in Nat \ {0}
    /\ MaxClocks \in Nat /\ MaxAsked \in Nat

VARIABLES
    lookup,  \* the call of dns_lookup, or what the last one returned
    queue,   \* up_rxqueue
    free,    \* buffers in the pool
    others,  \* buffers that wait in the ARP table or with other protocols
    asked    \* the questions on the network

dnsVars == <<lookup, queue, free, others, asked>>
vars    == <<clockVars, dnsVars>>

\* What an answer holds: a host's address, a code other than RCODE_OK, or no host address.
Kinds == {"address", "error", "useless"}

Polling == lookup.at \in {"idle", "poll", "recv"}

-----------------------------------------------------------------------------
(* The rest of the system *)

TimePasses == Elapse /\ clocks < MaxClocks /\ lookup.at # "dead" /\ UNCHANGED dnsVars

\* _udp_rx_callback: a full queue drops what comes, and so does a number without a port.
Received(q, kind) ==
    IF lookup.at # "idle" /\ lookup.port = q.port /\ Len(queue) < MaxQueue
    THEN /\ queue' = Append(queue, [id |-> q.id, host |-> q.host, kind |-> kind])
         /\ free' = free - 1
    ELSE UNCHANGED <<queue, free>>

\* background: cfe_timer_task, and later net_poll with eth_poll, which takes a
\* frame if there is a buffer for it.  The polls inside a poll take no time here:
\* while the web server waits for its peer, the resolver waits with it.
Background ==
    /\ Polling /\ (lookup.at = "recv" => clocks = polled)
    /\ CfeTimerTask
    /\ \/ UNCHANGED <<queue, free>>
       \/ \E q \in asked, kind \in Kinds : free > 0 /\ Received(q, kind)
    /\ lookup' = IF lookup.at = "poll" THEN [lookup EXCEPT !.at = "recv"] ELSE lookup
    /\ UNCHANGED <<others, asked>>

\* Packets of other protocols are received, or wait for an answer of ARP.
Taken    == /\ Polling /\ free > 0
            /\ free' = free - 1 /\ others' = others + 1
            /\ UNCHANGED <<clockVars, lookup, queue, asked>>
Returned == /\ Polling /\ others > 0
            /\ free' = free + 1 /\ others' = others - 1
            /\ UNCHANGED <<clockVars, lookup, queue, asked>>

-----------------------------------------------------------------------------
(* dns_lookup and dns_dolookup *)

\* _udp_socket: the number is taken from the counter; no other port is open.
Lookup(host) ==
    /\ lookup.at = "idle" /\ Cardinality(asked) <= MaxAsked
    /\ lookup' = [at |-> "ask", host |-> host, port |-> (Start + clocks) % Ports,
                  tries |-> 0, began |-> clocks]
    /\ queue' = <<>>
    /\ UNCHANGED <<clockVars, free, others, asked>>

\* dns_dolookup, up to its loop: the question is on its way, or waits in the ARP table.
Ask ==
    /\ lookup.at = "ask" /\ free > 0
    /\ LET id == ticks % Ids
       IN /\ asked' = asked \cup {[port |-> lookup.port, id |-> id, host |-> lookup.host]}
          /\ lookup' = [at |-> "test", host |-> lookup.host, port |-> lookup.port,
                        tries |-> lookup.tries, began |-> lookup.began,
                        id |-> id, timer |-> TimerSet(Timeout)]
    /\ \/ UNCHANGED <<free, others>>
       \/ free' = free - 1 /\ others' = others + 1
    /\ UNCHANGED <<clockVars, queue>>

\* udp_alloc has no buffer, and the question is written through a null pointer.
AskWithoutBuffer ==
    /\ lookup.at = "ask" /\ free = 0
    /\ lookup' = [at |-> "dead"]
    /\ UNCHANGED <<clockVars, queue, free, others, asked>>

\* dns_lookup returns, and udp_close frees what is left in the queue.
Done(got, rest, given) ==
    /\ lookup' = [at |-> "idle", host |-> lookup.host, got |-> got]
    /\ queue' = <<>>
    /\ free' = free + given + Len(rest)

\* A try without an answer, or with an error, is followed by the next one.
NextTry(rest, given) ==
    IF lookup.tries + 1 < RetryCount
    THEN /\ lookup' = [at |-> "ask", host |-> lookup.host, port |-> lookup.port,
                       tries |-> lookup.tries + 1, began |-> lookup.began]
         /\ queue' = rest
         /\ free' = free + given
    ELSE Done({}, rest, given)

\* Mutant: the question is repeated, and its timer set, until one is answered
Test_Repeats ==
    /\ lookup.at = "test"
    /\ lookup' = IF TimerExpired(lookup.timer) THEN [lookup EXCEPT !.timer = TimerSet(Timeout)]
                 ELSE [lookup EXCEPT !.at = "poll"]
    /\ UNCHANGED <<queue, free, clockVars, others, asked>>

Test ==
    /\ lookup.at = "test"
    /\ IF TimerExpired(lookup.timer) THEN NextTry(queue, 0)
       ELSE lookup' = [lookup EXCEPT !.at = "poll"] /\ UNCHANGED <<queue, free>>
    /\ UNCHANGED <<clockVars, others, asked>>

\* Mutant: the identifier is not compared
Recv_AnyId ==
    /\ lookup.at = "recv" /\ queue # <<>>
    /\ LET buf == Head(queue)
       IN CASE buf.kind = "address" -> Done({buf.host}, Tail(queue), 1)
            [] buf.kind = "error"   -> NextTry(Tail(queue), 1)
            [] OTHER -> /\ lookup' = [lookup EXCEPT !.at = "test"]
                        /\ queue' = Tail(queue) /\ free' = free + 1
    /\ UNCHANGED <<clockVars, others, asked>>

\* Mutant: an error ends the loop with its buffer still held
Recv_KeepsBuffer ==
    /\ lookup.at = "recv" /\ queue # <<>>
    /\ LET buf   == Head(queue)
           drops == /\ lookup' = [lookup EXCEPT !.at = "test"]
                    /\ queue' = Tail(queue) /\ free' = free + 1
       IN CASE buf.id # lookup.id   -> drops
            [] buf.id = lookup.id /\ buf.kind = "error"   -> NextTry(Tail(queue), 0)
            [] buf.id = lookup.id /\ buf.kind = "address" -> Done({buf.host}, Tail(queue), 1)
            [] OTHER -> drops
    /\ UNCHANGED <<clockVars, others, asked>>

\* udp_recv returns a datagram: what is not an answer to this question is dropped.
Recv ==
    /\ lookup.at = "recv" /\ queue # <<>>
    /\ LET buf   == Head(queue)
           drops == /\ lookup' = [lookup EXCEPT !.at = "test"]
                    /\ queue' = Tail(queue) /\ free' = free + 1
       IN CASE buf.id # lookup.id   -> drops
            [] buf.id = lookup.id /\ buf.kind = "error"   -> NextTry(Tail(queue), 1)
            [] buf.id = lookup.id /\ buf.kind = "address" -> Done({buf.host}, Tail(queue), 1)
            [] OTHER -> drops
    /\ UNCHANGED <<clockVars, others, asked>>

RecvNothing ==
    /\ lookup.at = "recv" /\ queue = <<>>
    /\ lookup' = [lookup EXCEPT !.at = "test"]
    /\ UNCHANGED <<clockVars, queue, free, others, asked>>

-----------------------------------------------------------------------------
(* The specification *)

Init == /\ ClockInit
        /\ lookup = [at |-> "idle", host |-> "nobody", got |-> {}]
        /\ queue = <<>> /\ free = Buffers /\ others = 0 /\ asked = {}

Next == \/ TimePasses \/ Background \/ Taken \/ Returned
        \/ \E host \in Hosts : Lookup(host)
        \/ Ask \/ AskWithoutBuffer \/ Test \/ Recv \/ RecvNothing

Spec == Init /\ [][Next]_vars

-----------------------------------------------------------------------------
(* Properties *)

\* Two questions for different hosts went out with one number of port and question.
Ambiguous == \E q, r \in asked : q.port = r.port /\ q.id = r.id /\ q.host # r.host

\* Answers that come late, twice, or to an earlier question are not taken for the
\* answer to this one: what dns_lookup returns is the address of the host it was
\* asked for, unless two questions could not be told apart (dns_dolookup, _udp_socket).
AnswersTheQuestion ==
    lookup.at = "idle" /\ ~ Ambiguous => lookup.got \subseteq {lookup.host}

\* Every buffer is in the pool, in the queue of the port or with another protocol,
\* and the queue is empty when the call is over (dns_dolookup, _udp_rx_callback, _udp_close).
BuffersAccounted ==
    /\ free + others + Len(queue) = Buffers
    /\ lookup.at = "idle" => queue = <<>>

\* What a try takes at most: its timeout, a tick for its end and one for the remainders,
\* and a poll.
TryTime == ClocksPerTick * (Timeout + 2) - 2 + MaxGap

\* A lookup comes to its end in the time of its tries, whatever arrives meanwhile and
\* also when the counter wraps in it (dns_lookup, dns_dolookup, TIMER_EXPIRED).
LookupInTime ==
    lookup.at \notin {"idle", "dead"} =>
        clocks - lookup.began <= RetryCount * TryTime + MaxGap + 2 * MaxGap * Turns
=============================================================================
