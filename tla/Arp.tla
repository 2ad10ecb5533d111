--------------------------------- MODULE Arp ---------------------------------
(***************************************************************************)
(* The ARP table of the IP layer (net_arp.c) and the pool of packet        *)
(* buffers it shares with everything else on the network (net_ether.c).    *)
(*                                                                         *)
(* A packet for a next hop whose hardware address is unknown waits in the  *)
(* table, and the buffer it waits in is one that no packet can be received *)
(* into.  The other place where buffers stay is the receive queue of a UDP *)
(* port (net_udp.c).  The packets that one step hands to the driver are    *)
(* kept in wire; ARP queries and answers to queries borrow a buffer within *)
(* one step and change nothing here.                                       *)
(***************************************************************************)
EXTENDS Integers, SequencesExt

CONSTANTS Buf,           \* the buffers of the pool (ETH_MAX_BUFFERS, 8)
          Ip,            \* the next hops packets are sent to
          StaticIp,      \* those that are also entered by hand
          Hw,            \* hardware addresses
          NoIp, NoHw,    \* what fresh memory holds
          AsIp,          \* AsIp[h]: the first four bytes of h read as an IP address
          TableSize,     \* ARP_TABLE_SIZE (8)
          TxWaitMax,     \* ARP_TXWAIT_MAX (2)
          KeepTimer,     \* ARP_KEEP_TIMER (60)
          QueryTimer,    \* ARP_QUERY_TIMER (1)
          QueryRetries,  \* ARP_QUERY_RETRIES (4)
          MaxQueue,      \* up_maxqueue of a UDP port (2)
          MaxUsage       \* bound: packets counted for one entry

ASSUME ArpAssumption ==
    /\ NoIp \notin Ip /\ NoHw \notin Hw
    /\ StaticIp \subseteq Ip
    /\ AsIp \in [Hw -> StaticIp \cup {NoIp}]
    /\ TableSize \in Nat \ {0}
    /\ {KeepTimer, QueryTimer, QueryRetries, TxWaitMax} \subseteq Nat \ {0}
    /\ MaxQueue \in Nat /\ MaxUsage \in Nat

VARIABLES entry,   \* arp_table
          free,    \* eth_freelist
          kept,    \* up_rxqueue
          hop,     \* hop[b]: where the packet waiting in buffer b is to go
          wire,    \* the packets handed to the driver in the last step
          told     \* told[ip]: the hardware address ip was last said to have, unless it
               \* is one that is entered by hand

vars == <<entry, free, kept, hop, wire, told>>

Entry == 1 .. TableSize

Unused == [state |-> "unused", ip |-> NoIp, hw |-> NoHw, timer |-> 0,
           retries |-> 0, usage |-> 0, txqueue |-> <<>>]

(* _arp_init, eth_init and an open UDP port.                               *)
Init == /\ entry = [i \in Entry |-> Unused]
        /\ free = Buf
        /\ kept = <<>>
        /\ hop = [b \in Buf |-> NoIp]
        /\ wire = {}
        /\ told = [ip \in Ip \ StaticIp |-> NoHw]

-----------------------------------------------------------------------------
(* Looking up and making room.                                             *)

Waiting(e) == ToSet(e.txqueue)

(* The packets of the buffers bs, sent to hw.                              *)
Packets(bs, hw) == {[to |-> hop[b], hw |-> hw] : b \in bs}

(* eth_free of the buffers bs.                                             *)
Release(bs) == /\ free' = free \cup bs
               /\ hop' = [b \in Buf |-> IF b \in bs THEN NoIp ELSE hop[b]]

(* The entries for ip.  (A name with an underscore is, here and below, a   *)
(* slip that the runs are known to find in place of the definition.)       *)
Matching_Established(ip) == {i \in Entry : entry[i].state = "established" /\ entry[i].ip = ip}
Matching(ip) == {i \in Entry : entry[i].state # "unused" /\ entry[i].ip = ip}

(* arp_find_entry: the entry found is one that is used, so it is kept for  *)
(* another KeepTimer seconds, a permanent one too.  ae_permanent itself is *)
(* left out: all it decides is whether _arp_lookup_and_send sets the timer *)
(* that arp_find_entry has just set.                                       *)
Found(ip) == Min(Matching(ip))
Touched(e) == IF e.state = "established" THEN [e EXCEPT !.timer = KeepTimer] ELSE e

(* arp_delete.  The addresses keep their values.                           *)
Deleted_KeepsQueue(e) == [e EXCEPT !.timer = 0, !.usage = 0, !.retries = 0, !.state = "unused"]
Deleted(e) == [e EXCEPT !.timer = 0, !.usage = 0, !.retries = 0,
                        !.state = "unused", !.txqueue = <<>>]

(* arp_new_entry: an entry that is unused, or the one used least.          *)
Unoccupied == {i \in Entry : entry[i].state = "unused"}
LeastUsed == {i \in Entry : \A j \in Entry : entry[i].usage <= entry[j].usage}
NewEntry == Min(IF Unoccupied # {} THEN Unoccupied ELSE LeastUsed)

-----------------------------------------------------------------------------
(* _arp_lookup_and_send, with a buffer from _ip_alloc.  All free buffers   *)
(* are alike: which of them is at the head of the list does not matter.    *)
Alloc == CHOOSE b \in free : TRUE

(* No entry: one is made, and the packet waits there for the answer.       *)
Query(b, ip) ==
    LET i == NewEntry
        dropped == Waiting(entry[i])
    IN  /\ entry' = [entry EXCEPT ![i] =
                        [Deleted(@) EXCEPT !.ip = ip, !.txqueue = <<b>>, !.state = "arping",
                                           !.retries = QueryRetries, !.timer = QueryTimer]]
        /\ free' = (free \ {b}) \cup dropped
        /\ hop' = [c \in Buf |-> IF c = b THEN ip ELSE IF c \in dropped THEN NoIp ELSE hop[c]]

SendToUnknown(ip) == /\ free # {}
                     /\ Matching(ip) = {}
                     /\ Query(Alloc, ip)
                     /\ wire' = {}
                     /\ UNCHANGED <<kept, told>>

SendToKnown(ip) ==
    /\ free # {}
    /\ Matching(ip) # {}
    /\ LET e == entry[Found(ip)]
       IN  /\ e.state = "established"
           /\ e.usage < MaxUsage
           /\ entry' = [entry EXCEPT ![Found(ip)] = [Touched(e) EXCEPT !.usage = @ + 1]]
           /\ wire' = {[to |-> ip, hw |-> e.hw]}
    /\ UNCHANGED <<free, kept, hop, told>>

(* The address has been asked for: wait with the others, or be dropped.    *)
Joined_ToFirst(b, ip) == entry' = [entry EXCEPT ![1].txqueue = Append(@, b)]
Joined(b, ip) == entry' = [entry EXCEPT ![Found(ip)].txqueue = Append(@, b)]

SendToArping(ip) ==
    /\ free # {}
    /\ Matching(ip) # {}
    /\ entry[Found(ip)].state = "arping"
    /\ \/ /\ Len(entry[Found(ip)].txqueue) < TxWaitMax
          /\ Joined(Alloc, ip)
          /\ free' = free \ {Alloc}
          /\ hop' = [hop EXCEPT ![Alloc] = ip]
       \/ /\ Len(entry[Found(ip)].txqueue) >= TxWaitMax
          /\ UNCHANGED <<entry, free, hop>>
    /\ wire' = {}
    /\ UNCHANGED <<kept, told>>

-----------------------------------------------------------------------------
(* arp_rx_response, with a buffer that eth_poll has found for the answer.  *)
(* Answers nobody asked for are taken too.                                 *)
Learned_AddressNotCopied(e, hw) == [e EXCEPT !.state = "established", !.timer = KeepTimer,
                                             !.retries = 0, !.txqueue = <<>>]
Learned(e, hw) == [e EXCEPT !.hw = hw, !.state = "established", !.timer = KeepTimer,
                            !.retries = 0, !.txqueue = <<>>]

Response(ip, hw) ==
    LET sent == UNION {Waiting(entry[i]) : i \in Matching(ip)}
    IN  /\ free # {}
        /\ entry' = [i \in Entry |-> IF i \in Matching(ip) THEN Learned(entry[i], hw)
                                                           ELSE entry[i]]
        /\ wire' = Packets(sent, hw)
        /\ Release(sent)
        /\ told' = [i \in DOMAIN told |-> IF i = ip THEN hw ELSE told[i]]
        /\ UNCHANGED kept

-----------------------------------------------------------------------------
(* _arp_add: the entry to replace is looked for by the hardware address.   *)
Add(ip, hw) ==
    LET known == Matching(AsIp[hw])
        i == IF known # {} THEN Min(known) ELSE NewEntry
        e == IF known # {} THEN entry[i] ELSE Deleted(entry[i])
    IN  /\ entry' = [entry EXCEPT ![i] =
                        [e EXCEPT !.ip = ip, !.hw = hw, !.retries = 0, !.timer = 0,
                                  !.state = "established",
                                  !.txqueue = <<>>]]
        /\ wire' = Packets(Waiting(e), hw)
        /\ Release(Waiting(entry[i]))
        /\ UNCHANGED <<kept, told>>

(* _arp_lookup.                                                            *)
Lookup(ip) == /\ Matching(ip) # {}
              /\ entry' = [entry EXCEPT ![Found(ip)] = Touched(@)]
              /\ wire' = {}
              /\ UNCHANGED <<free, kept, hop, told>>

(* _arp_delete.                                                            *)
Delete(ip) == /\ Matching(ip) # {}
              /\ entry' = [entry EXCEPT ![Found(ip)] = Deleted(Touched(@))]
              /\ wire' = {}
              /\ Release(Waiting(entry[Found(ip)]))
              /\ UNCHANGED <<kept, told>>

-----------------------------------------------------------------------------
(* _arp_timer_tick, once a second.                                         *)

Expires(e) == \/ e.state = "arping" /\ e.timer <= 1 /\ e.retries = 0
              \/ e.state = "established" /\ e.timer = 1

Retried_Forever(e) == [e EXCEPT !.timer = QueryTimer]
Retried(e) == [e EXCEPT !.timer = QueryTimer, !.retries = @ - 1]

Ticked(e) == CASE Expires(e) -> Deleted(e)
               [] e.state = "arping" /\ e.timer <= 1 /\ e.retries > 0 -> Retried(e)
               [] e.state # "unused" /\ e.timer > 1 -> [e EXCEPT !.timer = @ - 1]
               [] OTHER -> e

Tick == /\ entry' = [i \in Entry |-> Ticked(entry[i])]
        /\ wire' = {}
        /\ Release(UNION {Waiting(entry[i]) : i \in {j \in Entry : Expires(entry[j])}})
        /\ UNCHANGED <<kept, told>>

-----------------------------------------------------------------------------
(* A datagram is received into a buffer and stays (_udp_rx_callback) until *)
(* the application has read it and gives the buffer back (_udp_recv).      *)
Datagram == /\ free # {}
            /\ Len(kept) < MaxQueue
            /\ kept' = Append(kept, Alloc)
            /\ free' = free \ {Alloc}
            /\ wire' = {}
            /\ UNCHANGED <<entry, hop, told>>

Recv == /\ kept # <<>>
        /\ kept' = Tail(kept)
        /\ Release({Head(kept)})
        /\ wire' = {}
        /\ UNCHANGED <<entry, told>>

(* _udp_uninit and _arp_uninit, and the network is started again.          *)
Uninit == /\ entry' = [i \in Entry |-> Unused]
          /\ kept' = <<>>
          /\ Release(ToSet(kept) \cup UNION {Waiting(entry[i]) : i \in Entry \ Unoccupied})
          /\ wire' = {}
          /\ UNCHANGED told

-----------------------------------------------------------------------------
Next == \/ \E ip \in Ip : SendToUnknown(ip)
        \/ \E ip \in Ip : SendToKnown(ip)
        \/ \E ip \in Ip : SendToArping(ip)
        \/ \E ip \in Ip, hw \in Hw : Response(ip, hw)
        \/ \E ip \in StaticIp, hw \in Hw : Add(ip, hw)
        \/ \E ip \in Ip : Lookup(ip)
        \/ \E ip \in Ip : Delete(ip)
        \/ Tick
        \/ Datagram
        \/ Recv
        \/ Uninit

Spec == Init /\ [][Next]_vars

(* net_poll counts the seconds as long as the boot loader polls, and the   *)
(* owner of a UDP port reads it in a loop.                                 *)
Fairness == WF_vars(Tick) /\ WF_vars(Recv)
FairSpec == Spec /\ Fairness

-----------------------------------------------------------------------------
(* Every buffer is in exactly one place, once: on the free list, in the    *)
(* queue of one ARP entry or in the receive queue.  No path of arp_delete, *)
(* arp_tx_waiting or the drop in _arp_lookup_and_send loses a buffer or    *)
(* frees one twice.                                                        *)
OneHome ==
    /\ Buf = free \cup ToSet(kept) \cup UNION {Waiting(entry[i]) : i \in Entry}
    /\ \A i \in Entry : Waiting(entry[i]) \cap (free \cup ToSet(kept)) = {}
    /\ free \cap ToSet(kept) = {}
    /\ \A i, j \in Entry : i # j => Waiting(entry[i]) \cap Waiting(entry[j]) = {}
    /\ \A i \in Entry : IsInjective(entry[i].txqueue)
    /\ IsInjective(kept)

(* Only an entry whose address has been asked for holds packets, never     *)
(* more than ARP_TXWAIT_MAX, and they are all for its own address, also    *)
(* after the entry has been taken over for another hop.                    *)
WaitsForItsHop ==
    \A i \in Entry :
        /\ entry[i].txqueue # <<>> => entry[i].state = "arping"
        /\ Len(entry[i].txqueue) <= TxWaitMax
        /\ \A b \in Waiting(entry[i]) : hop[b] = entry[i].ip

(* A hop that is not entered by hand has at most one entry, so that what   *)
(* is learned about it is what is used.                                    *)
OneEntryPerHop ==
    \A i, j \in Entry \ Unoccupied :
        i # j /\ entry[i].ip = entry[j].ip => entry[i].ip \in StaticIp

(* No packet is sent to another hardware address than the one its hop was  *)
(* last said to have, although entries change hands and keep the address   *)
(* of their previous owner until the answer comes (net_arp.c:260-266).     *)
SentWhereTold == \A p \in wire : p.to \in StaticIp \/ p.hw = told[p.to]

(* Whatever waits for an answer that does not come, and whatever else is   *)
(* sent meanwhile: each buffer is free again some time.                    *)
PoolRefills == \A b \in Buf : (b \notin free) ~> (b \in free)
=============================================================================
