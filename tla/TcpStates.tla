------------------------------- MODULE TcpStates -------------------------------
(***************************************************************************)
(* The states of a TCP control block (net_tcp_internal.h), the groups the  *)
(* code tests them against, and the state diagram of arriving segments.    *)
(* FREE is not a state of the code: it stands for a control block that is  *)
(* not on the list.                                                        *)
(***************************************************************************)

CONNINPROGRESS == {"LISTEN", "SYN_SENT", "SYN_RECEIVED"}
CLOSINGSTATES == {"FINWAIT_1", "FINWAIT_2", "CLOSING", "LAST_ACK"}
SEND_OK == {"ESTABLISHED", "CLOSE_WAIT"}
RECV_OK == {"ESTABLISHED", "CLOSE_WAIT"}
RESETKEEPALIVE == SEND_OK \cup CLOSINGSTATES
ABORTSTATES == {"SYN_SENT", "SYN_RECEIVED"} \cup RESETKEEPALIVE
States == {"FREE", "CLOSED", "TIME_WAIT"} \cup CONNINPROGRESS \cup RESETKEEPALIVE

(* The transitions that _tcp_rx_callback, _tcp_procack and _tcp_procdata   *)
(* make on a segment without RST.                                          *)
SegmentArrows ==
    {<<"LISTEN", "SYN_RECEIVED">>,
     <<"SYN_SENT", "ESTABLISHED">>, <<"SYN_SENT", "SYN_RECEIVED">>,
     <<"SYN_RECEIVED", "ESTABLISHED">>, <<"ESTABLISHED", "CLOSE_WAIT">>,
     <<"FINWAIT_1", "FINWAIT_2">>, <<"FINWAIT_1", "CLOSING">>, <<"FINWAIT_1", "TIME_WAIT">>,
     <<"FINWAIT_2", "TIME_WAIT">>, <<"CLOSING", "TIME_WAIT">>, <<"LAST_ACK", "FREE">>}
=============================================================================
