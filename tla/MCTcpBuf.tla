------------------------------- MODULE MCTcpBuf -------------------------------
(* TcpBuf on a memory of three bytes, with chunks of up to four: longer     *)
(* than the memory, so every call is also made with too much.               *)
EXTENDS TcpBuf

MCByte == {"x", "y"}
=============================================================================
