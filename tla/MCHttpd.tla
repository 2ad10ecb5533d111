------------------------------- MODULE MCHttpd -------------------------------
(* Two sockets of the four and uploads of none and two pieces. *)
EXTENDS Httpd
=============================================================================
