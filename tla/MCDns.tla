------------------------------- MODULE MCDns -------------------------------
(* A counter of four bits, and two hosts to be told apart. *)
EXTENDS Dns, TLC

HostSymmetry == Permutations(Hosts)
=============================================================================
