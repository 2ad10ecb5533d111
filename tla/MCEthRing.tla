------------------------------ MODULE MCEthRing ------------------------------
(* Rings of three and two descriptors, and two frames that can be told apart. *)
EXTENDS EthRing
=============================================================================
