-------------------------------- MODULE MCArp --------------------------------
EXTENDS Arp

CONSTANTS s, h1

(* The first bytes of h1 read as the address that is entered by hand.      *)
LooksLikeS == [h \in Hw |-> IF h = h1 THEN s ELSE NoIp]
=============================================================================
