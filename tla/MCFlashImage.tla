---------------------------- MODULE MCFlashImage ----------------------------
(* Six sectors: two of them in each half for images, one for the boot loader *)
(* and one for the settings.  Two images of two sectors, one that fits in a  *)
(* half only without its tag, one for the whole flash and one too big.       *)
EXTENDS FlashImage

MCSizeOf == [a |-> 7, b |-> 7, edge |-> 8, large |-> 15, huge |-> 16]
MCImages == DOMAIN MCSizeOf
=============================================================================
