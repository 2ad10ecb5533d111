------------------------------- MODULE MCTftp -------------------------------
(* Tftp with the values of MCTftp.cfg: two bytes in a block and four block *)
(* numbers, so that the last block of a file of six bytes, an empty one,   *)
(* comes after the largest number.                                         *)
EXTENDS Tftp
=============================================================================
