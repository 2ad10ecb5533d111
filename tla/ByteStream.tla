----------------------------- MODULE ByteStream -----------------------------
(***************************************************************************)
(* What a TCP connection promises to the applications at its ends, in one  *)
(* direction: the reader takes the bytes that the writer gave, in their    *)
(* order, each of them once, and nothing before it was given.  The bytes   *)
(* are numbered from 1 as they are given.  Nothing is said of buffers,     *)
(* segments, losses or of how the connection opens and ends.               *)
(***************************************************************************)
EXTENDS Naturals, Sequences

CONSTANT Limit      \* bound on the bytes that the writer gives

VARIABLES given,    \* how many bytes the writer has given
          taken     \* the bytes that the reader has taken

Init == given = 0 /\ taken = <<>>

Give(n) == given' = given + n /\ UNCHANGED taken

Take(n) == /\ taken' = taken \o [i \in 1..n |-> Len(taken) + i]
           /\ UNCHANGED given

Next == \/ \E n \in 1 .. Limit - given : Give(n)
        \/ \E n \in 1 .. given - Len(taken) : Take(n)

Spec == Init /\ [][Next]_<<given, taken>>
=============================================================================
