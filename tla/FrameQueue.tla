----------------------------- MODULE FrameQueue -----------------------------
(* What a ring of descriptors is for: frames leave it one by one, each of  *)
(* them once, in the order in which they came.                             *)
EXTENDS Naturals, Sequences

CONSTANTS Frame, NoFrame, Capacity
VARIABLES q, out

TypeOK == q \in Seq(Frame) /\ Len(q) <= Capacity /\ out \in Frame \cup {NoFrame}

Init == q = <<>> /\ out = NoFrame

Put(f) == /\ Len(q) < Capacity
          /\ q' = Append(q, f)
          /\ UNCHANGED out

Get == /\ q # <<>>
       /\ out' = Head(q)
       /\ q' = Tail(q)

Next == (\E f \in Frame : Put(f)) \/ Get
Spec == Init /\ [][Next]_<<q, out>>
=============================================================================
