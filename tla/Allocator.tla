----------------------------- MODULE Allocator -----------------------------
(***************************************************************************)
(* What the callers of KMALLOC and KFREE rely on, in the terms of the      *)
(* interface alone: an area is inside the pool, starts at the alignment    *)
(* that was asked for, and shares no byte with another area that is in     *)
(* use.  Where the areas lie, and when a request is refused, is left open. *)
(***************************************************************************)
EXTENDS Naturals

CONSTANTS Base, Length,      \* the pool
          Ptr, Int64,        \* sizes of a pointer and of the widest integer
          Sizes, Aligns      \* what callers ask for

VARIABLE held                \* held[p]: the bytes asked for at the area p that a caller has

\* Who asks for less than the alignment of a pointer gets that of an int64.
Promised(align) == IF align < Ptr THEN Int64 ELSE align

Apart(p, s, q, t) == p + s <= q \/ q + t <= p

Init == held = [p \in {} |-> 0]

Kmalloc(size, align) ==
    \E p \in (Base .. Base + Length) \ DOMAIN held :
       /\ p + size <= Base + Length
       /\ p % Promised(align) = 0
       /\ \A q \in DOMAIN held : Apart(p, size, q, held[q])
       /\ held' = [q \in DOMAIN held \cup {p} |-> IF q = p THEN size ELSE held[q]]

Kfree(p) == held' = [q \in DOMAIN held \ {p} |-> held[q]]

Next == \/ \E size \in Sizes, align \in Aligns : Kmalloc(size, align)
        \/ \E p \in DOMAIN held : Kfree(p)

Spec == Init /\ [][Next]_held
=============================================================================
