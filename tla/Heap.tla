-------------------------------- MODULE Heap --------------------------------
(***************************************************************************)
(* The heap of cfe/cfe/lib/lib_malloc.c: one pool, cut into blocks, each   *)
(* with a node at its start.  node[a] is the memnode_t at address a, and   *)
(* DOMAIN node the nodes the list from pool->root reaches.  The word       *)
(* before an area points back to its node; kfree finds the node by it, the *)
(* model by the node's data field.  A second kfree of one area is outside  *)
(* the model: no caller in the image does it.                              *)
(***************************************************************************)
EXTENDS Naturals

CONSTANTS Base, Length,  \* the pool's base and length
          Header,        \* sizeof(memnode_t)
          Ptr,           \* sizeof(void *)
          Int64,         \* sizeof(uint64_t), the alignment of those who ask for none
          MinBlk,        \* MINBLKSIZE
          Sizes, Aligns  \* what callers ask for

\* MINBLKSIZE leaves room for a node behind an area that is rounded up.
ASSUME HeapAssumption ==
    /\ Base \in Nat \ {0} /\ Length \in Nat /\ Header \in Nat \ {0}
    /\ Ptr \in Nat \ {0} /\ Int64 \in Nat \ {0} /\ MinBlk \in Nat
    /\ Length >= Header /\ MinBlk >= Header + Ptr /\ Base % Ptr = 0
    /\ Sizes \subseteq Nat /\ Aligns \subseteq Nat

VARIABLES node,  \* the list of memory nodes
          held   \* held[p]: the bytes its caller asked for at the area p

heapVars == <<node, held>>

NULL == 0
Top == Base + Length

RoundUp(x, al) == IF x % al = 0 THEN x ELSE x + al - (x % al)
Data(a) == a + Header

HeapInit ==
    /\ node = [a \in {Base} |-> [next |-> NULL, length |-> Length - Header,
                                 status |-> "free", data |-> Data(Base)]]
    /\ held = [p \in {} |-> 0]

-----------------------------------------------------------------------------
(* kmalloc *)

Size(size) == IF size = 0 THEN Ptr ELSE RoundUp(size, Ptr)
Alignment(align) == IF align < Ptr THEN Int64 ELSE align

\* Mutant: the padding for the alignment is not asked for
RealSize_NoExtra(a, s, al) == s

\* The space a request takes from the block at a: size is added twice when the
\* block's data is not aligned.
RealSize(a, s, al) ==
    IF Data(a) % al = 0 THEN s ELSE s + (s + (al - (Data(a) % al)))

Fits(s, al) == {a \in DOMAIN node : node[a].status = "free" /\ node[a].length >= RealSize(a, s, al)}

\* The block at a is taken whole, or cut after the area and its rest made a free block.
Taken(a, d) ==
    [b \in DOMAIN node |->
        IF b = a THEN [next |-> node[a].next, length |-> node[a].length, status |-> "alloc", data |-> d]
        ELSE node[b]]

\* Mutant: the data of the rest is measured from the node and not from behind it
Split_NoHeader(a, d, rest) ==
    [b \in DOMAIN node \cup {rest} |->
        CASE b = a    -> [next |-> rest, length |-> rest - Data(a), status |-> "alloc", data |-> d]
          [] b = rest -> [next |-> node[a].next,
                          length |-> Data(a) + node[a].length - rest,
                          status |-> "free", data |-> Data(rest)]
          [] OTHER    -> node[b]]

Split(a, d, rest) ==
    [b \in DOMAIN node \cup {rest} |->
        CASE b = a    -> [next |-> rest, length |-> rest - Data(a), status |-> "alloc", data |-> d]
          [] b = rest -> [next |-> node[a].next,
                          length |-> Data(a) + node[a].length - Data(rest),
                          status |-> "free", data |-> Data(rest)]
          [] OTHER    -> node[b]]

\* A request that nothing fits returns NULL and changes nothing.
Kmalloc(size, align) ==
    LET s  == Size(size)
        al == Alignment(align)
    IN \E a \in Fits(s, al) :
          LET d    == RoundUp(Data(a), al)
              rest == RoundUp(d + s, Ptr)
          IN /\ \A b \in Fits(s, al) : a <= b
             /\ held' = [p \in DOMAIN held \cup {d} |-> IF p = d THEN size ELSE held[p]]
             /\ node' = IF node[a].length - RealSize(a, s, al) < MinBlk
                        THEN Taken(a, d) ELSE Split(a, d, rest)

-----------------------------------------------------------------------------
(* kfree and kmemcompact *)

Mergeable(n, a) == /\ n[a].next # NULL
                   /\ n[a].status = "free" /\ n[n[a].next].status = "free"

Merged(n, a) ==
    LET b == n[a].next
    IN [c \in DOMAIN n \ {b} |->
           IF c = a THEN [next |-> n[b].next, length |-> n[a].length + Header + n[b].length,
                          status |-> "free", data |-> n[a].data]
           ELSE n[c]]

MergeNext(n, a) == IF Mergeable(n, a) THEN Merged(n, a) ELSE n

Before(n, a) == {b \in DOMAIN n : n[b].next = a}

\* kmemcompact merges until no pair is left.  Between calls no two neighbours
\* are free (WellFormed), so only the pairs of the block that was freed are there.
Compact(n, a) ==
    LET m == MergeNext(n, a)
    IN IF Before(m, a) = {} THEN m ELSE MergeNext(m, CHOOSE b \in Before(m, a) : TRUE)

Freed(a) ==
    [b \in DOMAIN node |->
        IF b = a THEN [next |-> node[a].next, length |-> node[a].length,
                       status |-> "free", data |-> node[a].data]
        ELSE node[b]]

Kfree(p) ==
    \E a \in DOMAIN node :
       /\ node[a].status = "alloc" /\ node[a].data = p
       /\ node' = Compact(Freed(a), a)
       /\ held' = [q \in DOMAIN held \ {p} |-> held[q]]

HeapNext == \/ \E size \in Sizes, align \in Aligns : Kmalloc(size, align)
            \/ \E p \in DOMAIN held : Kfree(p)

HeapSpec == HeapInit /\ [][HeapNext]_heapVars

-----------------------------------------------------------------------------
(* Properties *)

End(n, a) == Data(a) + n[a].length

Node == [next : Nat, length : Nat, status : {"free", "alloc"}, data : Nat]

Typed(n, h) == /\ DOMAIN n \subseteq Nat /\ n \in [DOMAIN n -> Node]
               /\ DOMAIN h \subseteq Nat /\ h \in [DOMAIN h -> Nat]

\* The list starts at the base of the pool, each block ends where the next node
\* of the list begins, and the last one ends with the pool.
Tiled(n) ==
    /\ Base \in DOMAIN n
    /\ \A a \in DOMAIN n :
          /\ Base <= a /\ a % Ptr = 0 /\ End(n, a) <= Top
          /\ a # Base => \E b \in DOMAIN n : n[b].next = a
          /\ IF n[a].next = NULL THEN End(n, a) = Top
             ELSE n[a].next = End(n, a) /\ n[a].next \in DOMAIN n
    /\ \A a, b \in DOMAIN n : a < b => End(n, a) <= b

\* No two neighbours are free: what was freed can be had again in one piece.
Compacted(n) == \A a \in DOMAIN n : ~ Mergeable(n, a)

\* The areas that callers hold are exactly the blocks in use, each inside its
\* block; two blocks in use are two areas.
AreasInBlocks(n, h) ==
    /\ \A a \in DOMAIN n : n[a].status = "alloc" =>
          /\ n[a].data \in DOMAIN h
          /\ Data(a) <= n[a].data /\ n[a].data + h[n[a].data] <= End(n, a)
    /\ \A p \in DOMAIN h : \E a \in DOMAIN n : n[a].status = "alloc" /\ n[a].data = p

\* Between calls the pool is what kmemstats calls consistent and what
\* kmemcompact leaves, with the areas of its callers in it; when they have
\* freed everything it is one block again.
WellFormed ==
    /\ Typed(node, held)
    /\ Tiled(node) /\ Compacted(node) /\ AreasInBlocks(node, held)
    /\ DOMAIN held = {} => DOMAIN node = {Base} /\ End(node, Base) = Top

\* kmalloc and kfree keep what their callers rely on: the heap implements Allocator.
A == INSTANCE Allocator
IsAnAllocator == A!Spec

=============================================================================
